------------------------ MODULE HttpTransportProofs -------------------------
(* What holds of the transport for every number of connections, retries,   *)
(* events and sends, and every capacity of the channel.                    *)
EXTENDS HttpTransport, SequenceTheorems, TLAPS

\* Where a listener waits to put an item into its channel, it has one; it
\* stores an id it was given; it has not used up its retries; and it exists
\* only once its connection was made.
Task(e) ==
    /\ task[e] \in {"forward", "reject", "flush", "giving_up"}
         => Len(pending[e]) = 1
    /\ task[e] \notin {"forward", "reject", "flush", "giving_up"}
         => pending[e] = <<>>
    /\ task[e] \notin {"giving_up", "done"} => retries[e] <= MaxRetries
    /\ task[e] = "store" => new_sid[e] # {}
    /\ e > epoch => task[e] = "none"

Tasks == \A e \in Epochs : Task(e)

-----------------------------------------------------------------------------
\* The start of what is kept of a sequence is one of its positions or its end.
LEMMA MaxOfTwo ==
    ASSUME NEW a \in Int, NEW b \in Int
    PROVE  Max({a, b}) = IF a >= b THEN a ELSE b
<1>1. CASE a >= b
  <2>1. a \in {a, b} /\ \A y \in {a, b} : a >= y
    BY <1>1
  <2>2. \A x \in {a, b} : (\A y \in {a, b} : x >= y) => x = a
    BY <1>1
  <2> QED
    BY <1>1, <2>1, <2>2 DEF Max
<1>2. CASE ~(a >= b)
  <2>1. b \in {a, b} /\ \A y \in {a, b} : b >= y
    BY <1>2
  <2>2. \A x \in {a, b} : (\A y \in {a, b} : x >= y) => x = b
    BY <1>2
  <2> QED
    BY <1>2, <2>1, <2>2 DEF Max
<1> QED
  BY <1>1, <1>2

\* What a failed stream leaves: a counter within its bound, and an item to put
\* exactly when the listener gives up.
LEMMA StreamFailsFacts ==
    ASSUME TypeOK, Tasks, NEW e \in Epochs, StreamFails(e),
           task[e] \in {"get", "stream", "reject"}
    PROVE  /\ retries' \in [Epochs -> 0..(MaxRetries + 1)]
           /\ attempts' \in [Epochs -> Seq(BOOLEAN)]
           /\ \/ /\ task' = [task EXCEPT ![e] = "giving_up"]
                 /\ pending' = [pending EXCEPT ![e] = <<GaveUp>>]
                 /\ forwarded' = [forwarded EXCEPT ![e] = Append(forwarded[e], GaveUp)]
              \/ /\ task' = [task EXCEPT ![e] = "backoff"]
                 /\ pending' = [pending EXCEPT ![e] = <<>>]
                 /\ forwarded' = forwarded
                 /\ retries'[e] <= MaxRetries
           /\ \A f \in Epochs \ {e} : retries'[f] = retries[f]
           /\ GaveUp \in Item
<1> USE HttpTransportAssumption DEF HttpTransportAssumption
<1>1. NextRetry(e) \in 0..(MaxRetries + 1)
  <2>1. retries[e] \in 0..(MaxRetries + 1)
    BY DEF TypeOK, OwnerTypes, ListenerTypes, PipeTypes
  <2>2. retries[e] <= MaxRetries
    BY DEF Tasks, Task
  <2> QED
    BY <2>1, <2>2 DEF NextRetry
<1>2. retries' = [retries EXCEPT ![e] = NextRetry(e)]
  BY DEF StreamFails, Set
<1>3. retries' \in [Epochs -> 0..(MaxRetries + 1)]
  BY <1>1, <1>2 DEF TypeOK, OwnerTypes, ListenerTypes, PipeTypes
<1>4. ~Exhausted(e) => retries'[e] <= MaxRetries
  BY <1>1, <1>2 DEF TypeOK, OwnerTypes, ListenerTypes, PipeTypes, Exhausted
<1>5. attempts' \in [Epochs -> Seq(BOOLEAN)]
  <2> DEFINE all == Append(attempts[e], accepted[e] > 0)
             from == Max({1, Len(all) - MaxRetries})
  <2>1. all \in Seq(BOOLEAN) /\ Len(all) \in Nat
    BY DEF TypeOK, OwnerTypes, ListenerTypes, PipeTypes
  <2>2. from \in Nat /\ from >= 1
    <3>1. Len(all) - MaxRetries \in Int
      BY <2>1
    <3> HIDE DEF all
    <3> QED
      BY <3>1, MaxOfTwo
  <2>3. \A i \in from..Len(all) : i \in 1..Len(all)
    <3> HIDE DEF all, from
    <3> QED
      BY <2>1, <2>2
  <2>4. SubSeq(all, from, Len(all)) \in Seq(BOOLEAN)
    <3> HIDE DEF all, from
    <3>1. \A i \in from..Len(all) : all[i] \in BOOLEAN
      BY <2>1, <2>3
    <3> QED
      BY <2>1, <2>2, <3>1, SubSeqProperties
  <2>5. attempts' = [attempts EXCEPT ![e] = SubSeq(all, from, Len(all))]
    BY DEF StreamFails, Set
  <2> QED
    BY <2>4, <2>5 DEF TypeOK, OwnerTypes, ListenerTypes, PipeTypes
<1>6. GaveUp \in Item
  BY DEF GaveUp, Item
<1>7. \A f \in Epochs \ {e} : retries'[f] = retries[f]
  BY <1>2 DEF TypeOK, OwnerTypes, ListenerTypes, PipeTypes
<1> QED
  BY <1>3, <1>4, <1>5, <1>6, <1>7 DEF StreamFails, Set

\* What is put into a channel is an item.
LEMMA PutFacts ==
    ASSUME TypeOK, Tasks, NEW e \in Epochs, Put(e) \/ Lost(e),
           task[e] \in {"forward", "reject", "flush", "giving_up"}
    PROVE  chan' \in [Epochs -> Seq(Item)]
<1>1. pending[e] \in Seq(Item) /\ Len(pending[e]) = 1
  BY DEF TypeOK, OwnerTypes, ListenerTypes, PipeTypes, Tasks, Task
<1>2. pending[e][1] \in Item
  BY <1>1
<1>3. chan[e] \in Seq(Item) /\ chan \in [Epochs -> Seq(Item)]
  BY DEF TypeOK, OwnerTypes, ListenerTypes, PipeTypes
<1>4. Append(chan[e], pending[e][1]) \in Seq(Item)
  BY <1>2, <1>3
<1> QED
  BY <1>3, <1>4 DEF Put, Lost, Set

\* What the server sends becomes one item to put.
LEMMA ServedFacts ==
    ASSUME TypeOK, NEW e \in Epochs, NEW kinds \in SUBSET {"message", "bad_event", "too_large"},
           Served(e, kinds)
    PROVE  \E item \in Item :
              /\ served' \in [Epochs -> 0..MaxEvents]
              /\ pending' = [pending EXCEPT ![e] = <<item>>]
              /\ forwarded' = [forwarded EXCEPT ![e] = Append(forwarded[e], item)]
              /\ item # GaveUp
<1> USE HttpTransportAssumption DEF HttpTransportAssumption
<1>1. served[e] + 1 \in 0..MaxEvents
  BY DEF TypeOK, OwnerTypes, ListenerTypes, PipeTypes, Served
<1>2. served' \in [Epochs -> 0..MaxEvents]
  BY <1>1 DEF TypeOK, OwnerTypes, ListenerTypes, PipeTypes, Served, Set
<1>3. PICK kind \in kinds :
        /\ pending' = [pending EXCEPT ![e] = <<[kind |-> kind, n |-> served[e] + 1]>>]
        /\ forwarded' = [forwarded EXCEPT ![e] =
                            Append(forwarded[e], [kind |-> kind, n |-> served[e] + 1])]
  BY DEF Served, Set
<1>4. [kind |-> kind, n |-> served[e] + 1] \in Item
  BY <1>1 DEF Item
<1>5. [kind |-> kind, n |-> served[e] + 1] # GaveUp
  BY DEF GaveUp
<1> QED
  BY <1>2, <1>3, <1>4, <1>5

\* Every step keeps the variables' types and what is known of each listener.
LEMMA TypesAreKept ==
    ASSUME TypeOK, Tasks, [Next]_vars
    PROVE  TypeOK' /\ Tasks'
<1> USE HttpTransportAssumption DEF HttpTransportAssumption
<1> USE DEF ownerVars, loopVars, pipeVars, TaskStates
<1>shapes. /\ task \in [Epochs -> TaskStates]
           /\ pending \in [Epochs -> Seq(Item)]
           /\ retries \in [Epochs -> 0..(MaxRetries + 1)]
           /\ new_sid \in [Epochs -> SidOptions]
           /\ epoch \in Nat
  BY DEF TypeOK, OwnerTypes, ListenerTypes, PipeTypes
<1>empty. <<>> \in Seq(Item)
  OBVIOUS
<1>append. \A q \in Seq(Item) : \A x \in Item : Append(q, x) \in Seq(Item)
  OBVIOUS
<1>single. \A x \in Item : <<x>> \in Seq(Item)
  OBVIOUS
<1>failing. ASSUME NEW e \in Epochs, StreamFails(e), task[e] \in {"get", "stream", "reject"},
                   UNCHANGED <<new_sid, epoch>>
            PROVE  Tasks'
  <2> SUFFICES ASSUME NEW f \in Epochs
               PROVE  Task(f)'
    BY DEF Tasks
  <2>1. CASE f = e
    BY <1>failing, <1>shapes, <2>1, StreamFailsFacts DEF Tasks, Task
  <2>2. CASE f # e
    <3>1. /\ task'[f] = task[f] /\ pending'[f] = pending[f]
          /\ retries'[f] = retries[f] /\ new_sid'[f] = new_sid[f] /\ epoch' = epoch
      <4>1. retries'[f] = retries[f]
        BY <1>failing, <2>2, StreamFailsFacts
      <4>2. task'[f] = task[f] /\ pending'[f] = pending[f]
        BY <1>failing, <1>shapes, <2>2 DEF StreamFails, Set
      <4> QED
        BY <1>failing, <4>1, <4>2
    <3> QED
      BY <3>1 DEF Tasks, Task
  <2> QED
    BY <2>1, <2>2
<1>1. CASE Connect
  <2>1. TypeOK'
    <3>1. OwnerTypes'
      BY <1>1 DEF Connect, Set, Epochs, TypeOK, OwnerTypes
    <3>2. ListenerTypes'
      BY <1>1 DEF Connect, Set, Epochs, TypeOK, ListenerTypes
    <3>3. PipeTypes'
      BY <1>1 DEF Connect, Set, Epochs, TypeOK, PipeTypes
    <3> QED
      BY <3>1, <3>2, <3>3 DEF TypeOK
  <2>2. Tasks'
    <3>1. epoch' = epoch + 1 /\ epoch + 1 \in Epochs
      BY <1>1, <1>shapes DEF Connect, Epochs
    <3>2. task' = [task EXCEPT ![epoch + 1] = "attach"]
          /\ UNCHANGED <<pending, retries, new_sid>>
      BY <1>1 DEF Connect, Set
    <3>3. ASSUME NEW e \in Epochs
          PROVE  Task(e)'
      <4>1. CASE e = epoch + 1
        <5>1. task[e] = "none" /\ task'[e] = "attach" /\ ~(e > epoch')
          BY <1>shapes, <3>1, <3>2, <4>1 DEF Tasks, Task
        <5> QED
          BY <3>2, <5>1 DEF Tasks, Task
      <4>2. CASE e # epoch + 1
        <5>1. task'[e] = task[e] /\ (e > epoch' => e > epoch)
          BY <1>shapes, <3>1, <3>2, <4>2 DEF Epochs
        <5> QED
          BY <3>2, <5>1 DEF Tasks, Task
      <4> QED
        BY <4>1, <4>2
    <3> QED
      BY <3>3 DEF Tasks
  <2> QED
    BY <2>1, <2>2
<1>2. CASE DisconnectBegin
  <2>1. TypeOK'
    <3>1. OwnerTypes'
      BY <1>2 DEF DisconnectBegin, Set, TypeOK, OwnerTypes
    <3>2. ListenerTypes'
      BY <1>2 DEF DisconnectBegin, Set, TypeOK, ListenerTypes
    <3>3. PipeTypes'
      BY <1>2, <1>empty DEF DisconnectBegin, Set, TypeOK, PipeTypes
    <3> QED
      BY <3>1, <3>2, <3>3 DEF TypeOK
  <2>2. Tasks'
    BY <1>shapes, <1>2 DEF DisconnectBegin, Set, Tasks, Task
  <2> QED
    BY <2>1, <2>2
<1>3. CASE Disconnecting \/ DisconnectDropped
  <2>1. TypeOK'
    <3>1. OwnerTypes'
      BY <1>3 DEF Disconnecting, DisconnectDropped, DisconnectDelete,
         DisconnectNoSession, DisconnectDeleted, DisconnectClear,
         DisconnectStep, TypeOK, OwnerTypes, SidOptions
    <3>2. ListenerTypes'
      BY <1>3 DEF Disconnecting, DisconnectDropped, DisconnectDelete,
         DisconnectNoSession, DisconnectDeleted, DisconnectClear,
         DisconnectStep, TypeOK, ListenerTypes
    <3>3. PipeTypes'
      BY <1>3 DEF Disconnecting, DisconnectDropped, DisconnectDelete,
         DisconnectNoSession, DisconnectDeleted, DisconnectClear,
         DisconnectStep, TypeOK, PipeTypes
    <3> QED
      BY <3>1, <3>2, <3>3 DEF TypeOK
  <2>2. Tasks'
    BY <1>shapes, <1>3 DEF Disconnecting, DisconnectDropped, DisconnectDelete,
       DisconnectNoSession, DisconnectDeleted, DisconnectClear,
       DisconnectStep, Tasks, Task
  <2> QED
    BY <2>1, <2>2
<1>4. ASSUME NEW s \in Sends, SendPosts(s)
      PROVE  TypeOK' /\ Tasks'
  <2>1. TypeOK'
    <3>1. OwnerTypes'
      BY <1>4 DEF SendPosts, Set, TypeOK, OwnerTypes
    <3>2. ListenerTypes'
      BY <1>4 DEF SendPosts, Set, TypeOK, ListenerTypes
    <3>3. PipeTypes'
      BY <1>4 DEF SendPosts, Set, TypeOK, PipeTypes
    <3> QED
      BY <3>1, <3>2, <3>3 DEF TypeOK
  <2>2. Tasks'
    BY <1>shapes, <1>4 DEF SendPosts, Set, Tasks, Task
  <2> QED
    BY <2>1, <2>2
<1>5. ASSUME NEW s \in Sends, SendReturns(s)
      PROVE  TypeOK' /\ Tasks'
  <2>1. TypeOK'
    <3>1. OwnerTypes'
      BY <1>5 DEF SendReturns, Set, TypeOK, OwnerTypes, SidOptions
    <3>2. ListenerTypes'
      BY <1>5 DEF SendReturns, Set, TypeOK, ListenerTypes
    <3>3. PipeTypes'
      BY <1>5 DEF SendReturns, Set, TypeOK, PipeTypes
    <3> QED
      BY <3>1, <3>2, <3>3 DEF TypeOK
  <2>2. Tasks'
    BY <1>shapes, <1>5 DEF SendReturns, Set, Tasks, Task
  <2> QED
    BY <2>1, <2>2
<1>6. CASE Recv
  <2>1. TypeOK'
    <3>1. OwnerTypes'
      BY <1>6 DEF Recv, Set, TypeOK, OwnerTypes
    <3>2. ListenerTypes'
      BY <1>6 DEF Recv, Set, TypeOK, ListenerTypes
    <3>3. PipeTypes'
      <4>1. CASE epoch \in Epochs
        <5>1. chan[epoch] \in Seq(Item) /\ chan[epoch] # <<>> /\ delivered[epoch] \in Seq(Item)
          BY <1>6, <4>1 DEF Recv, TypeOK, PipeTypes
        <5>2. Head(chan[epoch]) \in Item /\ Tail(chan[epoch]) \in Seq(Item)
          BY <5>1
        <5>3. Append(delivered[epoch], Head(chan[epoch])) \in Seq(Item)
          BY <5>1, <5>2, <1>append
        <5> QED
          BY <1>6, <4>1, <5>2, <5>3 DEF Recv, Set, TypeOK, PipeTypes
      <4>2. CASE epoch \notin Epochs
        BY <1>6, <4>2 DEF Recv, Set, TypeOK, PipeTypes
      <4> QED
        BY <4>1, <4>2
    <3> QED
      BY <3>1, <3>2, <3>3 DEF TypeOK
  <2>2. Tasks'
    BY <1>shapes, <1>6 DEF Recv, Set, Tasks, Task
  <2> QED
    BY <2>1, <2>2
<1>7. CASE RecvClosed \/ RecvWithoutReceiver
  <2>1. TypeOK'
    <3>1. OwnerTypes'
      BY <1>7 DEF RecvClosed, RecvWithoutReceiver, Set, TypeOK, OwnerTypes
    <3>2. ListenerTypes'
      BY <1>7 DEF RecvClosed, RecvWithoutReceiver, Set, TypeOK, ListenerTypes
    <3>3. PipeTypes'
      BY <1>7 DEF RecvClosed, RecvWithoutReceiver, Set, TypeOK, PipeTypes
    <3> QED
      BY <3>1, <3>2, <3>3 DEF TypeOK
  <2>2. Tasks'
    BY <1>shapes, <1>7 DEF RecvClosed, RecvWithoutReceiver, Set, Tasks, Task
  <2> QED
    BY <2>1, <2>2
<1>19. ASSUME NEW e \in Epochs, ServePanic(e)
       PROVE  TypeOK' /\ Tasks'
  <2>1. TypeOK'
    <3>1. OwnerTypes'
      BY <1>19 DEF ServePanic, TypeOK, OwnerTypes
    <3>2. ListenerTypes'
      BY <1>19 DEF ServePanic, Set, TypeOK, ListenerTypes
    <3>3. PipeTypes'
      BY <1>19 DEF ServePanic, Set, TypeOK, PipeTypes
    <3> QED
      BY <3>1, <3>2, <3>3 DEF TypeOK
  <2>2. Tasks'
    BY <1>shapes, <1>19 DEF ServePanic, Set, Tasks, Task
  <2> QED
    BY <2>1, <2>2
<1>8. ASSUME NEW e \in Epochs, BackoffElapses(e) \/ EndCleanly(e)
      PROVE  TypeOK' /\ Tasks'
  <2>1. TypeOK'
    <3>1. OwnerTypes'
      BY <1>8 DEF BackoffElapses, EndCleanly, Set, TypeOK, OwnerTypes
    <3>2. ListenerTypes'
      BY <1>8 DEF BackoffElapses, EndCleanly, Set, TypeOK,
         ListenerTypes
    <3>3. PipeTypes'
      BY <1>8 DEF BackoffElapses, EndCleanly, Set, TypeOK, PipeTypes
    <3> QED
      BY <3>1, <3>2, <3>3 DEF TypeOK
  <2>2. Tasks'
    BY <1>shapes, <1>8 DEF BackoffElapses, EndCleanly, Set, Tasks, Task
  <2> QED
    BY <2>1, <2>2
<1>18. ASSUME NEW e \in Epochs, Attach(e)
       PROVE  TypeOK' /\ Tasks'
  <2>1. TypeOK'
    <3>1. OwnerTypes'
      BY <1>18 DEF Attach, Set, TypeOK, OwnerTypes
    <3>2. ListenerTypes'
      <4>1. task' \in [Epochs -> TaskStates]
        BY <1>18, <1>shapes DEF Attach, Set
      <4>2. had_data' \in [Epochs -> BOOLEAN] /\ accepted' \in [Epochs -> Nat]
        BY <1>18 DEF Attach, Set, TypeOK, ListenerTypes
      <4> QED
        BY <1>18, <4>1, <4>2 DEF Attach, TypeOK, ListenerTypes
    <3>3. PipeTypes'
      BY <1>18 DEF Attach, Set, TypeOK, PipeTypes
    <3> QED
      BY <3>1, <3>2, <3>3 DEF TypeOK
  <2>2. Tasks'
    BY <1>shapes, <1>18 DEF Attach, Set, Tasks, Task
  <2> QED
    BY <2>1, <2>2
<1>9. ASSUME NEW e \in Epochs, GetSucceeds(e)
      PROVE  TypeOK' /\ Tasks'
  <2>1. TypeOK'
    <3>1. OwnerTypes'
      BY <1>9 DEF GetSucceeds, Set, TypeOK, OwnerTypes
    <3>2. ListenerTypes'
      <4>1. task' \in [Epochs -> TaskStates]
        BY <1>9, <1>shapes DEF GetSucceeds, Set
      <4>2. new_sid' \in [Epochs -> SidOptions]
        BY <1>9, <1>shapes, ZenonT(60) DEF GetSucceeds, Set, SidOptions
      <4> QED
        BY <1>9, <4>1, <4>2 DEF GetSucceeds, TypeOK, ListenerTypes
    <3>3. PipeTypes'
      BY <1>9 DEF GetSucceeds, Set, TypeOK, PipeTypes
    <3> QED
      BY <3>1, <3>2, <3>3 DEF TypeOK
  <2>2. Tasks'
    BY <1>shapes, <1>9, ZenonT(60) DEF GetSucceeds, Set, Tasks, Task
  <2> QED
    BY <2>1, <2>2
<1>10. ASSUME NEW e \in Epochs, StoreSession(e)
       PROVE  TypeOK' /\ Tasks'
  <2>1. TypeOK'
    <3>1. OwnerTypes'
      BY <1>10, <1>shapes DEF StoreSession, Set, TypeOK, OwnerTypes
    <3>2. ListenerTypes'
      BY <1>10 DEF StoreSession, Set, TypeOK, ListenerTypes
    <3>3. PipeTypes'
      BY <1>10 DEF StoreSession, Set, TypeOK, PipeTypes
    <3> QED
      BY <3>1, <3>2, <3>3 DEF TypeOK
  <2>2. Tasks'
    BY <1>shapes, <1>10 DEF StoreSession, Set, Tasks, Task
  <2> QED
    BY <2>1, <2>2
<1>11. ASSUME NEW e \in Epochs, GetFails(e) \/ ReadFails(e)
       PROVE  TypeOK' /\ Tasks'
  <2>1. StreamFails(e) /\ task[e] \in {"get", "stream", "reject"}
    BY <1>11 DEF GetFails, ReadFails
  <2>2. TypeOK'
    <3>1. OwnerTypes'
      BY <1>11, <2>1, StreamFailsFacts DEF GetFails, ReadFails, TypeOK,
         OwnerTypes
    <3>2. ListenerTypes'
      BY <1>11, <2>1, StreamFailsFacts DEF GetFails, ReadFails, TypeOK,
         ListenerTypes
    <3>3. PipeTypes'
      <4>1. pending' \in [Epochs -> Seq(Item)]
        BY <1>shapes, <2>1, <1>empty, <1>single, StreamFailsFacts, ZenonT(60)
      <4>2. forwarded' \in [Epochs -> Seq(Item)]
        <5>1. forwarded \in [Epochs -> Seq(Item)] /\ forwarded[e] \in Seq(Item)
          BY DEF TypeOK, PipeTypes
        <5>2. GaveUp \in Item /\ \/ forwarded' = forwarded
                                 \/ forwarded' = [forwarded EXCEPT ![e] = Append(forwarded[e], GaveUp)]
          BY <2>1, StreamFailsFacts
        <5> QED
          BY <5>1, <5>2, <1>append
      <4> QED
        BY <1>11, <4>1, <4>2 DEF GetFails, ReadFails, TypeOK, PipeTypes
    <3> QED
      BY <3>1, <3>2, <3>3 DEF TypeOK
  <2>3. Tasks'
    BY <1>11, <1>failing DEF GetFails, ReadFails
  <2> QED
    BY <2>2, <2>3
<1>12. ASSUME NEW e \in Epochs, ServeEvent(e) \/ ServeTooLarge(e) \/ EndWithEvent(e)
       PROVE  TypeOK' /\ Tasks'
  <2>1. PICK item \in Item :
           /\ served' \in [Epochs -> 0..MaxEvents]
           /\ pending' = [pending EXCEPT ![e] = <<item>>]
           /\ forwarded' = [forwarded EXCEPT ![e] = Append(forwarded[e], item)]
    BY <1>12, ServedFacts DEF ServeEvent, ServeTooLarge, EndWithEvent
  <2>2. TypeOK'
    <3>1. OwnerTypes'
      BY <1>12, <2>1 DEF ServeEvent, ServeTooLarge, EndWithEvent, Served, Set,
         TypeOK, OwnerTypes
    <3>2. ListenerTypes'
      BY <1>12, <2>1 DEF ServeEvent, ServeTooLarge, EndWithEvent, Served, Set,
         TypeOK, ListenerTypes
    <3>3. PipeTypes'
      BY <1>12, <2>1, SMTT(30) DEF ServeEvent, ServeTooLarge, EndWithEvent, Served, Set,
         TypeOK, PipeTypes
    <3> QED
      BY <3>1, <3>2, <3>3 DEF TypeOK
  <2>3. Tasks'
    BY <1>shapes, <1>12, <2>1 DEF ServeEvent, ServeTooLarge, EndWithEvent, Served, Set,
       Tasks, Task
  <2> QED
    BY <2>2, <2>3
<1>13. ASSUME NEW e \in Epochs, Forward(e)
       PROVE  TypeOK' /\ Tasks'
  <2>1. chan' \in [Epochs -> Seq(Item)]
    BY <1>13, PutFacts DEF Forward
  <2>2. TypeOK'
    <3>1. OwnerTypes'
      BY <1>13, <2>1 DEF Forward, Set, TypeOK, OwnerTypes
    <3>2. ListenerTypes'
      <4>1. task' \in [Epochs -> TaskStates]
        BY <1>13, <1>shapes DEF Forward, Set
      <4>2. had_data' \in [Epochs -> BOOLEAN]
        BY <1>13 DEF Forward, Set, TypeOK, ListenerTypes
      <4>3. accepted' \in [Epochs -> Nat]
        BY <1>13 DEF Forward, Set, TypeOK, ListenerTypes
      <4> QED
        BY <1>13, <4>1, <4>2, <4>3 DEF Forward, TypeOK, ListenerTypes
    <3>3. PipeTypes'
      BY <1>13, <2>1, <1>empty DEF Forward, Set, TypeOK, PipeTypes
    <3> QED
      BY <3>1, <3>2, <3>3 DEF TypeOK
  <2>3. Tasks'
    BY <1>shapes, <1>13, <2>1 DEF Forward, Set, Tasks, Task
  <2> QED
    BY <2>2, <2>3
<1>14. ASSUME NEW e \in Epochs, Reject(e)
       PROVE  TypeOK' /\ Tasks'
  <2>1. chan' \in [Epochs -> Seq(Item)]
    BY <1>14, PutFacts DEF Reject
  <2>2. TypeOK'
    <3>1. OwnerTypes'
      BY <1>14, <2>1, StreamFailsFacts DEF Reject, TypeOK, OwnerTypes
    <3>2. ListenerTypes'
      BY <1>14, <2>1, StreamFailsFacts DEF Reject, TypeOK, ListenerTypes
    <3>3. PipeTypes'
      <4>1. pending' \in [Epochs -> Seq(Item)]
        BY <1>14, <1>shapes, <1>empty, <1>single, StreamFailsFacts, ZenonT(60) DEF Reject
      <4>2. forwarded' \in [Epochs -> Seq(Item)]
        <5>1. forwarded \in [Epochs -> Seq(Item)] /\ forwarded[e] \in Seq(Item)
          BY DEF TypeOK, PipeTypes
        <5>2. GaveUp \in Item /\ \/ forwarded' = forwarded
                                 \/ forwarded' = [forwarded EXCEPT ![e] = Append(forwarded[e], GaveUp)]
          BY <1>14, StreamFailsFacts DEF Reject
        <5> QED
          BY <5>1, <5>2, <1>append
      <4> QED
        BY <1>14, <2>1, <4>1, <4>2 DEF Reject, TypeOK, PipeTypes
    <3> QED
      BY <3>1, <3>2, <3>3 DEF TypeOK
  <2>3. Tasks'
    BY <1>14, <1>failing DEF Reject
  <2> QED
    BY <2>2, <2>3
<1>15. ASSUME NEW e \in Epochs, Flush(e) \/ GiveUp(e)
       PROVE  TypeOK' /\ Tasks'
  <2>1. chan' \in [Epochs -> Seq(Item)]
    BY <1>15, PutFacts DEF Flush, GiveUp, LastWords
  <2>2. TypeOK'
    <3>1. OwnerTypes'
      BY <1>15, <2>1 DEF Flush, GiveUp, LastWords, Set, TypeOK, OwnerTypes
    <3>2. ListenerTypes'
      BY <1>15, <2>1 DEF Flush, GiveUp, LastWords, Set, TypeOK, ListenerTypes
    <3>3. PipeTypes'
      BY <1>15, <2>1, <1>empty DEF Flush, GiveUp, LastWords, Set, TypeOK, PipeTypes
    <3> QED
      BY <3>1, <3>2, <3>3 DEF TypeOK
  <2>3. Tasks'
    BY <1>shapes, <1>15, <2>1 DEF Flush, GiveUp, LastWords, Set, Tasks, Task
  <2> QED
    BY <2>2, <2>3
<1>16. ASSUME NEW e \in Epochs, Die(e)
       PROVE  TypeOK' /\ Tasks'
  <2>1. TypeOK'
    <3>1. OwnerTypes'
      BY <1>16 DEF Die, Set, TypeOK, OwnerTypes
    <3>2. ListenerTypes'
      BY <1>16 DEF Die, Set, TypeOK, ListenerTypes
    <3>3. PipeTypes'
      BY <1>16 DEF Die, Set, TypeOK, PipeTypes
    <3> QED
      BY <3>1, <3>2, <3>3 DEF TypeOK
  <2>2. Tasks'
    BY <1>shapes, <1>16 DEF Die, Set, Ended, Tasks, Task
  <2> QED
    BY <2>1, <2>2
<1>17. CASE UNCHANGED vars
  <2>1. TypeOK'
    <3>1. OwnerTypes'
      BY <1>17 DEF vars, TypeOK, OwnerTypes
    <3>2. ListenerTypes'
      BY <1>17 DEF vars, TypeOK, ListenerTypes
    <3>3. PipeTypes'
      BY <1>17 DEF vars, TypeOK, PipeTypes
    <3> QED
      BY <3>1, <3>2, <3>3 DEF TypeOK
  <2>2. Tasks'
    BY <1>shapes, <1>17 DEF vars, Tasks, Task
  <2> QED
    BY <2>1, <2>2
<1> QED
  BY <1>1, <1>2, <1>3, <1>4, <1>5, <1>6, <1>7, <1>8, <1>9, <1>10, <1>11, <1>12,
     <1>13, <1>14, <1>15, <1>16, <1>17, <1>18, <1>19
     DEF Next, Owner, ListenerRuns, ServerActs

-----------------------------------------------------------------------------
\* A receiver is kept only while connected and not disconnecting; a listener
\* is either of the live connection or was told to stop, never both.
Owners ==
    /\ rx => connected /\ op = "idle"
    /\ op # "idle" => connected
    /\ \A e \in Epochs :
          /\ task[e] \notin Ended /\ ~aborted[e] => Open(e)
          /\ aborted[e] => e <= epoch /\ ~Open(e)

\* A step of one listener, which runs, changes nothing of the owner's but the
\* session id, and no handle.
LEMMA ListenerSteps ==
    ASSUME TypeOK, Tasks, NEW e \in Epochs, ListenerRuns(e) \/ ServerActs(e)
    PROVE  /\ task[e] \notin Ended
           /\ \E where \in TaskStates : task' = [task EXCEPT ![e] = where]
           /\ UNCHANGED <<connected, rx, op, sends, epoch, aborted>>
<1> USE DEF ownerVars, loopVars, pipeVars, TaskStates, Ended
<1>1. CASE Attach(e) \/ GetSucceeds(e) \/ StoreSession(e) \/ BackoffElapses(e)
  BY <1>1 DEF Attach, GetSucceeds, StoreSession, BackoffElapses, Set
<1>2. CASE \/ ServeEvent(e) \/ ServeTooLarge(e) \/ ServePanic(e)
           \/ EndWithEvent(e) \/ EndCleanly(e)
  BY <1>2 DEF ServeEvent, ServeTooLarge, ServePanic, EndWithEvent, EndCleanly, Served, Set
<1>3. CASE GetFails(e) \/ ReadFails(e) \/ Reject(e)
  <2>1. StreamFails(e) /\ task[e] \in {"get", "stream", "reject"}
    BY <1>3 DEF GetFails, ReadFails, Reject
  <2>2. \E where \in TaskStates : task' = [task EXCEPT ![e] = where]
    BY <2>1 DEF StreamFails, Set
  <2> QED
    BY <1>3, <2>1, <2>2 DEF GetFails, ReadFails, Reject
<1>4. CASE Forward(e) \/ Flush(e) \/ GiveUp(e) \/ Die(e)
  BY <1>4 DEF Forward, Flush, GiveUp, LastWords, Die, Set
<1> QED
  BY <1>1, <1>2, <1>3, <1>4 DEF ListenerRuns, ServerActs

\* Steps of the owner that leave its connection as it is.
Quiet ==
    \/ DisconnectDelete \/ DisconnectNoSession \/ DisconnectDeleted
    \/ DisconnectDropped
    \/ \E s \in Sends : SendPosts(s) \/ SendReturns(s)
    \/ Recv \/ RecvClosed \/ RecvWithoutReceiver
    \/ UNCHANGED vars

LEMMA QuietSteps ==
    ASSUME Quiet
    PROVE  /\ UNCHANGED <<connected, rx, epoch, aborted, task>>
           /\ op' = op \/ op # "idle"
           /\ op # "idle" \/ op' = "idle"
  BY DEF Quiet, DisconnectDelete, DisconnectNoSession, DisconnectDeleted,
     DisconnectDropped, DisconnectStep, SendPosts, SendReturns, Recv, RecvClosed,
     RecvWithoutReceiver, ownerVars, loopVars, pipeVars, vars

LEMMA OwnersAreKept ==
    ASSUME TypeOK, Tasks, Owners, [Next]_vars
    PROVE  Owners'
<1>shapes. /\ task \in [Epochs -> TaskStates] /\ aborted \in [Epochs -> BOOLEAN]
           /\ epoch \in Nat /\ rx \in BOOLEAN /\ connected \in BOOLEAN
  BY HttpTransportAssumption DEF HttpTransportAssumption, TypeOK, OwnerTypes, ListenerTypes
<1>1. CASE Connect
  <2>1. /\ ~connected /\ op = "idle" /\ ~rx
        /\ connected' /\ rx' /\ op' = "idle" /\ epoch' = epoch + 1
        /\ task' = [task EXCEPT ![epoch + 1] = "attach"] /\ aborted' = aborted
    BY <1>1 DEF Connect, Set, loopVars, Owners
  <2>2. ASSUME NEW e \in Epochs
        PROVE  /\ task'[e] \notin Ended /\ ~aborted'[e] => Open(e)'
               /\ aborted'[e] => e <= epoch' /\ ~Open(e)'
    <3>1. CASE e = epoch + 1
      <4>1. ~aborted[e]
        BY <3>1, <1>shapes DEF Owners
      <4> QED
        BY <2>1, <3>1, <4>1 DEF Open
    <3>2. CASE e # epoch + 1
      <4>1. task[e] \in Ended \/ aborted[e]
        BY <2>1, <1>shapes DEF Owners, Open
      <4>2. aborted[e] => e <= epoch + 1
        BY <1>shapes DEF Owners, Epochs
      <4>3. task'[e] = task[e] /\ aborted'[e] = aborted[e]
        BY <1>shapes, <2>1, <3>2
      <4> QED
        BY <2>1, <3>2, <4>1, <4>2, <4>3 DEF Open
    <3> QED
      BY <3>1, <3>2
  <2> QED
    BY <2>1, <2>2 DEF Owners
<1>2. CASE DisconnectBegin
  <2>1. /\ connected /\ ~rx' /\ op' = "terminating" /\ connected' = connected
        /\ task' = task /\ epoch' = epoch /\ aborted' = [aborted EXCEPT ![epoch] = TRUE]
    BY <1>2 DEF DisconnectBegin, Set
  <2>2. ASSUME NEW e \in Epochs
        PROVE  /\ task'[e] \notin Ended /\ ~aborted'[e] => Open(e)'
               /\ aborted'[e] => e <= epoch' /\ ~Open(e)'
    <3>1. CASE e = epoch
      <4>1. aborted'[e]
        BY <1>shapes, <2>1, <3>1
      <4>2. e <= epoch'
        BY <1>shapes, <2>1, <3>1
      <4> QED
        BY <2>1, <4>1, <4>2 DEF Open
    <3>2. CASE e # epoch
      <4>1. aborted'[e] = aborted[e]
        BY <1>shapes, <2>1, <3>2
      <4> QED
        BY <2>1, <3>2, <4>1 DEF Owners, Open
    <3> QED
      BY <3>1, <3>2
  <2> QED
    BY <2>1, <2>2 DEF Owners
<1>3. CASE DisconnectClear
  BY <1>3 DEF DisconnectClear, Owners, Open, loopVars
<1>4. CASE Quiet
  BY <1>4, QuietSteps DEF Owners, Open
<1>5. ASSUME NEW e \in Epochs, ListenerRuns(e) \/ ServerActs(e)
      PROVE  Owners'
  <2>1. PICK where \in TaskStates : task' = [task EXCEPT ![e] = where]
    BY <1>5, ListenerSteps
  <2>2. task[e] \notin Ended /\ UNCHANGED <<connected, rx, op, sends, epoch, aborted>>
    BY <1>5, ListenerSteps
  <2>3. \A f \in Epochs : task'[f] \notin Ended => task[f] \notin Ended
    BY <1>shapes, <2>1, <2>2
  <2> QED
    BY <2>2, <2>3 DEF Owners, Open
<1> QED
  BY <1>1, <1>2, <1>3, <1>4, <1>5 DEF Next, Owner, Disconnecting, Quiet

-----------------------------------------------------------------------------
\* The parts of a queue in order, and the beginning of a sequence.
Join(d, c, p) == d \o c \o p
Begins(d, q) == \E r \in Seq(Item) : q = d \o r

\* Every item is in one place, and nothing waits in a channel nobody reads.
Queue(e) ==
    /\ Open(e) => forwarded[e] = Join(delivered[e], chan[e], pending[e])
    /\ Begins(delivered[e], forwarded[e])
    /\ Len(chan[e]) <= RecvBuffer
    /\ ~Open(e) => chan[e] = <<>>
    /\ e > epoch => forwarded[e] = <<>> /\ delivered[e] = <<>> /\ ~closed[e]

Queues == \A e \in Epochs : Queue(e)

\* What a step of a listener does to its items: nothing; it takes one from
\* the server or the loop; it puts the one it has, and may take another; or
\* nobody receives, and the one it has is lost.
Idles(e) ==
    chan'[e] = chan[e] /\ pending'[e] = pending[e] /\ forwarded'[e] = forwarded[e]

Takes(e) ==
    \E x \in Item : pending'[e] = <<x>> /\ forwarded'[e] = Append(forwarded[e], x)

Puts(e) ==
    /\ Open(e) /\ Len(chan[e]) < RecvBuffer /\ Len(pending[e]) = 1
    /\ chan'[e] = Append(chan[e], pending[e][1])
    /\ Takes(e) \/ (pending'[e] = <<>> /\ forwarded'[e] = forwarded[e])

Loses(e) ==
    /\ ~Open(e) /\ chan'[e] = chan[e]
    /\ Takes(e) \/ forwarded'[e] = forwarded[e]

\* Moving the first element of the middle to the end of the left changes
\* nothing of the whole.
LEMMA ReceiveKeepsOrder ==
    ASSUME NEW S, NEW d \in Seq(S), NEW c \in Seq(S), NEW p \in Seq(S), c # <<>>
    PROVE  Join(Append(d, Head(c)), Tail(c), p) = Join(d, c, p)
<1>1. Head(c) \in S /\ Tail(c) \in Seq(S) /\ Len(Tail(c)) = Len(c) - 1
      /\ Len(c) \in Nat /\ Len(d) \in Nat
  BY HeadTailProperties, LenProperties
<1>2. c = <<Head(c)>> \o Tail(c)
  OBVIOUS
<1>3. Append(d, Head(c)) = d \o <<Head(c)>> /\ <<Head(c)>> \in Seq(S)
  BY <1>1
<1>4. (d \o <<Head(c)>>) \o Tail(c) = d \o (<<Head(c)>> \o Tail(c))
  BY <1>1, <1>3, ConcatAssociative
<1> QED
  BY <1>1, <1>2, <1>3, <1>4 DEF Join

\* Putting the one element of the right at the end of the middle, too.
LEMMA PutKeepsOrder ==
    ASSUME NEW S, NEW d \in Seq(S), NEW c \in Seq(S), NEW p \in Seq(S), Len(p) = 1
    PROVE  /\ Join(d, Append(c, p[1]), <<>>) = Join(d, c, p)
           /\ Append(c, p[1]) \in Seq(S)
           /\ Len(Append(c, p[1])) = Len(c) + 1
<1>1. p = <<p[1]>> /\ p[1] \in S
  <2>1. p[1] \in S
    BY ElementOfSeq, SMTT(30)
  <2>2. <<p[1]>> \in Seq(S) /\ Len(<<p[1]>>) = Len(p)
    BY <2>1
  <2>3. \A i \in 1..Len(p) : p[i] = <<p[1]>>[i]
    OBVIOUS
  <2>4. p = <<p[1]>>
    BY <2>2, <2>3, SeqEqual
  <2> QED
    BY <2>1, <2>4
<1>2. Append(c, p[1]) = c \o <<p[1]>>
  BY <1>1
<1>3. Append(c, p[1]) \in Seq(S) /\ Len(Append(c, p[1])) = Len(c) + 1
  BY <1>1
<1>4. (d \o c) \o p = d \o (c \o p)
  BY ConcatAssociative
<1>5. d \o Append(c, p[1]) \in Seq(S)
  BY <1>3, ConcatProperties
<1>6. d \o Append(c, p[1]) \o <<>> = d \o Append(c, p[1])
  BY <1>5, ConcatEmptySeq
<1>7. d \o c \o p = d \o Append(c, p[1])
  BY <1>1, <1>2, <1>4
<1> QED
  BY <1>3, <1>6, <1>7 DEF Join

\* Appending to the whole is putting on its empty right end.
LEMMA TakeKeepsOrder ==
    ASSUME NEW S, NEW d \in Seq(S), NEW c \in Seq(S), NEW x \in S
    PROVE  Append(Join(d, c, <<>>), x) = Join(d, c, <<x>>)
<1> DEFINE q == d \o c
<1>1. q \in Seq(S)
  BY ConcatProperties
<1> HIDE DEF q
<1>2. q \o <<>> = q
  BY <1>1, ConcatEmptySeq
<1>3. Append(q, x) = q \o <<x>>
  BY <1>1
<1> USE DEF q
<1> QED
  BY <1>2, <1>3 DEF Join

\* A whole begins with its left part.
LEMMA JoinBegins ==
    ASSUME NEW d \in Seq(Item), NEW c \in Seq(Item), NEW p \in Seq(Item)
    PROVE  Begins(d, Join(d, c, p))
<1>1. c \o p \in Seq(Item)
  BY ConcatProperties
<1>2. (d \o c) \o p = d \o (c \o p)
  BY ConcatAssociative
<1> QED
  BY <1>1, <1>2 DEF Begins, Join

\* Its beginning stays when something is appended.
LEMMA AppendBegins ==
    ASSUME NEW d \in Seq(Item), NEW q, Begins(d, q), NEW x \in Item
    PROVE  Begins(d, Append(q, x))
<1>0. PICK r \in Seq(Item) : q = d \o r
  BY DEF Begins
<1>1. d \o r \in Seq(Item) /\ <<x>> \in Seq(Item)
  BY ConcatProperties
<1>2. Append(d \o r, x) = (d \o r) \o <<x>> /\ Append(r, x) = r \o <<x>>
  BY <1>1, SMTT(30)
<1>3. (d \o r) \o <<x>> = d \o (r \o <<x>>)
  BY <1>1, ConcatAssociative
<1>4. Append(r, x) \in Seq(Item)
  OBVIOUS
<1> QED
  BY <1>0, <1>2, <1>3, <1>4 DEF Begins

\* The left part of a concatenation is a prefix of it.
LEMMA LeftIsPrefix ==
    ASSUME NEW S, NEW d \in Seq(S), NEW r \in Seq(S)
    PROVE  IsPrefix(d, d \o r)
<1>1. /\ Len(d \o r) = Len(d) + Len(r) /\ Len(d) \in Nat /\ Len(r) \in Nat
      /\ \A i \in 1..Len(d) : (d \o r)[i] = d[i]
      /\ \A i \in 1..Len(d) : d[i] \in S
  BY ConcatProperties, LenProperties, ElementOfSeq
<1>2. /\ SubSeq(d, 1, Len(d)) \in Seq(S)
      /\ SubSeq(d \o r, 1, Len(d)) \in Seq(S)
      /\ Len(SubSeq(d, 1, Len(d))) = Len(SubSeq(d \o r, 1, Len(d)))
      /\ Len(SubSeq(d, 1, Len(d))) = Len(d)
  BY <1>1, SubSeqProperties
<1>3. \A i \in 1..Len(d) : SubSeq(d, 1, Len(d))[i] = SubSeq(d \o r, 1, Len(d))[i]
  BY <1>1, SubSeqProperties
<1>4. SubSeq(d, 1, Len(d)) = SubSeq(d \o r, 1, Len(d))
  BY <1>2, <1>3, SeqEqual
<1> QED
  BY <1>1, <1>4 DEF IsPrefix

\* Every step of a listener is one of the four, and of no other's items.
LEMMA ListenerMoves ==
    ASSUME TypeOK, Tasks, Owners, NEW e \in Epochs, ListenerRuns(e) \/ ServerActs(e)
    PROVE  /\ \/ Idles(e)
              \/ (chan'[e] = chan[e] /\ pending[e] = <<>> /\ Takes(e))
              \/ Puts(e)
              \/ Loses(e)
           /\ \A f \in Epochs \ {e} : Idles(f)
           /\ UNCHANGED <<delivered, closed>>
<1> USE DEF ownerVars, loopVars, pipeVars
<1>shapes. /\ pending \in [Epochs -> Seq(Item)] /\ chan \in [Epochs -> Seq(Item)]
           /\ forwarded \in [Epochs -> Seq(Item)]
  BY DEF TypeOK, PipeTypes
<1>1. CASE Attach(e) \/ GetSucceeds(e) \/ StoreSession(e) \/ BackoffElapses(e)
           \/ EndCleanly(e) \/ ServePanic(e)
  BY <1>1 DEF Attach, GetSucceeds, StoreSession, BackoffElapses, EndCleanly, ServePanic,
              Idles
<1>2. CASE ServeEvent(e) \/ ServeTooLarge(e) \/ EndWithEvent(e)
  <2>1. PICK item \in Item :
           /\ pending' = [pending EXCEPT ![e] = <<item>>]
           /\ forwarded' = [forwarded EXCEPT ![e] = Append(forwarded[e], item)]
    BY <1>2, ServedFacts DEF ServeEvent, ServeTooLarge, EndWithEvent
  <2>2. pending[e] = <<>> /\ UNCHANGED <<chan, delivered, closed>>
    BY <1>2 DEF ServeEvent, ServeTooLarge, EndWithEvent, Served, Tasks, Task
  <2> QED
    BY <1>shapes, <2>1, <2>2 DEF Takes, Idles
<1>3. CASE GetFails(e) \/ ReadFails(e)
  <2>1. StreamFails(e) /\ task[e] \in {"get", "stream", "reject"}
    BY <1>3 DEF GetFails, ReadFails
  <2>2. pending[e] = <<>> /\ UNCHANGED <<chan, delivered, closed>>
    BY <1>3 DEF GetFails, ReadFails, Tasks, Task
  <2> QED
    BY <1>shapes, <2>1, <2>2, StreamFailsFacts DEF Takes, Idles
<1>4. CASE Reject(e)
  <2>1. StreamFails(e) /\ task[e] \in {"get", "stream", "reject"}
        /\ (Put(e) \/ Lost(e)) /\ Len(pending[e]) = 1 /\ UNCHANGED <<delivered, closed>>
    BY <1>4 DEF Reject, Tasks, Task
  <2>2. /\ Takes(e) \/ (pending'[e] = <<>> /\ forwarded'[e] = forwarded[e])
        /\ \A f \in Epochs \ {e} : pending'[f] = pending[f] /\ forwarded'[f] = forwarded[f]
    BY <1>shapes, <2>1, StreamFailsFacts DEF Takes
  <2>3. \/ /\ Open(e) /\ Len(chan[e]) < RecvBuffer
           /\ chan' = [chan EXCEPT ![e] = Append(chan[e], pending[e][1])]
        \/ ~Open(e) /\ chan' = chan
    BY <1>shapes, <2>1, HttpTransportAssumption
       DEF Put, Lost, Full, Set, HttpTransportAssumption
  <2> QED
    BY <1>shapes, <2>1, <2>2, <2>3 DEF Puts, Loses, Idles
<1>5. CASE Forward(e) \/ Flush(e) \/ GiveUp(e)
  <2>1. (Put(e) \/ Lost(e)) /\ Len(pending[e]) = 1 /\ UNCHANGED <<forwarded, delivered, closed>>
        /\ pending' = [pending EXCEPT ![e] = <<>>]
    BY <1>5 DEF Forward, Flush, GiveUp, LastWords, Set, Tasks, Task
  <2>3. \/ /\ Open(e) /\ Len(chan[e]) < RecvBuffer
           /\ chan' = [chan EXCEPT ![e] = Append(chan[e], pending[e][1])]
        \/ ~Open(e) /\ chan' = chan
    BY <1>shapes, <2>1, HttpTransportAssumption
       DEF Put, Lost, Full, Set, HttpTransportAssumption
  <2> QED
    BY <1>shapes, <2>1, <2>3 DEF Puts, Loses, Idles
<1>6. CASE Die(e)
  BY <1>6, <1>shapes DEF Die, Set, Owners, Loses, Idles
<1> QED
  BY <1>1, <1>2, <1>3, <1>4, <1>5, <1>6 DEF ListenerRuns, ServerActs

\* Every item stays in one place.
LEMMA QueuesAreKept ==
    ASSUME TypeOK, Tasks, Owners, Queues, [Next]_vars
    PROVE  Queues'
<1> USE HttpTransportAssumption DEF HttpTransportAssumption
<1>shapes. /\ pending \in [Epochs -> Seq(Item)] /\ chan \in [Epochs -> Seq(Item)]
           /\ forwarded \in [Epochs -> Seq(Item)] /\ delivered \in [Epochs -> Seq(Item)]
           /\ closed \in [Epochs -> BOOLEAN] /\ epoch \in Nat
  BY DEF TypeOK, OwnerTypes, PipeTypes
<1>1. CASE Connect
  <2>1. /\ ~rx /\ epoch' = epoch + 1 /\ rx'
        /\ UNCHANGED <<pending, chan, forwarded, delivered, closed>>
        /\ epoch + 1 \in Epochs
    BY <1>1, <1>shapes DEF Connect, pipeVars, Owners, Epochs
  <2>2. ASSUME NEW e \in Epochs
        PROVE  Queue(e)'
    <3>1. CASE e = epoch + 1
      <4>1. forwarded[e] = <<>> /\ delivered[e] = <<>> /\ chan[e] = <<>> /\ pending[e] = <<>>
        BY <1>shapes, <2>1, <3>1 DEF Queues, Queue, Open, Tasks, Task
      <4>2. Join(<<>>, <<>>, <<>>) = <<>>
        BY ConcatEmptySeq, EmptySeq DEF Join
      <4> QED
        BY <1>shapes, <2>1, <3>1, <4>1, <4>2 DEF Queues, Queue, Open
    <3>2. CASE e # epoch + 1
      <4>1. e > epoch' => e > epoch
        BY <1>shapes, <2>1 DEF Epochs
      <4> QED
        BY <2>1, <3>2, <4>1 DEF Queues, Queue, Open
    <3> QED
      BY <3>1, <3>2
  <2> QED
    BY <2>2 DEF Queues
<1>2. CASE DisconnectBegin
  <2>1. /\ ~rx' /\ epoch' = epoch /\ chan' = [chan EXCEPT ![epoch] = <<>>]
        /\ UNCHANGED <<forwarded, delivered, closed>>
    BY <1>2 DEF DisconnectBegin, Set
  <2>2. ASSUME NEW e \in Epochs
        PROVE  Queue(e)'
    <3>1. Len(chan'[e]) <= RecvBuffer /\ chan'[e] = <<>>
      BY <1>shapes, <2>1, EmptySeq DEF Queues, Queue, Open
    <3> QED
      BY <2>1, <3>1 DEF Queues, Queue, Open
  <2> QED
    BY <2>2 DEF Queues
<1>3. CASE Recv
  <2>1. /\ Open(epoch) /\ chan[epoch] # <<>> /\ epoch' = epoch /\ rx' = rx
        /\ delivered' = [delivered EXCEPT ![epoch] = Append(delivered[epoch], Head(chan[epoch]))]
        /\ chan' = [chan EXCEPT ![epoch] = Tail(chan[epoch])]
        /\ UNCHANGED <<pending, forwarded, closed>>
    BY <1>3 DEF Recv, Set, Open, ownerVars
  <2>2. ASSUME NEW e \in Epochs
        PROVE  Queue(e)'
    <3>1. CASE e = epoch
      <4> DEFINE got == delivered[e]
                 held == chan[e]
                 next == pending[e]
      <4>1. got \in Seq(Item) /\ held \in Seq(Item) /\ next \in Seq(Item) /\ held # <<>>
        BY <1>shapes, <2>1, <3>1
      <4>2. /\ delivered'[e] = Append(got, Head(held)) /\ chan'[e] = Tail(held)
            /\ pending'[e] = next /\ forwarded'[e] = Join(got, held, next)
            /\ Len(held) <= RecvBuffer /\ ~(e > epoch')
        BY <1>shapes, <2>1, <3>1 DEF Queues, Queue
      <4> HIDE DEF got, held, next
      <4>3. Head(held) \in Item /\ Tail(held) \in Seq(Item) /\ Len(Tail(held)) <= RecvBuffer
        <5>1. Len(Tail(held)) = Len(held) - 1 /\ Len(held) \in Nat
              /\ Head(held) \in Item /\ Tail(held) \in Seq(Item)
          BY <4>1, HeadTailProperties, LenProperties
        <5> QED
          BY <4>2, <5>1
      <4>4. Append(got, Head(held)) \in Seq(Item)
        BY <4>1, <4>3
      <4>5. Join(Append(got, Head(held)), Tail(held), next) = Join(got, held, next)
        BY <4>1, ReceiveKeepsOrder
      <4>6. Begins(Append(got, Head(held)), Join(Append(got, Head(held)), Tail(held), next))
        BY <4>1, <4>3, <4>4, JoinBegins
      <4> QED
        BY <2>1, <3>1, <4>2, <4>3, <4>5, <4>6 DEF Queue, Open
    <3>2. CASE e # epoch
      BY <1>shapes, <2>1, <3>2 DEF Queues, Queue, Open
    <3> QED
      BY <3>1, <3>2
  <2> QED
    BY <2>2 DEF Queues
<1>4. CASE RecvClosed \/ RecvWithoutReceiver
  <2>1. /\ epoch' = epoch /\ rx' = rx /\ closed' = [closed EXCEPT ![epoch] = TRUE]
        /\ UNCHANGED <<pending, chan, forwarded, delivered>>
    BY <1>4 DEF RecvClosed, RecvWithoutReceiver, Set, ownerVars
  <2> QED
    BY <1>shapes, <2>1 DEF Queues, Queue, Open
<1>5. CASE DisconnectClear
  BY <1>5 DEF DisconnectClear, Queues, Queue, Open, loopVars, pipeVars
<1>6. CASE Quiet /\ ~Recv /\ ~RecvClosed /\ ~RecvWithoutReceiver
  <2>1. UNCHANGED <<rx, epoch, pending, chan, forwarded, delivered, closed>>
    BY <1>6 DEF Quiet, DisconnectDelete, DisconnectNoSession, DisconnectDeleted,
       DisconnectDropped, DisconnectStep, SendPosts, SendReturns, ownerVars, pipeVars, vars
  <2> QED
    BY <2>1 DEF Queues, Queue, Open
<1>7. ASSUME NEW e \in Epochs, ListenerRuns(e) \/ ServerActs(e)
      PROVE  Queues'
  <2>1. UNCHANGED <<rx, epoch, delivered, closed>> /\ task[e] \notin Ended
    BY <1>7, ListenerSteps, ListenerMoves
  <2>2. ASSUME NEW f \in Epochs, Idles(f)
        PROVE  Queue(f)'
    BY <2>1, <2>2 DEF Queues, Queue, Open, Idles
  <2> DEFINE got == delivered[e]
             held == chan[e]
             next == pending[e]
             all == forwarded[e]
  <2>typed. got \in Seq(Item) /\ held \in Seq(Item) /\ next \in Seq(Item) /\ all \in Seq(Item)
    BY <1>shapes
  <2>3. /\ Open(e) => all = Join(got, held, next)
        /\ Begins(got, all)
        /\ Len(held) <= RecvBuffer /\ ~(e > epoch) /\ (~Open(e) => held = <<>>)
    BY <2>1 DEF Queues, Queue, Tasks, Task, Ended
  <2>same. delivered'[e] = got /\ Open(e)' = Open(e) /\ epoch' = epoch
    BY <2>1 DEF Open
  <2>4. Takes(e) => \E x \in Item : pending'[e] = <<x>> /\ forwarded'[e] = Append(all, x)
    BY DEF Takes
  <2>5. forwarded'[e] = all \/ Takes(e) => Begins(delivered'[e], forwarded'[e])
    <3> HIDE DEF got, held, next, all
    <3>1. \A x \in Item : Begins(got, Append(all, x))
      BY <2>typed, <2>3, AppendBegins
    <3> QED
      BY <2>same, <2>3, <2>4, <3>1
  <2>6. ASSUME chan'[e] = chan[e], pending[e] = <<>>, Takes(e)
        PROVE  Queue(e)'
    <3>1. chan'[e] = held /\ next = <<>>
      BY <2>6
    <3> HIDE DEF got, held, next, all
    <3>2. \A x \in Item : Append(Join(got, held, <<>>), x) = Join(got, held, <<x>>)
      BY <2>typed, TakeKeepsOrder
    <3>3. Open(e) => forwarded'[e] = Join(got, held, pending'[e])
      BY <2>3, <2>4, <2>6, <3>1, <3>2
    <3> QED
      BY <2>3, <2>same, <2>5, <2>6, <3>1, <3>3 DEF Queue
  <2>7. ASSUME Puts(e)
        PROVE  Queue(e)'
    <3>1. /\ Open(e) /\ Len(held) < RecvBuffer /\ Len(next) = 1
          /\ chan'[e] = Append(held, next[1])
          /\ Takes(e) \/ (pending'[e] = <<>> /\ forwarded'[e] = all)
      BY <2>7 DEF Puts
    <3> HIDE DEF got, held, next, all
    <3>2. /\ Join(got, Append(held, next[1]), <<>>) = Join(got, held, next)
          /\ Append(held, next[1]) \in Seq(Item)
          /\ Len(Append(held, next[1])) = Len(held) + 1
      BY <2>typed, <3>1, PutKeepsOrder
    <3> DEFINE put == Append(held, next[1])
    <3>3. put \in Seq(Item) /\ Join(got, put, <<>>) = Join(got, held, next) /\ chan'[e] = put
      BY <3>1, <3>2
    <3>4. Len(put) <= RecvBuffer
      <4>1. Len(held) \in Nat
        BY <2>typed
      <4> QED
        BY <3>1, <3>2, <4>1
    <3> HIDE DEF put
    <3>5. \A x \in Item : Append(Join(got, put, <<>>), x) = Join(got, put, <<x>>)
      BY <2>typed, <3>3, TakeKeepsOrder
    <3>6. all = Join(got, put, <<>>)
      BY <2>3, <3>1, <3>3
    <3>7. forwarded'[e] = Join(got, put, pending'[e])
      BY <2>4, <3>1, <3>5, <3>6
    <3> QED
      BY <2>3, <2>same, <2>5, <3>1, <3>3, <3>4, <3>7 DEF Queue
  <2>8. ASSUME Loses(e)
        PROVE  Queue(e)'
    <3>1. ~Open(e) /\ chan'[e] = held /\ (Takes(e) \/ forwarded'[e] = all)
      BY <2>8 DEF Loses
    <3> HIDE DEF got, held, next, all
    <3> QED
      BY <2>3, <2>same, <2>5, <3>1 DEF Queue
  <2>10. Queue(e)'
    BY <1>7, <2>2, <2>6, <2>7, <2>8, ListenerMoves
  <2> QED
    BY <1>7, <2>2, <2>10, ListenerMoves DEF Queues
<1> QED
  BY <1>1, <1>2, <1>3, <1>4, <1>5, <1>6, <1>7 DEF Next, Owner, Disconnecting, Quiet

-----------------------------------------------------------------------------
\* The inductive invariant.
IInv == TypeOK /\ Tasks /\ Owners /\ Queues

LEMMA InitHolds == Init => IInv
<1> SUFFICES ASSUME Init PROVE IInv
  OBVIOUS
<1> USE HttpTransportAssumption DEF HttpTransportAssumption
<1>1. <<>> \in Seq(Item) /\ <<>> \in Seq(BOOLEAN) /\ {} \in SidOptions
  BY DEF SidOptions
<1>2. TypeOK
  <2>1. OwnerTypes
    <3>1. epoch \in 0..MaxConnects
      BY DEF Init
    <3>2. sends \in [Sends -> {"idle", "posted"}] /\ session_id \in SidOptions
      BY <1>1 DEF Init
    <3> QED
      BY <3>1, <3>2 DEF Init, OwnerTypes
  <2>2. ListenerTypes
    BY <1>1 DEF Init, ListenerTypes, TaskStates
  <2>3. PipeTypes
    BY <1>1 DEF Init, PipeTypes
  <2> QED
    BY <2>1, <2>2, <2>3 DEF TypeOK
<1>3. Tasks
  BY DEF Init, Tasks, Task
<1>4. Owners
  BY DEF Init, Owners, Ended
<1>5. Queues
  <2>1. <<>> \o <<>> = <<>> /\ <<>> \in Seq(Item) /\ Len(<<>>) = 0
    BY ConcatEmptySeq, EmptySeq
  <2>2. Begins(<<>>, <<>>)
    BY <2>1 DEF Begins
  <2> QED
    BY <2>1, <2>2 DEF Init, Queues, Queue, Open
<1> QED
  BY <1>2, <1>3, <1>4, <1>5 DEF IInv

LEMMA StepHolds == IInv /\ [Next]_vars => IInv'
  BY TypesAreKept, OwnersAreKept, QueuesAreKept DEF IInv

LEMMA InvariantHolds == Spec => []IInv
<1> QED
  BY InitHolds, StepHolds, PTL DEF Spec

\* However many connections are made, every variable keeps its type, and a
\* listener its retries' bound (http.rs:309-327).
THEOREM TypesHold == Spec => []TypeOK
<1>1. IInv => TypeOK
  BY DEF IInv
<1> QED
  BY <1>1, InvariantHolds, PTL

\* However many connections, events and retries there are, recv returns the
\* items of the streams in order, and the channel keeps to its capacity
\* (transport/mod.rs:30-31, http.rs:424-428, 570).
THEOREM ItemsAreReceivedInOrder == Spec => []ChannelIsFIFO
<1>1. IInv => ChannelIsFIFO
  <2> SUFFICES ASSUME IInv, NEW e \in Epochs
               PROVE  /\ IF Open(e)
                         THEN forwarded[e] = delivered[e] \o chan[e] \o pending[e]
                         ELSE IsPrefix(delivered[e], forwarded[e])
                      /\ Len(chan[e]) <= RecvBuffer
                      /\ Len(pending[e]) <= 1
    BY DEF ChannelIsFIFO
  <2>1. delivered[e] \in Seq(Item)
    BY DEF IInv, TypeOK, PipeTypes
  <2>2. Begins(delivered[e], forwarded[e])
    BY DEF IInv, Queues, Queue
  <2>3. IsPrefix(delivered[e], forwarded[e])
    BY <2>1, <2>2, LeftIsPrefix DEF Begins
  <2>4. Len(pending[e]) <= 1
    <3>1. Task(e)
      BY DEF IInv, Tasks
    <3>2. CASE task[e] \in {"forward", "reject", "flush", "giving_up"}
      <4>1. Len(pending[e]) = 1
        BY <3>1, <3>2 DEF Task
      <4> QED
        BY <4>1
    <3>3. CASE task[e] \notin {"forward", "reject", "flush", "giving_up"}
      <4>1. pending[e] = <<>>
        BY <3>1, <3>3 DEF Task
      <4>2. Len(pending[e]) = 0
        BY <4>1
      <4> QED
        BY <4>2
    <3> QED
      BY <3>2, <3>3
  <2> QED
    BY <2>3, <2>4 DEF IInv, Queues, Queue, Join
<1> QED
  BY <1>1, InvariantHolds, PTL

\* However often the owner reconnects, no listener of an earlier connection
\* goes on unless it was told to stop, and nothing it puts is kept
\* (http.rs:424-426, 570-573, 586-597).
THEOREM OldListenersWereStopped == Spec => []OnlyTheCurrentListenerFeeds
<1>1. IInv => OnlyTheCurrentListenerFeeds
  BY DEF IInv, Owners, Queues, Queue, Open, OnlyTheCurrentListenerFeeds
<1> QED
  BY <1>1, InvariantHolds, PTL

\* A step of a listener that was told to stop brings it nearer to its end:
\* nothing it waits to put can be put, so it does not go back to its stream.
LEMMA StepsWindDown ==
    ASSUME IInv, NEW e \in Epochs, aborted[e], ListenerRuns(e) \/ ServerActs(e)
    PROVE  Distance(task'[e]) < Distance(task[e])
<1>1. /\ Distance("get") = 4 /\ Distance("store") = 3 /\ Distance("stream") = 2
      /\ \A state \in {"forward", "reject", "flush"} : Distance(state) = 1
      /\ \A state \in {"giving_up", "backoff", "attach"} : Distance(state) = 0
      /\ Distance("done") = -1
  BY DEF Distance
<1>2. task \in [Epochs -> TaskStates] /\ task[e] \in TaskStates /\ ~Open(e)
  BY DEF IInv, TypeOK, ListenerTypes, Owners
<1>3. ASSUME NEW where \in TaskStates, task' = [task EXCEPT ![e] = where]
      PROVE  task'[e] = where
  BY <1>2, <1>3
<1> HIDE DEF Distance
<1>4. CASE Attach(e) \/ BackoffElapses(e)
  BY <1>4 DEF Attach, BackoffElapses
<1>5. CASE GetSucceeds(e) \/ StoreSession(e)
  <2>1. /\ task[e] \in {"get", "store"}
        /\ task[e] = "get" => task'[e] \in {"store", "stream"}
        /\ task[e] = "store" => task'[e] = "stream"
    BY <1>2, <1>5 DEF GetSucceeds, StoreSession, Set
  <2> QED
    BY <1>1, <2>1
<1>6. CASE GetFails(e) \/ ReadFails(e) \/ Reject(e)
  <2>1. StreamFails(e) /\ task[e] \in {"get", "stream", "reject"}
    BY <1>6 DEF GetFails, ReadFails, Reject
  <2>2. task'[e] \in {"giving_up", "backoff"}
    BY <1>2, <2>1 DEF StreamFails, Set
  <2> QED
    BY <1>1, <2>1, <2>2
<1>7. CASE \/ ServeEvent(e) \/ ServeTooLarge(e) \/ ServePanic(e)
           \/ EndWithEvent(e) \/ EndCleanly(e)
  <2>1. task[e] = "stream" /\ task'[e] \in {"forward", "reject", "flush", "done"}
    BY <1>2, <1>7 DEF ServeEvent, ServeTooLarge, ServePanic, EndWithEvent, EndCleanly, Set
  <2> QED
    BY <1>1, <2>1
<1>8. CASE Forward(e) \/ Flush(e) \/ GiveUp(e)
  <2>1. ~Put(e)
    BY <1>2 DEF Put
  <2>2. task[e] \in {"forward", "flush", "giving_up"} /\ task'[e] = "done"
    BY <1>2, <1>8, <2>1 DEF Forward, Flush, GiveUp, LastWords, Set
  <2> QED
    BY <1>1, <2>2
<1>9. CASE Die(e)
  <2>1. task[e] \notin Ended /\ task'[e] = "done"
    BY <1>2, <1>9 DEF Die, Set
  <2> QED
    BY <1>1, <1>2, <2>1 DEF Ended, TaskStates
<1> QED
  BY <1>4, <1>5, <1>6, <1>7, <1>8, <1>9 DEF ListenerRuns, ServerActs

\* However many connections, retries and events there are, a listener that was
\* told to stop takes a bounded number of steps more, and opens no stream
\* (http.rs:591-593).
THEOREM AbortedListenersStop == Spec => AbortedListenersWindDown
<1> DEFINE Nearer == \A e \in Epochs : aborted[e] /\ task'[e] # task[e] =>
                         Distance(task'[e]) < Distance(task[e])
<1>1. IInv /\ [Next]_vars => [Nearer]_vars
  <2> SUFFICES ASSUME IInv, Next, NEW e \in Epochs, aborted[e], task'[e] # task[e]
               PROVE  Distance(task'[e]) < Distance(task[e])
    OBVIOUS
  <2>1. task \in [Epochs -> TaskStates]
    BY DEF IInv, TypeOK, ListenerTypes
  <2>2. CASE Connect
    <3>1. task' = [task EXCEPT ![epoch + 1] = "attach"]
      BY <2>2 DEF Connect, Set
    <3>2. e <= epoch /\ e \in Int /\ epoch \in Int
      BY DEF IInv, Owners, Epochs, TypeOK, OwnerTypes
    <3> QED
      BY <2>1, <3>1, <3>2
  <2>3. CASE DisconnectBegin \/ DisconnectClear \/ Quiet
    <3>1. task' = task
      BY <2>3, QuietSteps DEF DisconnectBegin, DisconnectClear
    <3> QED
      BY <3>1
  <2>4. ASSUME NEW f \in Epochs, ListenerRuns(f) \/ ServerActs(f)
        PROVE  Distance(task'[e]) < Distance(task[e])
    <3>1. CASE f = e
      BY <2>4, <3>1, StepsWindDown
    <3>2. CASE f # e
      BY <2>1, <2>4, <3>2, ListenerSteps DEF IInv
    <3> QED
      BY <3>1, <3>2
  <2> QED
    BY <2>2, <2>3, <2>4 DEF Next, Owner, Disconnecting, Quiet
<1> QED
  BY <1>1, InvariantHolds, PTL DEF Spec, AbortedListenersWindDown

\* A session id is given up only by a disconnect that completes, whatever
\* sends, listeners and dropped disconnects run beside it (http.rs:613-614).
THEOREM SessionIsKept == Spec => SessionSurvivesUntilDisconnect
<1> DEFINE Kept == session_id # {} /\ session_id' = {} =>
                      op = "clearing" /\ connected /\ ~connected'
<1>1. IInv /\ [Next]_vars => [Kept]_vars
  <2> SUFFICES ASSUME IInv, Next, session_id # {}, session_id' = {}
               PROVE  op = "clearing" /\ connected /\ ~connected'
    BY DEF vars
  <2>1. CASE DisconnectClear
    BY <2>1 DEF DisconnectClear, IInv, Owners
  <2>2. ASSUME NEW s \in Sends, SendReturns(s)
        PROVE  FALSE
    BY <2>2 DEF SendReturns
  <2>3. ASSUME NEW e \in Epochs, StoreSession(e)
        PROVE  FALSE
    BY <2>3 DEF StoreSession, IInv, Tasks, Task
  <2>4. ASSUME NEW e \in Epochs, ListenerRuns(e) \/ ServerActs(e), ~StoreSession(e)
        PROVE  FALSE
    BY <2>4 DEF ListenerRuns, ServerActs, Attach, GetFails, GetSucceeds, Forward, Reject,
       Flush, GiveUp, LastWords, BackoffElapses, Die, ServeEvent, ServeTooLarge,
       ServePanic, EndWithEvent, EndCleanly, ReadFails, Served, ownerVars
  <2>5. ASSUME NEW s \in Sends, SendPosts(s)
        PROVE  FALSE
    BY <2>5 DEF SendPosts
  <2>6. CASE Connect \/ DisconnectBegin \/ DisconnectDelete \/ DisconnectNoSession
             \/ DisconnectDeleted \/ DisconnectDropped \/ Recv \/ RecvClosed
             \/ RecvWithoutReceiver
    BY <2>6 DEF Connect, DisconnectBegin, DisconnectDelete, DisconnectNoSession,
       DisconnectDeleted, DisconnectDropped, DisconnectStep, Recv, RecvClosed,
       RecvWithoutReceiver, ownerVars
  <2> QED
    BY <2>1, <2>2, <2>3, <2>4, <2>5, <2>6 DEF Next, Owner, Disconnecting
<1> QED
  BY <1>1, InvariantHolds, PTL DEF Spec, SessionSurvivesUntilDisconnect

-----------------------------------------------------------------------------
\* A step of the transport is a step of the contract for every connection, or
\* none of it, unless it is recv after a dropped disconnect.
LEMMA StepImplements ==
    ASSUME IInv, [Next]_vars, ~RecvWithoutReceiver, NEW e \in Epochs
    PROVE  [Contract(e)!ContractNext]_(Contract(e)!contractVars)
<1> USE DEF Contract!contractVars
<1> SUFFICES UNCHANGED Contract(e)!contractVars \/ Contract(e)!ContractNext
  OBVIOUS
<1>shapes. /\ chan \in [Epochs -> Seq(Item)] /\ delivered \in [Epochs -> Seq(Item)]
           /\ task \in [Epochs -> TaskStates] /\ closed \in [Epochs -> BOOLEAN]
           /\ epoch \in Nat /\ e \in Nat /\ rx \in BOOLEAN
  BY DEF IInv, TypeOK, OwnerTypes, ListenerTypes, PipeTypes, Epochs
<1>1. CASE Connect
  <2>1. /\ ~rx /\ rx' /\ epoch' = epoch + 1
        /\ task' = [task EXCEPT ![epoch + 1] = "attach"]
        /\ UNCHANGED <<chan, delivered, closed>>
    BY <1>1 DEF Connect, Set, pipeVars, IInv, Owners
  <2>2. CASE e = epoch + 1
    <3>1. task[e] # "done"
      BY <1>shapes, <2>2 DEF IInv, Tasks, Task
    <3>2. Life(e) = "new" /\ Life(e)' = "live"
      BY <1>shapes, <2>1, <2>2 DEF Life, Open
    <3>3. task'[e] = "attach"
      BY <1>shapes, <2>1, <2>2
    <3> QED
      BY <2>1, <3>1, <3>2, <3>3 DEF Contract!ContractNext, Contract!Connects
  <2>3. CASE e # epoch + 1
    <3>1. Life(e)' = Life(e)
      BY <1>shapes, <2>1, <2>3 DEF Life, Open
    <3>2. task'[e] = task[e]
      BY <1>shapes, <2>1, <2>3
    <3> QED
      BY <2>1, <3>1, <3>2
  <2> QED
    BY <2>2, <2>3
<1>2. CASE DisconnectBegin
  <2>1. /\ ~rx' /\ epoch' = epoch /\ chan' = [chan EXCEPT ![epoch] = <<>>]
        /\ UNCHANGED <<delivered, task, closed>>
    BY <1>2 DEF DisconnectBegin, Set
  <2>2. CASE Open(e)
    <3>1. Life(e) = "live" /\ Life(e)' = "dead" /\ chan'[e] = <<>>
      BY <1>shapes, <2>1, <2>2 DEF Life, Open
    <3> QED
      BY <2>1, <3>1 DEF Contract!ContractNext, Contract!Disconnects
  <2>3. CASE ~Open(e)
    <3>1. chan[e] = <<>>
      BY <2>3 DEF IInv, Queues, Queue
    <3>2. Life(e)' = Life(e) /\ chan'[e] = chan[e]
      BY <1>shapes, <2>1, <2>3, <3>1 DEF Life, Open
    <3> QED
      BY <2>1, <3>2
  <2> QED
    BY <2>2, <2>3
<1>3. CASE Recv
  <2>1. /\ rx /\ chan[epoch] # <<>> /\ epoch' = epoch /\ rx' = rx
        /\ delivered' = [delivered EXCEPT ![epoch] = Append(delivered[epoch], Head(chan[epoch]))]
        /\ chan' = [chan EXCEPT ![epoch] = Tail(chan[epoch])]
        /\ UNCHANGED <<task, closed>>
    BY <1>3 DEF Recv, Set, ownerVars
  <2>2. Life(e)' = Life(e)
    BY <2>1 DEF Life, Open
  <2>3. CASE e = epoch
    <3>1. Life(e) = "live"
      BY <1>shapes, <2>1, <2>3 DEF Life, Open
    <3>2. /\ chan[e] # <<>> /\ chan'[e] = Tail(chan[e])
          /\ delivered'[e] = Append(delivered[e], Head(chan[e]))
      BY <1>shapes, <2>1, <2>3
    <3> QED
      BY <2>1, <2>2, <3>1, <3>2 DEF Contract!ContractNext, Contract!Receives
  <2>4. CASE e # epoch
    BY <1>shapes, <2>1, <2>2, <2>4
  <2> QED
    BY <2>3, <2>4
<1>4. CASE RecvClosed
  <2>1. /\ rx /\ chan[epoch] = <<>> /\ task[epoch] = "done" /\ epoch' = epoch /\ rx' = rx
        /\ closed' = [closed EXCEPT ![epoch] = TRUE]
        /\ UNCHANGED <<task, chan, delivered>>
    BY <1>4 DEF RecvClosed, Set, ownerVars
  <2>2. Life(e)' = Life(e)
    BY <2>1 DEF Life, Open
  <2>3. CASE e = epoch
    <3>1. Life(e) = "live"
      BY <1>shapes, <2>1, <2>3 DEF Life, Open
    <3> QED
      BY <1>shapes, <2>1, <2>2, <2>3, <3>1 DEF Contract!ContractNext, Contract!IsToldOfTheEnd
  <2>4. CASE e # epoch
    BY <1>shapes, <2>1, <2>2, <2>4
  <2> QED
    BY <2>3, <2>4
<1>5. CASE DisconnectClear
  BY <1>5 DEF DisconnectClear, Life, Open, loopVars, pipeVars
<1>6. CASE Quiet /\ ~Recv /\ ~RecvClosed /\ ~RecvWithoutReceiver
  BY <1>6 DEF Quiet, DisconnectDelete, DisconnectNoSession, DisconnectDeleted,
     DisconnectDropped, DisconnectStep, SendPosts, SendReturns, Life, Open,
     ownerVars, pipeVars, vars
<1>7. ASSUME NEW f \in Epochs, ListenerRuns(f) \/ ServerActs(f)
      PROVE  UNCHANGED Contract(e)!contractVars \/ Contract(e)!ContractNext
  <2>1. PICK where \in TaskStates : task' = [task EXCEPT ![f] = where]
    BY <1>7, ListenerSteps DEF IInv
  <2>2. /\ task[f] \notin Ended
        /\ UNCHANGED <<rx, epoch, delivered, closed>>
    BY <1>7, ListenerSteps, ListenerMoves DEF IInv
  <2>3. Life(e)' = Life(e)
    BY <2>2 DEF Life, Open
  <2>4. CASE e # f
    <3>1. chan'[e] = chan[e]
      BY <1>7, <2>4, ListenerMoves DEF IInv, Idles
    <3> QED
      BY <1>shapes, <2>1, <2>2, <2>3, <2>4, <3>1
  <2>5. CASE e = f /\ Puts(e)
    <3>1. pending[e] \in Seq(Item) /\ Len(pending[e]) = 1 /\ Open(e)
      BY <2>5 DEF IInv, TypeOK, PipeTypes, Puts
    <3>2. pending[e][1] \in Item
      BY <3>1
    <3>3. Life(e) # "dead" /\ task[e] # "done" /\ chan'[e] = Append(chan[e], pending[e][1])
      BY <2>2, <2>5, <3>1, <1>shapes DEF Life, Open, Ended, Puts
    <3>4. Contract(e)!PeerSends(pending[e][1])
      BY <2>2, <2>3, <3>3 DEF Contract!PeerSends
    <3> QED
      BY <3>2, <3>4 DEF Contract!ContractNext
  <2>6. CASE e = f /\ ~Puts(e)
    <3>1. chan'[e] = chan[e]
      BY <1>7, <2>6, ListenerMoves DEF IInv, Idles, Loses
    <3>2. task[e] # "done"
      BY <2>2, <2>6 DEF Ended
    <3>3. CASE task'[e] = "done"
      BY <2>2, <2>3, <3>1, <3>2, <3>3 DEF Contract!ContractNext, Contract!PeerCloses
    <3>4. CASE task'[e] # "done"
      BY <2>2, <2>3, <3>1, <3>2, <3>4
    <3> QED
      BY <3>3, <3>4
  <2> QED
    BY <2>4, <2>5, <2>6
<1> QED
  BY <1>1, <1>2, <1>3, <1>4, <1>5, <1>6, <1>7 DEF Next, Owner, Disconnecting, Quiet

\* Every connection keeps the contract of MessageTransport, whatever came
\* before it and runs beside it: nothing lost, doubled or reordered between
\* the channel and recv, and the end only once all was received.  The one step
\* that breaks it is RecvWithoutReceiver, which answers ConnectionClosed after
\* a disconnect that was dropped (transport/mod.rs:85-92, http.rs:419-431,
\* 667-680).
THEOREM TransportKeepsItsContract == Spec => ImplementsContract
<1> DEFINE AllKeep == \/ RecvWithoutReceiver
                      \/ \A e \in Epochs :
                            [Contract(e)!ContractNext]_(Contract(e)!contractVars)
           AllNew == \A e \in Epochs : Contract(e)!ContractInit
<1>1. Init => AllNew
  BY HttpTransportAssumption
     DEF HttpTransportAssumption, Init, Epochs, Life, Open, Contract!ContractInit
<1>2. IInv /\ [Next]_vars => [AllKeep]_vars
  BY StepImplements
<1> QED
  BY <1>1, <1>2, InvariantHolds, PTL DEF Spec, ImplementsContract

-----------------------------------------------------------------------------
(* That the listener's retry budget is exact, for every number of retries: *)
(* it gives up when MaxRetries + 1 streams failed in a row, none of them   *)
(* productive but, at most, the first, and then reports it last and once.  *)

\* What a counter r says of the streams a that failed last: it counts those
\* since the last productive one, that one included, or all of them.
Runs(a, r) ==
    /\ Len(a) <= MaxRetries + 1 /\ r <= Len(a)
    /\ r = 0 => Len(a) = 0
    /\ \A k \in 1..Len(a) : k > Len(a) - r + 1 => ~a[k]
    /\ \A k \in 1..Len(a) : k = Len(a) - r + 1 /\ k > 1 => a[k]

\* had_data says whether the stream was productive, and the counter counts.
Counts(e) ==
    /\ had_data[e] <=> accepted[e] > 0
    /\ Runs(attempts[e], retries[e])

\* The report of giving up is made exactly when the counter exceeds the
\* bound, and nothing comes after it.
Reported(e) ==
    /\ retries[e] > MaxRetries =>
         /\ task[e] \in {"giving_up", "done"}
         /\ \E i \in 1..Len(forwarded[e]) : forwarded[e][i] = GaveUp
    /\ \A i \in 1..Len(forwarded[e]) :
         forwarded[e][i] = GaveUp => retries[e] > MaxRetries /\ i = Len(forwarded[e])

Budget(e) == Counts(e) /\ Reported(e)
Budgets == \A e \in Epochs : Budget(e)

-----------------------------------------------------------------------------
\* Of the failed streams the last MaxRetries + 1 are kept.
Kept(a, x) ==
    LET all == Append(a, x) IN SubSeq(all, Max({1, Len(all) - MaxRetries}), Len(all))

Dropped(a) == IF Len(a) = MaxRetries + 1 THEN 1 ELSE 0

LEMMA LastAreKept ==
    ASSUME NEW S, NEW a \in Seq(S), Len(a) <= MaxRetries + 1, NEW x \in S
    PROVE  /\ Kept(a, x) \in Seq(S)
           /\ Len(Kept(a, x)) = Len(a) + 1 - Dropped(a)
           /\ Kept(a, x)[Len(a) + 1 - Dropped(a)] = x
           /\ \A k \in 1..(Len(a) - Dropped(a)) : Kept(a, x)[k] = a[k + Dropped(a)]
<1> DEFINE n == Dropped(a)
<1>n. n \in Nat /\ n = IF Len(a) = MaxRetries + 1 THEN 1 ELSE 0
  BY DEF Dropped
<1> HIDE DEF n
<1> USE HttpTransportAssumption DEF HttpTransportAssumption
<1> DEFINE all == Append(a, x)
           from == Max({1, Len(all) - MaxRetries})
<1>1. /\ all \in Seq(S) /\ Len(a) \in Nat /\ Len(all) = Len(a) + 1
      /\ all[Len(a) + 1] = x /\ \A k \in 1..Len(a) : all[k] = a[k]
  OBVIOUS
<1>0. Len(a) \in Nat /\ Len(all) \in Nat /\ Len(all) = Len(a) + 1
  BY <1>1
<1>2. from = n + 1
  <2>1. Len(all) - MaxRetries \in Int
    BY <1>1
  <2>2. from = IF 1 >= Len(all) - MaxRetries THEN 1 ELSE Len(all) - MaxRetries
    <3> HIDE DEF all
    <3> QED
      BY <2>1, MaxOfTwo
  <2> QED
    BY <1>1, <1>n, <2>2
<1>3. Kept(a, x) = SubSeq(all, n + 1, Len(all))
  BY <1>2 DEF Kept
<1> HIDE DEF all, from
<1>4. /\ n + 1 \in Int /\ Len(all) \in Int /\ n + 1 <= Len(all)
      /\ \A i \in (n + 1)..Len(all) : all[i] \in S
  BY <1>1, <1>n
<1> DEFINE sub == SubSeq(all, n + 1, Len(all))
<1>5. /\ sub \in Seq(S)
      /\ Len(sub) = IF n + 1 <= Len(all) THEN Len(all) - (n + 1) + 1 ELSE 0
      /\ \A i \in 1..(Len(all) - (n + 1) + 1) : sub[i] = all[n + 1 + i - 1]
  BY <1>4, SubSeqProperties
<1> HIDE DEF sub
<1>6. /\ sub \in Seq(S) /\ Len(sub) = Len(a) + 1 - n
      /\ \A i \in 1..(Len(a) + 1 - n) : sub[i] = all[n + i]
  <2>1. Len(sub) = Len(a) + 1 - n
    <3>1. n + 1 <= Len(all) /\ Len(sub) = IF n + 1 <= Len(all) THEN Len(all) - (n + 1) + 1 ELSE 0
      BY <1>4, <1>5
    <3>2. Len(sub) = Len(all) - (n + 1) + 1
      BY <3>1
    <3> QED
      BY <1>0, <1>n, <3>2
  <2>2. ASSUME NEW i \in 1..(Len(a) + 1 - n)
        PROVE  sub[i] = all[n + i]
    <3>1. i \in 1..(Len(all) - (n + 1) + 1) /\ n + 1 + i - 1 = n + i
      BY <1>0, <1>n
    <3>2. sub[i] = all[n + 1 + i - 1]
      BY <1>5, <3>1
    <3> QED
      BY <3>1, <3>2
  <2> QED
    BY <1>5, <2>1, <2>2
<1>7. sub[Len(a) + 1 - n] = x
  <2>1. Len(a) + 1 - n \in 1..(Len(a) + 1 - n) /\ n + (Len(a) + 1 - n) = Len(a) + 1
    BY <1>0, <1>n
  <2> QED
    BY <1>1, <1>6, <2>1
<1>8. ASSUME NEW k \in 1..(Len(a) - n)
      PROVE  sub[k] = a[k + n]
  <2>1. k \in 1..(Len(a) + 1 - n) /\ n + k = k + n /\ k + n \in 1..Len(a)
    BY <1>0, <1>n
  <2> QED
    BY <1>1, <1>6, <2>1
<1>9. \A k \in 1..(Len(a) - n) : sub[k] = a[k + n]
  BY <1>8
<1>10. sub \in Seq(S) /\ Len(sub) = Len(a) + 1 - n
  BY <1>6
<1> QED
  BY <1>3, <1>7, <1>9, <1>10 DEF n, sub

\* One more failed stream counts on, or starts again at a productive one.
LEMMA RunsGoOn ==
    ASSUME NEW S, NEW a \in Seq(S), NEW r \in Nat, Runs(a, r), r <= MaxRetries,
           NEW x \in S, NEW s, s = IF x THEN 1 ELSE r + 1
    PROVE  Runs(Kept(a, x), s)
<1> USE HttpTransportAssumption DEF HttpTransportAssumption
<1> DEFINE n == Dropped(a)
           b == Kept(a, x)
           l == Len(a)
<1>1. /\ l \in Nat /\ l <= MaxRetries + 1 /\ r <= l /\ (r = 0 => l = 0)
      /\ \A k \in 1..l : k > l - r + 1 => ~a[k]
      /\ \A k \in 1..l : k = l - r + 1 /\ k > 1 => a[k]
  BY DEF Runs
<1>2. n \in Nat /\ l + 1 - n <= MaxRetries + 1 /\ n <= l
      /\ (n = 0 \/ (n = 1 /\ l = MaxRetries + 1))
  BY <1>1 DEF Dropped
<1>3. Len(b) = l + 1 - n /\ b[l + 1 - n] = x /\ \A k \in 1..(l - n) : b[k] = a[k + n]
  BY <1>1, LastAreKept
<1> HIDE DEF n, b, l
<1>4. Len(b) \in Nat /\ Len(b) <= MaxRetries + 1 /\ s <= Len(b) /\ s \in Nat /\ s # 0
  BY <1>1, <1>2, <1>3
<1>5. ASSUME NEW k \in 1..Len(b)
      PROVE  /\ k > Len(b) - s + 1 => ~b[k]
             /\ k = Len(b) - s + 1 /\ k > 1 => b[k]
  <2>1. CASE x
    <3>1. s = 1
      BY <2>1
    <3>2. ~(k > Len(b) - s + 1) /\ (k = Len(b) - s + 1 => k = l + 1 - n)
      BY <1>3, <1>4, <3>1
    <3>3. b[l + 1 - n] = x
      BY <1>3
    <3> QED
      BY <2>1, <3>2, <3>3, Zenon
  <2>2. CASE ~x /\ k = Len(b)
    BY <1>1, <1>2, <1>3, <1>4, <2>2
  <2>3. CASE ~x /\ k # Len(b)
    <3>1. k \in 1..(l - n) /\ k + n \in 1..l /\ k + n \in Nat
      BY <1>1, <1>2, <1>3, <1>4, <2>3
    <3>2. b[k] = a[k + n]
      BY <1>3, <3>1
    <3>3. k > Len(b) - s + 1 => k + n > l - r + 1
      BY <1>1, <1>2, <1>3, <1>4, <2>3
    <3>4. k = Len(b) - s + 1 /\ k > 1 => k + n = l - r + 1 /\ k + n > 1
      BY <1>1, <1>2, <1>3, <1>4, <2>3
    <3> QED
      BY <1>1, <3>1, <3>2, <3>3, <3>4
  <2> QED
    BY <2>1, <2>2, <2>3
<1> QED
  BY <1>4, <1>5 DEF Runs, b

LEMMA FailureCounts ==
    ASSUME IInv, Budgets, NEW e \in Epochs, StreamFails(e),
           task[e] \in {"get", "stream", "reject"}, UNCHANGED <<had_data, accepted>>
    PROVE  Counts(e)'
<1>1. /\ attempts \in [Epochs -> Seq(BOOLEAN)] /\ retries \in [Epochs -> 0..(MaxRetries + 1)]
      /\ attempts[e] \in Seq(BOOLEAN) /\ retries[e] \in Nat
  BY DEF IInv, TypeOK, ListenerTypes
<1>2. retries[e] <= MaxRetries /\ Counts(e)
  BY DEF IInv, Tasks, Task, Budgets, Budget
<1>3. /\ attempts'[e] = Kept(attempts[e], accepted[e] > 0)
      /\ retries'[e] = IF had_data[e] THEN 1 ELSE retries[e] + 1
  BY <1>1 DEF StreamFails, Set, NextRetry, Kept
<1> DEFINE x == accepted[e] > 0
<1>4. x \in BOOLEAN
  OBVIOUS
<1>5. /\ attempts'[e] = Kept(attempts[e], x)
      /\ retries'[e] = IF x THEN 1 ELSE retries[e] + 1
  BY <1>2, <1>3 DEF Counts
<1> HIDE DEF x
<1>6. Runs(attempts'[e], retries'[e])
  BY <1>1, <1>2, <1>4, <1>5, RunsGoOn DEF Counts
<1> QED
  BY <1>2, <1>6 DEF Counts

\* What is appended comes last, and the rest stays.
LEMMA AppendedLast ==
    ASSUME NEW q \in Seq(Item), NEW x \in Item
    PROVE  /\ Len(Append(q, x)) = Len(q) + 1 /\ Len(q) \in Nat
           /\ Append(q, x)[Len(q) + 1] = x
           /\ \A i \in 1..Len(q) : Append(q, x)[i] = q[i]
           /\ Len(q) + 1 \in 1..Len(Append(q, x))
  OBVIOUS

\* A failed stream is reported exactly when its retries ran out.
LEMMA FailureReports ==
    ASSUME IInv, Budgets, NEW e \in Epochs, StreamFails(e),
           task[e] \in {"get", "stream", "reject"}
    PROVE  Reported(e)'
<1> USE HttpTransportAssumption DEF HttpTransportAssumption
<1>1. /\ task \in [Epochs -> TaskStates] /\ forwarded \in [Epochs -> Seq(Item)]
      /\ retries \in [Epochs -> 0..(MaxRetries + 1)]
  BY DEF IInv, TypeOK, ListenerTypes, PipeTypes
<1>2. retries[e] <= MaxRetries /\ retries[e] \in Nat
  BY <1>1 DEF IInv, Tasks, Task
<1>3. \A i \in 1..Len(forwarded[e]) : forwarded[e][i] # GaveUp
  BY <1>2 DEF Budgets, Budget, Reported
<1>4. retries'[e] = NextRetry(e) /\ NextRetry(e) \in Nat
  BY <1>1, <1>2 DEF StreamFails, Set, NextRetry
<1>5. CASE Exhausted(e)
  <2>1. /\ task'[e] = "giving_up" /\ retries'[e] > MaxRetries
        /\ forwarded'[e] = Append(forwarded[e], GaveUp)
    BY <1>1, <1>4, <1>5 DEF StreamFails, Set, Exhausted
  <2>2. GaveUp \in Item /\ forwarded[e] \in Seq(Item)
    <3>1. 0 \in 0..MaxEvents
      OBVIOUS
    <3>2. GaveUp \in Item
      BY <3>1 DEF GaveUp, Item
    <3> QED
      BY <1>1, <3>2
  <2> DEFINE q == forwarded[e]
  <2>3. /\ Len(Append(q, GaveUp)) = Len(q) + 1 /\ Len(q) \in Nat
        /\ Append(q, GaveUp)[Len(q) + 1] = GaveUp
        /\ \A i \in 1..Len(q) : Append(q, GaveUp)[i] = q[i]
        /\ Len(q) + 1 \in 1..Len(Append(q, GaveUp))
    BY <2>2, AppendedLast
  <2>4. \A i \in 1..Len(Append(q, GaveUp)) : i \in 1..Len(q) \/ i = Len(q) + 1
    BY <2>3
  <2> QED
    BY <1>3, <2>1, <2>3, <2>4 DEF Reported
<1>6. CASE ~Exhausted(e)
  <2>1. forwarded' = forwarded /\ ~(retries'[e] > MaxRetries)
    BY <1>4, <1>6 DEF StreamFails, Set, Exhausted
  <2> QED
    BY <1>3, <2>1 DEF Reported
<1> QED
  BY <1>5, <1>6

-----------------------------------------------------------------------------
\* What a step leaves of a listener's retries: all of it; or its stream fails;
\* or it takes an event; or it opens a stream, or puts an envelope.
Rests(e) ==
    /\ UNCHANGED <<retries[e], attempts[e], forwarded[e]>>
    /\ task[e] = "giving_up" => task'[e] \in {"giving_up", "done"}
    /\ task[e] = "done" => task'[e] = "done"

Fails(e) ==
    StreamFails(e) /\ task[e] \in {"get", "stream", "reject"} /\ UNCHANGED <<had_data, accepted>>

Gets(e) ==
    /\ UNCHANGED <<retries[e], attempts[e]>>
    /\ task[e] = "stream"
    /\ \E x \in Item : x # GaveUp /\ forwarded'[e] = Append(forwarded[e], x)

Agrees(e) ==
    \/ UNCHANGED <<had_data[e], accepted[e]>>
    \/ had_data'[e] <=> accepted'[e] > 0

LEMMA StepsOfOne ==
    ASSUME IInv, NEW e \in Epochs, ListenerRuns(e) \/ ServerActs(e)
    PROVE  /\ Fails(e) \/ ((Rests(e) \/ Gets(e)) /\ Agrees(e))
           /\ \A f \in Epochs \ {e} : Rests(f) /\ UNCHANGED <<had_data[f], accepted[f]>>
<1> USE DEF ownerVars, loopVars, pipeVars
<1>1. /\ task \in [Epochs -> TaskStates] /\ forwarded \in [Epochs -> Seq(Item)]
      /\ retries \in [Epochs -> 0..(MaxRetries + 1)] /\ had_data \in [Epochs -> BOOLEAN]
      /\ accepted \in [Epochs -> Nat] /\ attempts \in [Epochs -> Seq(BOOLEAN)]
      /\ TypeOK
  BY DEF IInv, TypeOK, ListenerTypes, PipeTypes
<1>2. CASE GetFails(e) \/ ReadFails(e) \/ Reject(e)
  <2>1. Fails(e)
    BY <1>2 DEF GetFails, ReadFails, Reject, Fails
  <2>2. \A f \in Epochs \ {e} : UNCHANGED <<retries[f], attempts[f], forwarded[f], task[f]>>
    BY <1>1, <2>1 DEF Fails, StreamFails, Set
  <2> QED
    BY <2>1, <2>2 DEF Fails, Rests
<1>3. ASSUME NEW kinds \in SUBSET {"message", "bad_event", "too_large"}, Served(e, kinds),
             task[e] = "stream", NEW w \in TaskStates, task' = [task EXCEPT ![e] = w]
      PROVE  /\ Gets(e) /\ Agrees(e)
             /\ \A f \in Epochs \ {e} : Rests(f) /\ UNCHANGED <<had_data[f], accepted[f]>>
  <2>1. PICK x \in Item : x # GaveUp /\ forwarded' = [forwarded EXCEPT ![e] = Append(forwarded[e], x)]
    BY <1>1, <1>3, ServedFacts
  <2>2. UNCHANGED <<retries, had_data, accepted, attempts>>
    BY <1>3 DEF Served
  <2>3. Gets(e) /\ Agrees(e)
    BY <1>1, <1>3, <2>1, <2>2 DEF Gets, Agrees
  <2>4. \A f \in Epochs \ {e} : UNCHANGED <<forwarded[f], task[f]>>
    BY <1>1, <1>3, <2>1
  <2> QED
    BY <2>2, <2>3, <2>4 DEF Rests
<1>4. CASE ServeEvent(e) \/ ServeTooLarge(e) \/ EndWithEvent(e)
  <2>1. task[e] = "stream"
    BY <1>4 DEF ServeEvent, ServeTooLarge, EndWithEvent
  <2>2. PICK kinds \in SUBSET {"message", "bad_event", "too_large"}, w \in TaskStates :
          Served(e, kinds) /\ task' = [task EXCEPT ![e] = w]
    BY <1>4 DEF ServeEvent, ServeTooLarge, EndWithEvent, Set, TaskStates
  <2> QED
    BY <1>3, <2>1, <2>2
<1>5. CASE Attach(e)
  <2>1. /\ task[e] = "attach" /\ task' = [task EXCEPT ![e] = "get"]
        /\ had_data' = [had_data EXCEPT ![e] = FALSE] /\ accepted' = [accepted EXCEPT ![e] = 0]
        /\ UNCHANGED <<retries, attempts, forwarded>>
    BY <1>5 DEF Attach, Set
  <2>2. had_data'[e] = FALSE /\ accepted'[e] = 0
    BY <1>1, <2>1
  <2> QED
    BY <1>1, <2>1, <2>2 DEF Rests, Agrees
<1>6. CASE Forward(e)
  <2>1. /\ task[e] = "forward" /\ UNCHANGED <<retries, attempts, forwarded>>
        /\ \E w \in TaskStates : task' = [task EXCEPT ![e] = w]
        /\ \/ /\ had_data' = [had_data EXCEPT ![e] = TRUE]
              /\ accepted' = [accepted EXCEPT ![e] = accepted[e] + 1]
           \/ UNCHANGED <<had_data, accepted>>
    BY <1>6 DEF Forward, Set, TaskStates
  <2>2. Agrees(e)
    <3>1. CASE /\ had_data' = [had_data EXCEPT ![e] = TRUE]
               /\ accepted' = [accepted EXCEPT ![e] = accepted[e] + 1]
      <4>1. had_data'[e] = TRUE /\ accepted'[e] = accepted[e] + 1 /\ accepted[e] \in Nat
        BY <1>1, <3>1
      <4> QED
        BY <4>1 DEF Agrees
    <3>2. CASE UNCHANGED <<had_data, accepted>>
      BY <3>2 DEF Agrees
    <3> QED
      BY <2>1, <3>1, <3>2
  <2>3. \A f \in Epochs \ {e} : UNCHANGED <<task[f], had_data[f], accepted[f]>>
    BY <1>1, <2>1
  <2> QED
    BY <2>1, <2>2, <2>3 DEF Rests
<1>7. CASE \/ GetSucceeds(e) \/ StoreSession(e) \/ Flush(e) \/ GiveUp(e)
           \/ BackoffElapses(e) \/ Die(e) \/ EndCleanly(e) \/ ServePanic(e)
  <2>1. /\ UNCHANGED <<retries, attempts, forwarded, had_data, accepted>>
        /\ task[e] # "done"
        /\ \E w \in TaskStates : /\ task' = [task EXCEPT ![e] = w]
                                 /\ task[e] = "giving_up" => w = "done"
    BY <1>7 DEF GetSucceeds, StoreSession, Flush, GiveUp, LastWords, BackoffElapses, Die,
       EndCleanly, ServePanic, Set, TaskStates, Ended
  <2> QED
    BY <1>1, <2>1 DEF Rests, Agrees
<1> QED
  BY <1>2, <1>4, <1>5, <1>6, <1>7 DEF ListenerRuns, ServerActs

\* A listener that rests keeps its budget, and one that takes an event too.
LEMMA RestKeepsBudget ==
    ASSUME IInv, Budgets, NEW e \in Epochs, Rests(e) \/ Gets(e), Agrees(e)
    PROVE  Budget(e)'
<1> USE HttpTransportAssumption DEF HttpTransportAssumption
<1>1. Counts(e) /\ Reported(e)
  BY DEF Budgets, Budget
<1>2. retries'[e] = retries[e] /\ attempts'[e] = attempts[e]
  BY DEF Rests, Gets
<1>3. Counts(e)'
  BY <1>1, <1>2 DEF Counts, Agrees
<1>4. CASE Rests(e)
  BY <1>1, <1>2, <1>3, <1>4 DEF Rests, Reported, Budget
<1>5. CASE Gets(e)
  <2>1. PICK x \in Item : x # GaveUp /\ forwarded'[e] = Append(forwarded[e], x)
    BY <1>5 DEF Gets
  <2> DEFINE q == forwarded[e]
  <2>2. q \in Seq(Item) /\ retries[e] \in Nat /\ retries[e] <= MaxRetries
    <3>1. task[e] = "stream"
      BY <1>5 DEF Gets
    <3>2. Task(e) /\ q \in Seq(Item) /\ retries[e] \in 0..(MaxRetries + 1)
      BY DEF IInv, TypeOK, ListenerTypes, PipeTypes, Tasks
    <3> QED
      BY <3>1, <3>2 DEF Task
  <2>3. /\ Len(Append(q, x)) = Len(q) + 1 /\ Len(q) \in Nat
        /\ Append(q, x)[Len(q) + 1] = x
        /\ \A i \in 1..Len(q) : Append(q, x)[i] = q[i]
    BY <2>2, AppendedLast
  <2>4. \A i \in 1..Len(q) : q[i] # GaveUp
    BY <1>1, <2>2 DEF Reported
  <2>5. \A i \in 1..Len(Append(q, x)) : i \in 1..Len(q) \/ i = Len(q) + 1
    BY <2>3
  <2>6. Reported(e)'
    BY <1>2, <2>1, <2>2, <2>3, <2>4, <2>5 DEF Reported
  <2> QED
    BY <1>3, <2>6 DEF Budget
<1> QED
  BY <1>4, <1>5

LEMMA BudgetsAreKept ==
    ASSUME IInv, Budgets, [Next]_vars
    PROVE  Budgets'
<1>1. CASE Connect
  <2> SUFFICES ASSUME NEW e \in Epochs PROVE Rests(e) /\ Agrees(e)
    BY RestKeepsBudget DEF Budgets
  <2>1. /\ UNCHANGED <<retries, attempts, forwarded, had_data, accepted>>
        /\ task' = [task EXCEPT ![epoch + 1] = "attach"]
    BY <1>1 DEF Connect, Set, loopVars, pipeVars
  <2>2. /\ task \in [Epochs -> TaskStates] /\ epoch \in Nat /\ epoch + 1 \in Epochs
    BY <1>1, HttpTransportAssumption
       DEF Connect, Epochs, IInv, TypeOK, OwnerTypes, ListenerTypes, HttpTransportAssumption
  <2>3. epoch + 1 > epoch
    BY <2>2
  <2>4. task[epoch + 1] = "none"
    BY <2>2, <2>3 DEF IInv, Tasks, Task
  <2> QED
    BY <2>1, <2>2, <2>4 DEF Rests, Agrees
<1>2. CASE DisconnectBegin \/ DisconnectClear \/ Quiet
  <2> SUFFICES ASSUME NEW e \in Epochs PROVE Rests(e) /\ Agrees(e)
    BY RestKeepsBudget DEF Budgets
  <2>1. UNCHANGED <<retries, attempts, forwarded, had_data, accepted, task>>
    BY <1>2 DEF DisconnectBegin, DisconnectClear, Quiet, DisconnectDelete, DisconnectNoSession,
       DisconnectDeleted, DisconnectDropped, DisconnectStep, SendPosts, SendReturns, Recv,
       RecvClosed, RecvWithoutReceiver, ownerVars, loopVars, pipeVars, vars
  <2> QED
    BY <2>1 DEF Rests, Agrees
<1>3. ASSUME NEW e \in Epochs, ListenerRuns(e) \/ ServerActs(e)
      PROVE  Budgets'
  <2>1. ASSUME NEW f \in Epochs \ {e} PROVE Budget(f)'
    BY <1>3, <2>1, StepsOfOne, RestKeepsBudget DEF Agrees
  <2>2. Budget(e)'
    BY <1>3, StepsOfOne, RestKeepsBudget, FailureCounts, FailureReports DEF Fails, Budget
  <2> QED
    BY <2>1, <2>2 DEF Budgets
<1> QED
  BY <1>1, <1>2, <1>3 DEF Next, Owner, Disconnecting, Quiet

LEMMA BudgetsAtFirst == Init => Budgets
  BY HttpTransportAssumption
     DEF HttpTransportAssumption, Init, Budgets, Budget, Counts, Runs, Reported

-----------------------------------------------------------------------------
\* The listener gives up exactly when MaxRetries + 1 streams in a row failed,
\* none productive but, at most, the first; its report comes once and last.
\* So it neither stops early nor retries beyond the bound, for every bound,
\* and every order of failures, events and reconnections (http.rs:309-349).
THEOREM RetriesAreExact == Spec => []GivesUpWhenExhausted
<1>1. IInv /\ Budgets => GivesUpWhenExhausted
  <2> USE HttpTransportAssumption DEF HttpTransportAssumption
  <2> SUFFICES ASSUME IInv, Budgets, NEW e \in Epochs
               PROVE  /\ (\E i \in DOMAIN forwarded[e] : forwarded[e][i] = GaveUp)
                          <=> /\ Len(attempts[e]) = MaxRetries + 1
                              /\ \A k \in 2..(MaxRetries + 1) : ~attempts[e][k]
                      /\ \A i \in DOMAIN forwarded[e] :
                           forwarded[e][i] = GaveUp =>
                               /\ i = Len(forwarded[e])
                               /\ task[e] \in {"giving_up", "done"}
    BY DEF GivesUpWhenExhausted
  <2>1. /\ attempts[e] \in Seq(BOOLEAN) /\ Len(attempts[e]) \in Nat
        /\ retries[e] \in 0..(MaxRetries + 1) /\ forwarded[e] \in Seq(Item)
    BY DEF IInv, TypeOK, ListenerTypes, PipeTypes
  <2>2. DOMAIN forwarded[e] = 1..Len(forwarded[e])
    BY <2>1
  <2>3. Counts(e) /\ Reported(e)
    BY DEF Budgets, Budget
  <2>4. (\E i \in DOMAIN forwarded[e] : forwarded[e][i] = GaveUp) <=> retries[e] = MaxRetries + 1
    BY <2>1, <2>2, <2>3 DEF Reported
  <2>5. ASSUME retries[e] = MaxRetries + 1
        PROVE  /\ Len(attempts[e]) = MaxRetries + 1
               /\ \A k \in 2..(MaxRetries + 1) : ~attempts[e][k]
    BY <2>1, <2>3, <2>5 DEF Counts, Runs
  <2>6. ASSUME Len(attempts[e]) = MaxRetries + 1, retries[e] # MaxRetries + 1
        PROVE  \E k \in 2..(MaxRetries + 1) : attempts[e][k]
    <3> DEFINE k == Len(attempts[e]) - retries[e] + 1
    <3>1. retries[e] # 0
      BY <2>1, <2>3, <2>6 DEF Counts, Runs
    <3>2. k \in 2..(MaxRetries + 1) /\ k \in 1..Len(attempts[e]) /\ k > 1
      BY <2>1, <2>6, <3>1
    <3>3. attempts[e][k]
      BY <2>3, <3>2 DEF Counts, Runs
    <3> QED
      BY <3>2, <3>3
  <2>7. \A i \in DOMAIN forwarded[e] :
          forwarded[e][i] = GaveUp => i = Len(forwarded[e]) /\ task[e] \in {"giving_up", "done"}
    BY <2>2, <2>3 DEF Reported
  <2> QED
    BY <2>4, <2>5, <2>6, <2>7
<1>2. IInv /\ Budgets /\ [Next]_vars => Budgets'
  BY BudgetsAreKept
<1> QED
  BY <1>1, <1>2, InvariantHolds, BudgetsAtFirst, PTL DEF Spec
=============================================================================
