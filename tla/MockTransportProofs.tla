------------------------ MODULE MockTransportProofs -------------------------
(* That a pair of MockTransports keeps the transport's contract, for every *)
(* capacity and any number of sends and waiting calls.                     *)
EXTENDS MockTransport, TLAPS

MockTypes ==
    /\ connected \in [Ends -> BOOLEAN]
    /\ tx \in [Ends -> BOOLEAN]
    /\ alive \in [Ends -> BOOLEAN]
    /\ chan \in [Ends -> Seq(Envelope)]
    /\ seq \in [Ends -> Nat]
    /\ sending \in [Ends -> Seq(Envelope)]
    /\ receiving \in [Ends -> Nat]
    /\ received \in [Ends -> Seq(Envelope)]
    /\ told \in [Ends -> BOOLEAN]

\* A connected end has its sender, an end with a sender was not dropped, and
\* only a connected end has calls waiting.
Lively ==
    \A e \in Ends :
        /\ connected[e] => tx[e]
        /\ tx[e] => alive[e]
        /\ sending[e] # <<>> \/ receiving[e] > 0 => connected[e]

MockInv == MockTypes /\ Lively

-----------------------------------------------------------------------------
LEMMA PeerFacts ==
    ASSUME NEW e \in Ends
    PROVE  Peer(e) \in Ends /\ Peer(e) # e /\ Peer(Peer(e)) = e
  BY DEF Ends, Peer

\* A waiting call that is gone leaves the others as they were.
LEMMA RemovedFacts ==
    ASSUME NEW S, NEW q \in Seq(S), NEW i \in DOMAIN q
    PROVE  RemoveAt(q, i) \in Seq(S) /\ q[i] \in S /\ q # <<>>
<1>1. i \in 1..Len(q) /\ Len(q) \in Nat
  OBVIOUS
<1>2. SubSeq(q, 1, i - 1) \in Seq(S) /\ SubSeq(q, i + 1, Len(q)) \in Seq(S)
  BY <1>1
<1> QED
  BY <1>1, <1>2 DEF RemoveAt

LEMMA MockInvNext ==
    ASSUME MockInv, [Next]_vars
    PROVE  MockInv'
<1> USE DEF MockInv, MockTypes, Lively, Set
<1>1. ASSUME NEW e \in Ends, Connect(e) \/ Disconnect(e)
      PROVE  MockInv'
  <2>1. CASE Connect(e)
    BY <2>1 DEF Connect, Exclusive
  <2>2. CASE Disconnect(e)
    <3>1. /\ connected' = [connected EXCEPT ![e] = FALSE] /\ tx' = [tx EXCEPT ![e] = FALSE]
          /\ sending[e] = <<>> /\ receiving[e] = 0
          /\ UNCHANGED <<alive, chan, seq, sending, receiving, received, told>>
      BY <2>2 DEF Disconnect, Exclusive
    <3>2. MockTypes'
      BY <3>1
    <3>3. Lively'
      BY <3>1
    <3> QED
      BY <3>2, <3>3
  <2> QED
    BY <1>1, <2>1, <2>2
<1>2. ASSUME NEW e \in Ends, Drop(e)
      PROVE  MockInv'
  <2>1. Peer(e) \in Ends /\ <<>> \in Seq(Envelope)
    BY PeerFacts
  <2>2. /\ connected' = [connected EXCEPT ![e] = FALSE] /\ tx' = [tx EXCEPT ![e] = FALSE]
        /\ alive' = [alive EXCEPT ![e] = FALSE] /\ chan' = [chan EXCEPT ![Peer(e)] = <<>>]
        /\ sending[e] = <<>> /\ receiving[e] = 0
        /\ UNCHANGED <<seq, sending, receiving, received, told>>
    BY <1>2 DEF Drop, Exclusive
  <2>3. chan' \in [Ends -> Seq(Envelope)]
    BY <2>1, <2>2
  <2>4. MockTypes'
    BY <2>2, <2>3
  <2>5. Lively'
    BY <2>2
  <2> QED
    BY <2>4, <2>5
<1>3. ASSUME NEW e \in Ends, SendStarts(e)
      PROVE  MockInv'
  <2>1. [from |-> e, seq |-> seq[e] + 1] \in Envelope
    BY <1>3, MockAssumption DEF SendStarts, Envelope, MockAssumption
  <2>2. Append(sending[e], [from |-> e, seq |-> seq[e] + 1]) \in Seq(Envelope)
    BY <2>1
  <2> QED
    BY <1>3, <2>2 DEF SendStarts
<1>4. ASSUME NEW e \in Ends, SendAccepted(e)
      PROVE  MockInv'
  <2>1. PICK i \in DOMAIN sending[e] :
              /\ chan' = [chan EXCEPT ![e] = Append(chan[e], sending[e][i])]
              /\ sending' = [sending EXCEPT ![e] = RemoveAt(sending[e], i)]
    BY <1>4 DEF SendAccepted, Leaves
  <2>2. /\ RemoveAt(sending[e], i) \in Seq(Envelope) /\ sending[e][i] \in Envelope
        /\ sending[e] # <<>>
    BY RemovedFacts
  <2>3. Append(chan[e], sending[e][i]) \in Seq(Envelope)
    BY <2>2
  <2> QED
    BY <1>4, <2>1, <2>2, <2>3 DEF SendAccepted
<1>5. ASSUME NEW e \in Ends, SendFails(e) \/ SendDropped(e)
      PROVE  MockInv'
  <2>1. PICK i \in DOMAIN sending[e] :
              sending' = [sending EXCEPT ![e] = RemoveAt(sending[e], i)]
    BY <1>5 DEF SendFails, SendDropped, Leaves
  <2>2. RemoveAt(sending[e], i) \in Seq(Envelope) /\ sending[e] # <<>>
    BY RemovedFacts
  <2> QED
    BY <1>5, <2>1, <2>2 DEF SendFails, SendDropped
<1>6. ASSUME NEW e \in Ends, RecvStarts(e)
      PROVE  MockInv'
  BY <1>6 DEF RecvStarts
<1>7. ASSUME NEW e \in Ends, RecvTakes(e)
      PROVE  MockInv'
  <2>1. /\ chan[Peer(e)] \in Seq(Envelope) /\ chan[Peer(e)] # <<>> /\ Peer(e) \in Ends
    BY <1>7, PeerFacts DEF RecvTakes
  <2>2. /\ Tail(chan[Peer(e)]) \in Seq(Envelope) /\ Head(chan[Peer(e)]) \in Envelope
    BY <2>1
  <2>3. Append(received[e], Head(chan[Peer(e)])) \in Seq(Envelope)
    BY <2>2
  <2> QED
    <3>1. /\ received' = [received EXCEPT ![e] = Append(received[e], Head(chan[Peer(e)]))]
          /\ chan' = [chan EXCEPT ![Peer(e)] = Tail(chan[Peer(e)])]
          /\ receiving' = [receiving EXCEPT ![e] = receiving[e] - 1]
          /\ receiving[e] > 0
          /\ UNCHANGED <<connected, tx, alive, seq, sending, told>>
      BY <1>7 DEF RecvTakes
    <3>2. received' \in [Ends -> Seq(Envelope)] /\ chan' \in [Ends -> Seq(Envelope)]
      BY <2>1, <2>2, <2>3, <3>1
    <3>3. receiving \in [Ends -> Nat] /\ receiving[e] \in Nat /\ receiving[e] - 1 \in Nat
      BY <3>1
    <3>4. receiving' \in [Ends -> Nat]
      BY <3>1, <3>3
    <3>5. \A f \in Ends : receiving'[f] > 0 => receiving[f] > 0
      BY <3>1, <3>3
    <3>6. MockTypes'
      BY <3>1, <3>2, <3>4
    <3>7. Lively'
      BY <3>1, <3>5
    <3> QED
      BY <3>6, <3>7
<1>8. ASSUME NEW e \in Ends, RecvEnds(e) \/ RecvDropped(e)
      PROVE  MockInv'
  <2>1. /\ receiving' = [receiving EXCEPT ![e] = receiving[e] - 1]
        /\ receiving[e] > 0 /\ told' \in [Ends -> BOOLEAN]
        /\ UNCHANGED <<connected, tx, alive, chan, seq, sending, received>>
    BY <1>8 DEF RecvEnds, RecvDropped
  <2>2. receiving \in [Ends -> Nat] /\ receiving[e] \in Nat /\ receiving[e] - 1 \in Nat
    BY <2>1
  <2>3. receiving' \in [Ends -> Nat] /\ \A f \in Ends : receiving'[f] > 0 => receiving[f] > 0
    BY <2>1, <2>2
  <2>4. MockTypes'
    BY <2>1, <2>3
  <2>5. Lively'
    BY <2>1, <2>3
  <2> QED
    BY <2>4, <2>5
<1>9. CASE UNCHANGED vars
  BY <1>9 DEF vars
<1> QED
  BY <1>1, <1>2, <1>3, <1>4, <1>5, <1>6, <1>7, <1>8, <1>9 DEF Next, Resolves

-----------------------------------------------------------------------------
\* A step of either end is for each end a step of the contract, or none of it.
LEMMA StepKeepsContract ==
    ASSUME MockInv, [Next]_vars, NEW e \in Ends
    PROVE  [Contract(e)!ContractNext]_(Contract(e)!contractVars)
<1> DEFINE p == Peer(e)
           Kept == UNCHANGED Contract(e)!contractVars
<1> USE DEF Contract!contractVars
<1>peers. p \in Ends /\ p # e /\ Peer(p) = e /\ \A f \in Ends : f = e \/ f = p
  BY PeerFacts DEF Ends
<1>shapes. /\ connected \in [Ends -> BOOLEAN] /\ tx \in [Ends -> BOOLEAN]
           /\ alive \in [Ends -> BOOLEAN] /\ chan \in [Ends -> Seq(Envelope)]
           /\ received \in [Ends -> Seq(Envelope)] /\ told \in [Ends -> BOOLEAN]
           /\ \A f \in Ends : /\ connected[f] => tx[f]
                              /\ tx[f] => alive[f]
                              /\ sending[f] # <<>> \/ receiving[f] > 0 => connected[f]
  BY DEF MockInv, MockTypes, Lively
<1> USE DEF Set
<1>1. ASSUME Connect(e)
      PROVE  Contract(e)!Connects
  <2>1. /\ Life(e) = "new" /\ Life(e)' = "live"
        /\ UNCHANGED <<chan, tx, received, told>>
    BY <1>1, <1>shapes DEF Connect, Exclusive, Life
  <2> QED
    BY <2>1 DEF Contract!Connects
<1>2. ASSUME Connect(p)
      PROVE  Kept
  BY <1>2, <1>peers, <1>shapes DEF Connect, Life
<1>3. ASSUME Disconnect(e)
      PROVE  Contract(e)!Disconnects
  <2>1. /\ Life(e) = "live" /\ Life(e)' = "dead"
        /\ UNCHANGED <<received, told>> /\ tx'[p] = tx[p]
    BY <1>3, <1>peers, <1>shapes DEF Disconnect, Exclusive, Life
  <2> QED
    BY <2>1 DEF Contract!Disconnects
<1>4. ASSUME Disconnect(p)
      PROVE  Contract(e)!PeerCloses
  <2>1. /\ Life(e)' = Life(e) /\ tx[p] /\ ~tx'[p]
        /\ UNCHANGED <<chan, received, told>>
    BY <1>4, <1>peers, <1>shapes DEF Disconnect, Life
  <2> QED
    BY <2>1 DEF Contract!PeerCloses
<1>5. ASSUME Drop(e)
      PROVE  Contract(e)!Disconnects \/ Kept
  <2>1. /\ Life(e)' = "dead" /\ UNCHANGED <<received, told>> /\ tx'[p] = tx[p]
    BY <1>5, <1>peers, <1>shapes DEF Drop, Life
  <2>2. CASE Life(e) = "dead"
    BY <2>1, <2>2
  <2>3. CASE Life(e) # "dead"
    BY <2>1, <2>3 DEF Contract!Disconnects
  <2> QED
    BY <2>2, <2>3
<1>6. ASSUME Drop(p)
      PROVE  Contract(e)!PeerCloses \/ Kept
  <2>1. /\ Life(e)' = Life(e) /\ ~tx'[p] /\ chan'[p] = chan[p]
        /\ UNCHANGED <<received, told>>
    BY <1>6, <1>peers, <1>shapes DEF Drop, Life
  <2>2. CASE tx[p]
    BY <2>1, <2>2 DEF Contract!PeerCloses
  <2>3. CASE ~tx[p]
    BY <2>1, <2>3
  <2> QED
    BY <2>2, <2>3
<1>7. ASSUME SendAccepted(p)
      PROVE  Contract(e)!ContractNext \/ Kept
  <2>1. PICK i \in DOMAIN sending[p] :
              chan' = [chan EXCEPT ![p] = Append(chan[p], sending[p][i])]
    BY <1>7 DEF SendAccepted
  <2>2. sending[p][i] \in Envelope /\ sending[p] # <<>>
    BY <1>peers, RemovedFacts DEF MockInv, MockTypes
  <2>3. /\ Life(e)' = Life(e) /\ tx[p] /\ UNCHANGED <<tx, received, told>>
        /\ chan'[p] = Append(chan[p], sending[p][i])
    BY <1>7, <1>peers, <1>shapes, <2>1, <2>2 DEF SendAccepted, Life
  <2>4. CASE Life(e) = "dead"
    BY <2>3, <2>4
  <2>5. CASE Life(e) # "dead"
    <3>1. Contract(e)!PeerSends(sending[p][i])
      BY <2>3, <2>5 DEF Contract!PeerSends
    <3> QED
      BY <2>2, <3>1 DEF Contract!ContractNext
  <2> QED
    BY <2>4, <2>5
<1>8. ASSUME SendAccepted(e)
      PROVE  Kept
  <2>1. chan'[p] = chan[p] /\ UNCHANGED <<connected, tx, alive, received, told>>
    BY <1>8, <1>peers, <1>shapes DEF SendAccepted
  <2> QED
    BY <2>1 DEF Life
<1>9. ASSUME RecvTakes(e)
      PROVE  Contract(e)!Receives
  <2>1. /\ Life(e) = "live" /\ Life(e)' = "live"
        /\ chan[p] # <<>> /\ chan'[p] = Tail(chan[p])
        /\ received'[e] = Append(received[e], Head(chan[p]))
        /\ UNCHANGED <<tx, told>>
    BY <1>9, <1>peers, <1>shapes DEF RecvTakes, Life
  <2> QED
    BY <2>1 DEF Contract!Receives
<1>10. ASSUME RecvTakes(p)
       PROVE  Kept
  <2>1. /\ chan'[p] = chan[p] /\ received'[e] = received[e]
        /\ UNCHANGED <<connected, tx, alive, told>>
    BY <1>10, <1>peers, <1>shapes DEF RecvTakes
  <2> QED
    BY <2>1 DEF Life
<1>11. ASSUME RecvEnds(e)
       PROVE  Contract(e)!IsToldOfTheEnd
  <2>1. /\ Life(e) = "live" /\ Life(e)' = "live"
        /\ chan[p] = <<>> /\ ~tx[p] /\ told'[e] = TRUE
        /\ UNCHANGED <<chan, tx, received>>
    BY <1>11, <1>peers, <1>shapes DEF RecvEnds, Life
  <2> QED
    BY <2>1 DEF Contract!IsToldOfTheEnd
<1>12. ASSUME RecvEnds(p)
       PROVE  Kept
  <2>1. told'[e] = told[e] /\ UNCHANGED <<connected, tx, alive, chan, received>>
    BY <1>12, <1>peers, <1>shapes DEF RecvEnds
  <2> QED
    BY <2>1 DEF Life
<1>13. ASSUME \/ \E f \in Ends : \/ SendStarts(f) \/ SendFails(f) \/ SendDropped(f)
                                 \/ RecvStarts(f) \/ RecvDropped(f)
              \/ UNCHANGED vars
       PROVE  Kept
  <2>1. UNCHANGED <<connected, tx, alive, chan, received, told>>
    BY <1>13 DEF SendStarts, SendFails, SendDropped, RecvStarts, RecvDropped, vars
  <2> QED
    BY <2>1 DEF Life
<1> HIDE DEF p, Kept
<1>14. Contract(e)!ContractNext \/ Kept
  <2>1. CASE \E f \in Ends : Connect(f) \/ Disconnect(f) \/ Drop(f) \/ Resolves(f)
    <3>1. PICK f \in {e, p} : Connect(f) \/ Disconnect(f) \/ Drop(f) \/ Resolves(f)
      BY <2>1, <1>peers
    <3>2. CASE f = e
      BY <3>1, <3>2, <1>1, <1>3, <1>5, <1>8, <1>9, <1>11, <1>13
         DEF Resolves, Contract!ContractNext
    <3>3. CASE f = p
      BY <3>1, <3>3, <1>2, <1>4, <1>6, <1>7, <1>10, <1>12, <1>13, <1>peers
         DEF Resolves, Contract!ContractNext
    <3> QED
      BY <3>1, <3>2, <3>3
  <2> QED
    BY <1>13, <2>1 DEF Next
<1> QED
  BY <1>14 DEF Kept

\* The pair keeps the order of envelopes, and reports the end when it is due,
\* at both ends (transport/mod.rs:43-92, mock.rs:72-113).
THEOREM MockKeepsItsContract == Spec => ImplementsContract
<1> DEFINE AllKeep == \A e \in Ends :
                         [Contract(e)!ContractNext]_(Contract(e)!contractVars)
           AllNew == \A e \in Ends : Contract(e)!ContractInit
<1>1. Init => AllNew
  BY PeerFacts DEF Init, Life, Contract!ContractInit
<1>2. Init => MockInv
  BY DEF Init, MockInv, MockTypes, Lively
<1>3. MockInv /\ [Next]_vars => MockInv'
  BY MockInvNext
<1>4. MockInv /\ [Next]_vars => [AllKeep]_vars
  BY StepKeepsContract
<1> QED
  BY <1>1, <1>2, <1>3, <1>4, PTL DEF Spec, ImplementsContract
=============================================================================
