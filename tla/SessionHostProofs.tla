------------------------- MODULE SessionHostProofs --------------------------
(* What holds of the session host for every set of tenants, calls and      *)
(* configurations.                                                         *)
EXTENDS SessionHost, FiniteSetTheorems, TLAPS

\* Every session is the one its registration made.
SessionsAreRegistered ==
    \A t \in Live :
        LET s == sessions[t] IN
        /\ s.gen \in 1..Len(registry)
        /\ registry[s.gen].tenant = t
        /\ registry[s.gen].config = s.config

\* Every turn is of a call of the session's tenant that was started; a
\* question was asked of this session, an answer is of a call that returned.
TurnsAreOwn ==
    \A t \in Live : \A i \in 1..Len(sessions[t].messages) :
        LET s == sessions[t]
            m == sessions[t].messages[i] IN
        /\ tenant[m.call] = t
        /\ pc[m.call] # "idle"
        /\ m.role = "User" => bornIn[m.call] = s.gen
        /\ m.role = "Assistant" => pc[m.call] = "ok"

\* Every request is of a registered session of its caller's tenant.
RequestsAreOwn ==
    \A r \in sent :
        /\ r.gen \in 1..Len(registry)
        /\ registry[r.gen].tenant = tenant[r.call]
        /\ registry[r.gen].config = r.config
        /\ \A i \in 1..Len(r.messages) :
              tenant[r.messages[i].call] = tenant[r.call]

IInv ==
    /\ TypeOK
    /\ SessionsAreRegistered
    /\ TurnsAreOwn
    /\ RequestsAreOwn

-----------------------------------------------------------------------------
\* The empty sequence is a sequence over every set.
LEMMA EmptyIsASeq == \A S : <<>> \in Seq(S)
OBVIOUS

\* Appending keeps every element where it was and adds one at the end.
LEMMA AppendFacts ==
    ASSUME NEW S, NEW q \in Seq(S), NEW x \in S
    PROVE  /\ Append(q, x) \in Seq(S)
           /\ Len(Append(q, x)) = Len(q) + 1
           /\ Len(q) \in Nat
           /\ \A i \in 1..Len(q) : Append(q, x)[i] = q[i]
           /\ Append(q, x)[Len(q) + 1] = x
           /\ \A i \in 1..Len(q) : q[i] \in S
OBVIOUS

\* Context::push keeps a session's identity and counters and appends a turn.
LEMMA PushFacts ==
    ASSUME NEW s \in Session, NEW m \in Turn
    PROVE  /\ Push(s, m) \in Session
           /\ Push(s, m).gen = s.gen
           /\ Push(s, m).config = s.config
           /\ Push(s, m).processed = s.processed
           /\ Push(s, m).messages = Append(s.messages, m)
<1>1. s.messages \in Seq(Turn)
  BY DEF Session
<1>2. Append(s.messages, m) \in Seq(Turn)
  BY <1>1
<1> QED
  BY <1>2 DEF Push, Session

\* A request built from a session has its identity and one message a turn.
LEMMA RequestFacts ==
    ASSUME NEW c \in Calls, NEW s \in Session
    PROVE  LET r == ToCompletionRequest(c, s) IN
           /\ r \in Request
           /\ r.call = c /\ r.gen = s.gen /\ r.config = s.config
           /\ Len(r.messages) = Len(s.messages)
           /\ \A i \in 1..Len(s.messages) :
                 r.messages[i].call = s.messages[i].call
<1> DEFINE chats == [i \in DOMAIN s.messages |-> ToChat(s.messages[i])]
<1>1. s.messages \in Seq(Turn) /\ DOMAIN s.messages = 1..Len(s.messages)
      /\ Len(s.messages) \in Nat
  BY DEF Session
<1>2. \A i \in 1..Len(s.messages) : ToChat(s.messages[i]) \in Chat
                                    /\ ToChat(s.messages[i]).call = s.messages[i].call
  <2> TAKE i \in 1..Len(s.messages)
  <2>1. s.messages[i] \in Turn
    BY <1>1
  <2> QED
    BY <2>1 DEF ToChat, Chat, Turn
<1>3. chats \in Seq(Chat) /\ Len(chats) = Len(s.messages)
      /\ \A i \in 1..Len(s.messages) : chats[i].call = s.messages[i].call
  BY <1>1, <1>2
<1> HIDE DEF chats
<1>4. ToCompletionRequest(c, s) = [call |-> c, gen |-> s.gen,
                                   config |-> s.config, messages |-> chats]
  BY DEF ToCompletionRequest, chats
<1> QED
  BY <1>3, <1>4 DEF Request, Session

\* The map after an insertion, a removal or a change of one session.
LEMMA MapFacts ==
    ASSUME Live \subseteq Tenants, sessions \in [Live -> Session],
           NEW t \in Tenants, NEW s \in Session
    PROVE  /\ DOMAIN Insert(sessions, t, s) = Live \cup {t}
           /\ Insert(sessions, t, s) \in [Live \cup {t} -> Session]
           /\ Insert(sessions, t, s)[t] = s
           /\ \A u \in Live \ {t} : Insert(sessions, t, s)[u] = sessions[u]
           /\ DOMAIN Without(sessions, t) = Live \ {t}
           /\ Without(sessions, t) \in [Live \ {t} -> Session]
           /\ \A u \in Live \ {t} : Without(sessions, t)[u] = sessions[u]
BY DEF Insert, Without, Live

-----------------------------------------------------------------------------
\* A new host, without tenants or requests, satisfies the invariant
\* (host.rs:79-86).
LEMMA IInvInit == Init => IInv
<1> SUFFICES ASSUME Init PROVE IInv
    OBVIOUS
<1>1. Live = {}
  BY DEF Init, Live
<1>2. Live \subseteq Tenants /\ sessions \in [Live -> Session]
  BY <1>1 DEF Init, Live
<1>3. registry \in Seq(Registration) /\ report \in [Tenants -> SUBSET Report]
  BY EmptyIsASeq DEF Init
<1>4. TypeOK
  BY <1>2, <1>3 DEF Init, TypeOK, Replies
<1> QED
  BY <1>1, <1>4 DEF Init, IInv, SessionsAreRegistered, TurnsAreOwn, RequestsAreOwn

\* A step that leaves the sessions, their history and the requests alone, and
\* moves calls only between states that are neither idle nor ok, keeps all
\* but the type.
LEMMA QuietStep ==
    ASSUME IInv, UNCHANGED <<sessions, tenant, sent, registry, bornIn>>,
           \A c \in Calls : /\ pc[c] # "idle" => pc'[c] # "idle"
                            /\ pc[c] = "ok" => pc'[c] = "ok"
    PROVE  /\ SessionsAreRegistered'
           /\ TurnsAreOwn'
           /\ RequestsAreOwn'
<1>1. SessionsAreRegistered' /\ RequestsAreOwn'
  BY DEF IInv, SessionsAreRegistered, RequestsAreOwn, Live
<1>2. TurnsAreOwn'
  <2> SUFFICES ASSUME NEW t \in Live, NEW i \in 1..Len(sessions[t].messages)
               PROVE  LET s == sessions[t]
                          m == sessions[t].messages[i] IN
                      /\ tenant[m.call] = t
                      /\ pc'[m.call] # "idle"
                      /\ m.role = "User" => bornIn[m.call] = s.gen
                      /\ m.role = "Assistant" => pc'[m.call] = "ok"
    BY DEF TurnsAreOwn, Live
  <2>1. sessions[t].messages \in Seq(Turn)
    BY DEF IInv, TypeOK, Session
  <2>2. sessions[t].messages[i] \in Turn
    BY <2>1
  <2>3. sessions[t].messages[i].call \in Calls
    BY <2>2 DEF Turn
  <2> QED
    BY <2>3 DEF IInv, TurnsAreOwn
<1> QED
  BY <1>1, <1>2

-----------------------------------------------------------------------------
(* One lemma for each action that changes the map or the requests.         *)

\* register_tenant adds an empty session numbered by its registration, so no
\* turn changes its owner (host.rs:197-213).
LEMMA RegisterKeepsIInv ==
    ASSUME IInv, NEW t \in Tenants, NEW config \in Configs,
           RegisterTenant(t, config)
    PROVE  IInv'
<1> DEFINE s == NewSession(t, config)
           e == [tenant |-> t, config |-> config]
<1>1. /\ sessions' = Insert(sessions, t, s)
      /\ registry' = Append(registry, e)
      /\ UNCHANGED <<connected, pc, tenant, reply, sent, probe, bornIn, report>>
      /\ t \notin Live
  BY DEF RegisterTenant, callVars, healthVars
<1>2. registry \in Seq(Registration) /\ e \in Registration
  BY DEF IInv, TypeOK, Registration
<1>3. /\ s \in Session
      /\ s.gen = Len(registry) + 1 /\ s.config = config /\ s.messages = <<>>
  BY <1>2, EmptyIsASeq DEF NewSession, NewContext, Session
<1>4. /\ registry' \in Seq(Registration)
      /\ Len(registry) \in Nat /\ Len(registry') = Len(registry) + 1
      /\ \A i \in 1..Len(registry) : registry'[i] = registry[i]
      /\ registry'[Len(registry) + 1] = e
  BY <1>1, <1>2, AppendFacts
<1> HIDE DEF s
<1>5. /\ Live' = Live \cup {t}
      /\ sessions' \in [Live' -> Session]
      /\ sessions'[t] = s
      /\ \A u \in Live : sessions'[u] = sessions[u]
  <2>1. Live \subseteq Tenants /\ sessions \in [Live -> Session]
    BY DEF IInv, TypeOK
  <2>2. /\ DOMAIN Insert(sessions, t, s) = Live \cup {t}
        /\ Insert(sessions, t, s) \in [Live \cup {t} -> Session]
        /\ Insert(sessions, t, s)[t] = s
        /\ \A u \in Live \ {t} : Insert(sessions, t, s)[u] = sessions[u]
    BY <1>3, <2>1, MapFacts
  <2>3. Live' = Live \cup {t}
    BY <1>1, <2>2 DEF Live
  <2> QED
    BY <1>1, <2>2, <2>3
<1>6. TypeOK'
  BY <1>1, <1>4, <1>5 DEF IInv, TypeOK
<1>7. SessionsAreRegistered'
  BY <1>3, <1>4, <1>5 DEF IInv, SessionsAreRegistered
<1>8. TurnsAreOwn'
  BY <1>1, <1>3, <1>5 DEF IInv, TurnsAreOwn
<1>9. RequestsAreOwn'
  BY <1>1, <1>4 DEF IInv, RequestsAreOwn
<1> QED
  BY <1>6, <1>7, <1>8, <1>9 DEF IInv

\* remove_tenant only takes a session away; requests already sent stay the
\* removed session's (host.rs:215-227).
LEMMA RemoveKeepsIInv ==
    ASSUME IInv, NEW t \in Tenants, RemoveTenant(t)
    PROVE  IInv'
<1>1. /\ sessions' = Without(sessions, t)
      /\ UNCHANGED <<connected, pc, tenant, reply, sent, probe, bornIn, report,
                     registry>>
  BY DEF RemoveTenant, callVars, healthVars
<1>2. /\ Live' = Live \ {t}
      /\ sessions' \in [Live' -> Session]
      /\ \A u \in Live' : sessions'[u] = sessions[u]
  BY <1>1 DEF Without, IInv, TypeOK, Live
<1>3. TypeOK'
  BY <1>1, <1>2 DEF IInv, TypeOK
<1> QED
  BY <1>1, <1>2, <1>3
  DEF IInv, SessionsAreRegistered, TurnsAreOwn, RequestsAreOwn

\* A session whose identity is kept and whose messages grow by one turn.
LEMMA AppendKeepsIInv ==
    ASSUME IInv, NEW c \in Calls, tenant[c] \in Live,
           NEW z \in Session, NEW m \in Turn,
           z.gen = sessions[tenant[c]].gen,
           z.config = sessions[tenant[c]].config,
           z.messages = Append(sessions[tenant[c]].messages, m),
           m.call = c,
           sessions' = [sessions EXCEPT ![tenant[c]] = z],
           pc' \in [Calls -> {"idle"} \cup InFlight \cup Final],
           bornIn' \in [Calls -> Nat],
           \A d \in Calls \ {c} : pc'[d] = pc[d] /\ bornIn'[d] = bornIn[d],
           pc[c] = "idle" \/ bornIn'[c] = bornIn[c],
           pc[c] # "ok",
           pc'[c] # "idle",
           m.role = "User" => bornIn'[c] = z.gen,
           m.role = "Assistant" => pc'[c] = "ok",
           UNCHANGED <<connected, tenant, reply, sent, probe, report, registry>>
    PROVE  IInv'
<1> DEFINE t == tenant[c]
<1>1. /\ Live' = Live
      /\ sessions' \in [Live' -> Session]
      /\ sessions'[t] = z
      /\ \A u \in Live \ {t} : sessions'[u] = sessions[u]
  BY DEF IInv, TypeOK, Live
<1>2. TypeOK'
  BY <1>1 DEF IInv, TypeOK
<1>3. SessionsAreRegistered' /\ RequestsAreOwn'
  BY <1>1 DEF IInv, SessionsAreRegistered, RequestsAreOwn
<1>4. TurnsAreOwn'
  <2>0. Live' = Live
    BY <1>1
  <2> SUFFICES ASSUME NEW u \in Live, NEW i \in 1..Len(sessions'[u].messages)
               PROVE  LET s == sessions'[u]
                          n == sessions'[u].messages[i] IN
                      /\ tenant[n.call] = u
                      /\ pc'[n.call] # "idle"
                      /\ n.role = "User" => bornIn'[n.call] = s.gen
                      /\ n.role = "Assistant" => pc'[n.call] = "ok"
    BY <2>0 DEF TurnsAreOwn
  <2>1. sessions[u].messages \in Seq(Turn) /\ sessions'[u].gen = sessions[u].gen
    BY <1>1 DEF IInv, TypeOK, Session
  <2>2. ASSUME i \in 1..Len(sessions[u].messages),
               sessions'[u].messages[i] = sessions[u].messages[i]
        PROVE  LET n == sessions'[u].messages[i] IN
               /\ tenant[n.call] = u
               /\ pc'[n.call] # "idle"
               /\ n.role = "User" => bornIn'[n.call] = sessions'[u].gen
               /\ n.role = "Assistant" => pc'[n.call] = "ok"
    <3> DEFINE n == sessions[u].messages[i]
    <3>1. n \in Turn
      BY <2>1, <2>2
    <3>2. n.call \in Calls
      BY <3>1 DEF Turn
    <3>3. /\ tenant[n.call] = u
          /\ pc[n.call] # "idle"
          /\ n.role = "User" => bornIn[n.call] = sessions[u].gen
          /\ n.role = "Assistant" => pc[n.call] = "ok"
      BY <2>2 DEF IInv, TurnsAreOwn
    <3>4. sessions'[u].messages[i] = n /\ sessions'[u].gen = sessions[u].gen
      BY <2>1, <2>2
    <3> HIDE DEF n
    <3>5. CASE n.call # c
      <4>1. pc'[n.call] = pc[n.call] /\ bornIn'[n.call] = bornIn[n.call]
        BY <3>2, <3>5
      <4> QED
        BY <3>3, <3>4, <4>1
    <3>6. CASE n.call = c
      <4>1. /\ bornIn'[n.call] = bornIn[n.call]
            /\ pc'[n.call] # "idle"
            /\ n.role # "Assistant"
        BY <3>3, <3>6
      <4> QED
        BY <3>3, <3>4, <4>1
    <3> QED
      BY <3>5, <3>6
  <2>3. CASE u # t
    BY <1>1, <2>2, <2>3
  <2>4. CASE u = t
    <3>1. sessions'[u].messages = Append(sessions[u].messages, m)
      BY <1>1, <2>4
    <3>2. CASE i \in 1..Len(sessions[u].messages)
      BY <2>1, <2>2, <3>1, <3>2, SMTT(30)
    <3>3. CASE i = Len(sessions[u].messages) + 1
      <4>1. sessions'[u].messages[i] = m
        BY <2>1, <3>1, <3>3
      <4> QED
        BY <1>1, <2>4, <4>1
    <3> DEFINE k == Len(sessions[u].messages)
    <3>4. k \in Nat /\ Len(sessions'[u].messages) = k + 1
      BY <2>1, <3>1, AppendFacts
    <3>5. i \in 1..k \/ i = k + 1
      <4> HIDE DEF k
      <4>1. i \in 1..(k + 1)
        BY <3>4
      <4> QED
        BY <3>4, <4>1
    <3> QED
      BY <3>2, <3>3, <3>5
  <2> QED
    BY <2>3, <2>4
<1> QED
  BY <1>2, <1>3, <1>4 DEF IInv

\* record_verification_failure changes a counter and no turn
\* (host.rs:155-161).
LEMMA FailureCountKeepsIInv ==
    ASSUME IInv, NEW t \in Tenants, RecordVerificationFailure(t)
    PROVE  IInv'
<1> DEFINE z == [sessions[t] EXCEPT !.failures = @ + 1]
<1>1. /\ t \in Live
      /\ sessions' = [sessions EXCEPT ![t] = z]
      /\ UNCHANGED <<connected, pc, tenant, reply, sent, probe, bornIn, report,
                     registry>>
  BY DEF RecordVerificationFailure, callVars, healthVars
<1>2. sessions[t] \in Session
  BY <1>1 DEF IInv, TypeOK
<1>3. /\ z \in Session /\ z.gen = sessions[t].gen
      /\ z.config = sessions[t].config /\ z.messages = sessions[t].messages
  BY <1>2 DEF Session
<1> HIDE DEF z
<1>4. /\ Live' = Live
      /\ sessions' \in [Live' -> Session]
      /\ sessions'[t] = z
      /\ \A u \in Live \ {t} : sessions'[u] = sessions[u]
  BY <1>1, <1>3 DEF IInv, TypeOK, Live
<1>5. TypeOK'
  BY <1>1, <1>4 DEF IInv, TypeOK
<1>6. SessionsAreRegistered' /\ RequestsAreOwn'
  BY <1>1, <1>3, <1>4 DEF IInv, SessionsAreRegistered, RequestsAreOwn
<1>7. TurnsAreOwn'
  BY <1>1, <1>3, <1>4 DEF IInv, TurnsAreOwn
<1> QED
  BY <1>5, <1>6, <1>7 DEF IInv

\* The first critical section puts the caller's turn into its own tenant's
\* session (host.rs:101-114).
LEMMA PushKeepsIInv ==
    ASSUME IInv, NEW c \in Calls, PushMessage(c)
    PROVE  IInv'
<1> DEFINE t == tenant[c]
<1>1. /\ pc[c] = "idle"
      /\ UNCHANGED <<connected, tenant, reply, sent, probe, report, registry>>
  BY DEF PushMessage, healthVars
<1>2. CASE t \notin Live
  <2>1. pc' = [pc EXCEPT ![c] = "not_found"] /\ UNCHANGED <<sessions, bornIn>>
    BY <1>2 DEF PushMessage
  <2>2. TypeOK'
    BY <1>1, <2>1 DEF IInv, TypeOK, Final, Failed, Live
  <2>3. \A d \in Calls : /\ pc[d] # "idle" => pc'[d] # "idle"
                         /\ pc[d] = "ok" => pc'[d] = "ok"
    BY <1>1, <2>1 DEF IInv, TypeOK
  <2> QED
    BY <1>1, <2>1, <2>2, <2>3, QuietStep DEF IInv
<1>3. CASE t \in Live
  <2> DEFINE old == sessions[t]
             counted == Counted(old)
             z == Push(counted, UserTurn(c))
  <2>1. /\ sessions' = [sessions EXCEPT ![t] = z]
        /\ bornIn' = [bornIn EXCEPT ![c] = old.gen]
        /\ pc' = [pc EXCEPT ![c] = "pushed"]
    BY <1>3 DEF PushMessage
  <2>2. old \in Session
    BY <1>3 DEF IInv, TypeOK
  <2>3. /\ counted \in Session /\ counted.gen = old.gen
        /\ counted.config = old.config /\ counted.messages = old.messages
    BY <2>2 DEF Session, Counted
  <2>4. /\ UserTurn(c) \in Turn /\ UserTurn(c).call = c
        /\ UserTurn(c).role = "User"
    BY DEF UserTurn, Turn, Replies
  <2> HIDE DEF counted
  <2>5. /\ z \in Session /\ z.gen = old.gen /\ z.config = old.config
        /\ z.messages = Append(old.messages, UserTurn(c))
    BY <2>3, <2>4, PushFacts
  <2> HIDE DEF z
  <2>6. old.gen \in Nat
    BY <2>2 DEF Session
  <2>7. /\ bornIn' \in [Calls -> Nat] /\ bornIn'[c] = old.gen
        /\ pc' \in [Calls -> {"idle"} \cup InFlight \cup Final]
        /\ pc'[c] = "pushed"
        /\ \A d \in Calls \ {c} : pc'[d] = pc[d] /\ bornIn'[d] = bornIn[d]
    BY <2>1, <2>6 DEF IInv, TypeOK, InFlight
  <2> QED
    BY <1>1, <1>3, <2>1, <2>4, <2>5, <2>7, AppendKeepsIInv
<1> QED
  BY <1>2, <1>3

\* The second critical section sends a request whose turns and configuration
\* are those of the caller's tenant's session (host.rs:116-122).
LEMMA BuildKeepsIInv ==
    ASSUME IInv, NEW c \in Calls, BuildRequest(c)
    PROVE  IInv'
<1> DEFINE t == tenant[c]
           r == ToCompletionRequest(c, sessions[t])
<1>1. /\ pc[c] = "pushed"
      /\ UNCHANGED <<sessions, connected, tenant, reply, bornIn, probe, report,
                     registry>>
  BY DEF BuildRequest, healthVars
<1>2. /\ pc' \in [Calls -> {"idle"} \cup InFlight \cup Final]
      /\ \A d \in Calls : /\ pc[d] # "idle" => pc'[d] # "idle"
                          /\ pc[d] = "ok" => pc'[d] = "ok"
  BY <1>1 DEF BuildRequest, IInv, TypeOK, InFlight, Final, Failed
<1>3. CASE UNCHANGED sent
  <2>1. TypeOK'
    BY <1>1, <1>2, <1>3 DEF IInv, TypeOK, Live
  <2> QED
    BY <1>1, <1>2, <1>3, <2>1, QuietStep DEF IInv
<1>4. CASE t \in Live /\ sent' = sent \cup {r}
  <2>1. sessions[t] \in Session
    BY <1>4 DEF IInv, TypeOK
  <2>2. /\ r \in Request
        /\ r.call = c /\ r.gen = sessions[t].gen /\ r.config = sessions[t].config
        /\ Len(r.messages) = Len(sessions[t].messages)
        /\ \A i \in 1..Len(sessions[t].messages) :
              r.messages[i].call = sessions[t].messages[i].call
    BY <2>1, RequestFacts
  <2> HIDE DEF r
  <2>3. TypeOK'
    BY <1>1, <1>2, <1>4, <2>2 DEF IInv, TypeOK, Live
  <2>4. SessionsAreRegistered'
    BY <1>1 DEF IInv, SessionsAreRegistered, Live
  <2>5. TurnsAreOwn'
    <3> SUFFICES ASSUME NEW u \in Live, NEW i \in 1..Len(sessions[u].messages)
                 PROVE  LET s == sessions[u]
                            m == sessions[u].messages[i] IN
                        /\ tenant[m.call] = u
                        /\ pc'[m.call] # "idle"
                        /\ m.role = "User" => bornIn[m.call] = s.gen
                        /\ m.role = "Assistant" => pc'[m.call] = "ok"
      BY <1>1 DEF TurnsAreOwn, Live
    <3>1. sessions[u].messages \in Seq(Turn)
      BY DEF IInv, TypeOK, Session
    <3>2. sessions[u].messages[i] \in Turn
      BY <3>1
    <3>3. sessions[u].messages[i].call \in Calls
      BY <3>2 DEF Turn
    <3> QED
      BY <1>2, <3>3 DEF IInv, TurnsAreOwn
  <2>6. RequestsAreOwn'
    <3>1. \A i \in 1..Len(r.messages) : tenant[r.messages[i].call] = tenant[r.call]
      BY <1>4, <2>2 DEF IInv, TurnsAreOwn
    <3>2. /\ r.gen \in 1..Len(registry)
          /\ registry[r.gen].tenant = tenant[r.call]
          /\ registry[r.gen].config = r.config
      BY <1>4, <2>2 DEF IInv, SessionsAreRegistered
    <3> QED
      BY <1>1, <1>4, <3>1, <3>2 DEF IInv, RequestsAreOwn
  <2> QED
    BY <2>3, <2>4, <2>5, <2>6 DEF IInv
<1> QED
  BY <1>3, <1>4 DEF BuildRequest

\* The last critical section puts the answer into the session of the tenant
\* that asked, whichever registration that is by now (host.rs:126-149).
LEMMA AppendResponseKeepsIInv ==
    ASSUME IInv, NEW c \in Calls, AppendResponse(c)
    PROVE  IInv'
<1> DEFINE t == tenant[c]
           m == AssistantTurn(c, sessions[t])
           z == Push(sessions[t], m)
<1>1. /\ pc[c] = "answered" /\ pc' = [pc EXCEPT ![c] = "ok"]
      /\ UNCHANGED <<connected, tenant, reply, sent, bornIn, probe, report,
                     registry>>
  BY DEF AppendResponse, healthVars
<1>2. /\ pc' \in [Calls -> {"idle"} \cup InFlight \cup Final]
      /\ pc'[c] = "ok"
      /\ \A d \in Calls \ {c} : pc'[d] = pc[d]
  BY <1>1 DEF IInv, TypeOK, Final
<1>3. CASE UNCHANGED sessions
  <2>1. TypeOK'
    BY <1>1, <1>2, <1>3 DEF IInv, TypeOK, Live
  <2>2. \A d \in Calls : /\ pc[d] # "idle" => pc'[d] # "idle"
                         /\ pc[d] = "ok" => pc'[d] = "ok"
    BY <1>1, <1>2
  <2> QED
    BY <1>1, <1>3, <2>1, <2>2, QuietStep DEF IInv
<1>4. CASE t \in Live /\ sessions' = [sessions EXCEPT ![t] = z]
  <2>1. sessions[t] \in Session
    BY <1>4 DEF IInv, TypeOK
  <2>2. sessions[t].processed \in Nat /\ reply[c] \in Replies
    BY <2>1 DEF IInv, TypeOK, Session
  <2>3. m \in Turn /\ m.call = c /\ m.role = "Assistant"
    BY <2>2 DEF AssistantTurn, Turn
  <2> HIDE DEF m
  <2>4. /\ z \in Session /\ z.gen = sessions[t].gen
        /\ z.config = sessions[t].config
        /\ z.messages = Append(sessions[t].messages, m)
    BY <2>1, <2>3, PushFacts
  <2> HIDE DEF z
  <2>5. bornIn' \in [Calls -> Nat]
    BY <1>1 DEF IInv, TypeOK
  <2> QED
    BY <1>1, <1>2, <1>4, <2>3, <2>4, <2>5, AppendKeepsIInv
<1> QED
  BY <1>3, <1>4 DEF AppendResponse

\* The provider's answers, a dropped future and health move no turn.
LEMMA OtherStepsKeepIInv ==
    ASSUME IInv,
           \/ \E c \in Calls : ProviderReplies(c) \/ ProviderFails(c) \/ Cancel(c)
           \/ \E t \in Tenants : StartHealth(t) \/ FinishHealth(t)
           \/ \E b \in BOOLEAN : SetConnected(b)
           \/ UNCHANGED vars
    PROVE  IInv'
<1>1. ASSUME NEW c \in Calls, ProviderReplies(c) \/ ProviderFails(c) \/ Cancel(c)
      PROVE  IInv'
  <2>1. /\ pc[c] \in InFlight
        /\ pc' \in [Calls -> {"idle"} \cup InFlight \cup Final]
        /\ pc'[c] # "idle"
        /\ \A d \in Calls \ {c} : pc'[d] = pc[d]
    BY <1>1 DEF ProviderReplies, ProviderFails, Cancel, IInv, TypeOK, InFlight,
                Final, Failed
  <2>2. UNCHANGED <<sessions, tenant, sent, bornIn, registry, connected, probe,
                    report>>
    BY <1>1 DEF ProviderReplies, ProviderFails, Cancel, healthVars
  <2>3. reply' \in [Calls -> Replies]
    BY <1>1 DEF ProviderReplies, ProviderFails, Cancel, IInv, TypeOK
  <2>4. TypeOK'
    BY <2>1, <2>2, <2>3 DEF IInv, TypeOK, Live
  <2>5. \A d \in Calls : /\ pc[d] # "idle" => pc'[d] # "idle"
                         /\ pc[d] = "ok" => pc'[d] = "ok"
    BY <2>1 DEF InFlight
  <2> QED
    BY <2>2, <2>4, <2>5, QuietStep DEF IInv
<1>2. ASSUME NEW t \in Tenants, StartHealth(t) PROVE IInv'
  <2>1. /\ UNCHANGED <<sessions, pc, tenant, reply, sent, bornIn, registry,
                       connected, report>>
        /\ probe' = {[tenant |-> t, connected |-> connected]}
    BY <1>2 DEF StartHealth, callVars
  <2>2. TypeOK'
    BY <2>1 DEF IInv, TypeOK, Live
  <2> QED
    BY <2>1, <2>2, QuietStep DEF IInv
<1>3. ASSUME NEW b \in BOOLEAN, SetConnected(b) PROVE IInv'
  <2>1. /\ UNCHANGED <<sessions, pc, tenant, reply, sent, bornIn, registry,
                       probe, report>>
        /\ connected' = b
    BY <1>3 DEF SetConnected, callVars
  <2>2. TypeOK'
    BY <2>1 DEF IInv, TypeOK, Live
  <2> QED
    BY <2>1, <2>2, QuietStep DEF IInv
<1>4. ASSUME NEW t \in Tenants, FinishHealth(t) PROVE IInv'
  <2>1. /\ UNCHANGED <<sessions, pc, tenant, reply, sent, bornIn, registry,
                       connected>>
        /\ probe' = {}
    BY <1>4 DEF FinishHealth, callVars
  <2>2. report' \in [Tenants -> SUBSET Report]
    <3>1. \/ UNCHANGED report
          \/ /\ t \in Live
             /\ report' = [report EXCEPT ![t] = {Health(sessions[t])}]
      BY <1>4 DEF FinishHealth
    <3>2. report \in [Tenants -> SUBSET Report]
      BY DEF IInv, TypeOK
    <3>3. CASE t \in Live
      <4>1. sessions[t] \in Session
        BY <3>3 DEF IInv, TypeOK
      <4>2. Health(sessions[t]) \in Report
        BY <4>1 DEF Health, Report, Session
      <4> QED
        BY <3>1, <3>2, <4>2
    <3> QED
      BY <3>1, <3>2, <3>3
  <2>3. TypeOK'
    BY <2>1, <2>2 DEF IInv, TypeOK, Live
  <2> QED
    BY <2>1, <2>3, QuietStep DEF IInv
<1>5. CASE UNCHANGED vars
  BY <1>5 DEF vars, IInv, TypeOK, SessionsAreRegistered, TurnsAreOwn,
              RequestsAreOwn, Live
<1> QED
  BY <1>1, <1>2, <1>3, <1>4, <1>5

\* Every step of the host keeps the invariant: one case for each action.
LEMMA IInvNext == IInv /\ [Next]_vars => IInv'
<1> SUFFICES ASSUME IInv, [Next]_vars PROVE IInv'
    OBVIOUS
<1>1. ASSUME NEW c \in Calls, CallStep(c) \/ Cancel(c) PROVE IInv'
  BY <1>1, PushKeepsIInv, BuildKeepsIInv, AppendResponseKeepsIInv,
     OtherStepsKeepIInv DEF CallStep
<1>2. ASSUME NEW t \in Tenants, NEW config \in Configs, RegisterTenant(t, config)
      PROVE  IInv'
  BY <1>2, RegisterKeepsIInv
<1>3. ASSUME NEW t \in Tenants, RemoveTenant(t)
      PROVE  IInv'
  BY <1>3, RemoveKeepsIInv
<1>4. ASSUME NEW t \in Probed,
             RecordVerificationFailure(t) \/ StartHealth(t) \/ FinishHealth(t)
      PROVE  IInv'
  BY <1>4, ProbedAreTenants, FailureCountKeepsIInv, OtherStepsKeepIInv
<1> QED
  BY <1>1, <1>2, <1>3, <1>4, OtherStepsKeepIInv DEF Next

-----------------------------------------------------------------------------
\* The host's state keeps its type in every interleaving of its calls
\* (host.rs:14-21, 67-72).
THEOREM TypeCorrect == Spec => []TypeOK
<1>1. IInv => TypeOK
  BY DEF IInv
<1> QED
  BY IInvInit, IInvNext, <1>1, PTL DEF Spec

\* A tenant's context, and every request built from it, holds only turns of
\* that tenant's calls, the questions only those asked of this session, and
\* the configuration is the session's own, for any number of tenants, calls
\* and re-registrations (host.rs:61-66, session/mod.rs:38-39).
THEOREM TenantsAreIsolated == Spec => []TenantIsolation
<1>1. IInv => TenantIsolation
  <2> SUFFICES ASSUME IInv PROVE TenantIsolation
      OBVIOUS
  <2>1. ASSUME NEW t \in Live, NEW i \in DOMAIN sessions[t].messages
        PROVE  /\ tenant[sessions[t].messages[i].call] = t
               /\ i \in Questions(sessions[t]) =>
                     bornIn[sessions[t].messages[i].call] = sessions[t].gen
    <3>1. sessions[t].messages \in Seq(Turn)
      BY DEF IInv, TypeOK, Session
    <3>2. i \in 1..Len(sessions[t].messages)
      BY <3>1, <2>1
    <3> QED
      BY <3>2 DEF IInv, TurnsAreOwn, Questions
  <2>2. ASSUME NEW r \in sent
        PROVE  /\ registry[r.gen].tenant = tenant[r.call]
               /\ registry[r.gen].config = r.config
               /\ \A i \in DOMAIN r.messages :
                      tenant[r.messages[i].call] = tenant[r.call]
    <3>1. r.messages \in Seq(Chat)
      BY DEF IInv, TypeOK, Request
    <3>2. DOMAIN r.messages = 1..Len(r.messages)
      BY <3>1
    <3> QED
      BY <3>2 DEF IInv, RequestsAreOwn
  <2> QED
    BY <2>1, <2>2 DEF TenantIsolation
<1> QED
  BY IInvInit, IInvNext, <1>1, PTL DEF Spec

-----------------------------------------------------------------------------
(* What a context, its counters and the requests made from it look like    *)
(* after any interleaving of calls, registrations and removals, and that   *)
(* the host implements TenantLog.                                          *)

(* What a step does to the sessions and the calls: one of these.  Each      *)
(* names the code it stands for.                                            *)

\* register_tenant
Adds(t) ==
    /\ t \in Tenants \ Live
    /\ Live' = Live \cup {t}
    /\ \A u \in Live : sessions'[u] = sessions[u]
    /\ sessions'[t] \in Session
    /\ sessions'[t].gen = Len(registry) + 1
    /\ sessions'[t].messages = <<>>
    /\ sessions'[t].processed = 0
    /\ Len(registry') = Len(registry) + 1
    /\ UNCHANGED <<pc, tenant, sent, bornIn, report>>

\* remove_tenant
Drops(t) ==
    /\ t \in Live
    /\ Live' = Live \ {t}
    /\ \A u \in Live' : sessions'[u] = sessions[u]
    /\ UNCHANGED <<pc, tenant, sent, bornIn, report, registry>>

\* The session of a call's tenant becomes z, with one more turn.
Extends(c, z, m) ==
    LET s == sessions[tenant[c]] IN
    /\ tenant[c] \in Live
    /\ Live' = Live
    /\ \A u \in Live \ {tenant[c]} : sessions'[u] = sessions[u]
    /\ sessions'[tenant[c]] = z
    /\ z \in Session /\ m \in Turn
    /\ z.messages = Append(s.messages, m)
    /\ z.gen = s.gen /\ z.config = s.config /\ z.failures = s.failures
    /\ UNCHANGED <<tenant, sent, report, registry>>

\* The first critical section of process_message
Asks(c) ==
    /\ pc[c] = "idle"
    /\ \E z \in Session : /\ Extends(c, z, UserTurn(c))
                          /\ z.processed = sessions[tenant[c]].processed + 1
    /\ pc' = [pc EXCEPT ![c] = "pushed"]
    /\ bornIn' = [bornIn EXCEPT ![c] = sessions[tenant[c]].gen]

\* The last one
Responds(c) ==
    LET s == sessions[tenant[c]] IN
    /\ pc[c] = "answered"
    /\ \E z \in Session : /\ Extends(c, z, AssistantTurn(c, s))
                          /\ z.processed = s.processed
    /\ pc' = [pc EXCEPT ![c] = "ok"]
    /\ UNCHANGED bornIn

\* record_verification_failure
CountsFailure(t) ==
    /\ t \in Live
    /\ Live' = Live
    /\ \A u \in Live \ {t} : sessions'[u] = sessions[u]
    /\ sessions'[t].messages = sessions[t].messages
    /\ sessions'[t].gen = sessions[t].gen
    /\ sessions'[t].config = sessions[t].config
    /\ sessions'[t].processed = sessions[t].processed
    /\ sessions'[t].failures = sessions[t].failures + 1
    /\ UNCHANGED <<pc, tenant, sent, bornIn, report, registry>>

\* The second critical section
Snapshots(c) ==
    /\ pc[c] = "pushed"
    /\ tenant[c] \in Live
    /\ sent' = sent \cup {ToCompletionRequest(c, sessions[tenant[c]])}
    /\ pc' = [pc EXCEPT ![c] = "waiting"]
    /\ UNCHANGED <<sessions, tenant, bornIn, report, registry>>

\* A call goes on, or ends, without a change of a session.
Moves(c) ==
    /\ \/ pc[c] = "waiting" /\ pc' = [pc EXCEPT ![c] = "answered"]
       \/ pc[c] \in InFlight /\ \E q \in Failed : pc' = [pc EXCEPT ![c] = q]
       \/ pc[c] = "idle" /\ tenant[c] \notin Live /\ pc' = [pc EXCEPT ![c] = "not_found"]
       \/ pc[c] = "answered" /\ tenant[c] \notin Live /\ pc' = [pc EXCEPT ![c] = "ok"]
    /\ UNCHANGED <<sessions, tenant, sent, bornIn, report, registry>>

\* health
Reports ==
    /\ \E t \in Live : report' = [report EXCEPT ![t] = {Health(sessions[t])}]
    /\ UNCHANGED <<sessions, pc, tenant, sent, bornIn, registry>>

Rests == UNCHANGED <<sessions, pc, tenant, sent, bornIn, report, registry>>

\* The session a push makes, and the counter beside it
LEMMA PushedFacts ==
    ASSUME NEW s \in Session, NEW m \in Turn
    PROVE  /\ Push(s, m) \in Session
           /\ Push(s, m).messages = Append(s.messages, m)
           /\ Push(s, m).gen = s.gen /\ Push(s, m).config = s.config
           /\ Push(s, m).processed = s.processed /\ Push(s, m).failures = s.failures
           /\ Counted(s) \in Session
           /\ Counted(s).messages = s.messages
           /\ Counted(s).gen = s.gen /\ Counted(s).config = s.config
           /\ Counted(s).processed = s.processed + 1 /\ Counted(s).failures = s.failures
<1>1. Push(s, m) \in Session /\ Push(s, m).messages = Append(s.messages, m)
  BY PushFacts
<1>2. Push(s, m).failures = s.failures
  BY DEF Push, Session
<1>3. /\ Counted(s) \in Session
      /\ Counted(s).messages = s.messages
      /\ Counted(s).gen = s.gen /\ Counted(s).config = s.config
      /\ Counted(s).processed = s.processed + 1 /\ Counted(s).failures = s.failures
  BY DEF Counted, Session
<1>4. /\ Push(s, m).gen = s.gen /\ Push(s, m).config = s.config
      /\ Push(s, m).processed = s.processed
  BY PushFacts
<1> QED
  BY <1>1, <1>2, <1>3, <1>4

\* Every step has one of the effects above.
LEMMA StepEffects ==
    ASSUME IInv, [Next]_vars
    PROVE  \/ \E t \in Tenants : Adds(t) \/ Drops(t) \/ CountsFailure(t)
           \/ \E c \in Calls : Asks(c) \/ Responds(c) \/ Snapshots(c) \/ Moves(c)
           \/ Reports
           \/ Rests
<1>types. /\ Live \subseteq Tenants /\ sessions \in [Live -> Session]
          /\ registry \in Seq(Registration) /\ reply \in [Calls -> Replies]
          /\ tenant \in [Calls -> Tenants]
  BY DEF IInv, TypeOK
<1>1. ASSUME NEW t \in Tenants, NEW config \in Configs, RegisterTenant(t, config)
      PROVE  Adds(t)
  <2> DEFINE s == NewSession(t, config)
             e == [tenant |-> t, config |-> config]
  <2>1. /\ t \notin Live /\ sessions' = Insert(sessions, t, s)
        /\ registry' = Append(registry, e)
        /\ UNCHANGED <<pc, tenant, sent, bornIn, report>>
    BY <1>1 DEF RegisterTenant, callVars, healthVars
  <2>2. e \in Registration
    BY DEF Registration
  <2>3. Len(registry) \in Nat /\ Len(registry') = Len(registry) + 1
    BY <1>types, <2>1, <2>2, AppendFacts
  <2>4. /\ s \in Session /\ s.gen = Len(registry) + 1 /\ s.messages = <<>>
        /\ s.processed = 0
    BY <2>3, EmptyIsASeq DEF NewSession, NewContext, Session
  <2> HIDE DEF s
  <2>5. /\ DOMAIN Insert(sessions, t, s) = Live \cup {t}
        /\ Insert(sessions, t, s)[t] = s
        /\ \A u \in Live \ {t} : Insert(sessions, t, s)[u] = sessions[u]
    BY <1>types, <2>4, MapFacts
  <2>6. Live' = Live \cup {t}
    BY <2>1, <2>5 DEF Live
  <2> QED
    BY <2>1, <2>3, <2>4, <2>5, <2>6 DEF Adds
<1>2. ASSUME NEW t \in Tenants, RemoveTenant(t)
      PROVE  Drops(t)
  <2>1. /\ t \in Live /\ sessions' = Without(sessions, t)
        /\ UNCHANGED <<pc, tenant, sent, bornIn, report, registry>>
    BY <1>2 DEF RemoveTenant, callVars, healthVars
  <2>2. Live' = Live \ {t} /\ \A u \in Live' : sessions'[u] = sessions[u]
    BY <2>1 DEF Without, Live
  <2> QED
    BY <2>1, <2>2 DEF Drops
<1>3. ASSUME NEW t \in Tenants, RecordVerificationFailure(t)
      PROVE  CountsFailure(t)
  <2> DEFINE z == [sessions[t] EXCEPT !.failures = @ + 1]
  <2>1. /\ t \in Live /\ sessions' = [sessions EXCEPT ![t] = z]
        /\ UNCHANGED <<pc, tenant, sent, bornIn, report, registry>>
    BY <1>3 DEF RecordVerificationFailure, callVars, healthVars
  <2>2. sessions[t] \in Session
    BY <1>types, <2>1
  <2>3. /\ z.messages = sessions[t].messages /\ z.gen = sessions[t].gen
        /\ z.config = sessions[t].config /\ z.processed = sessions[t].processed
        /\ z.failures = sessions[t].failures + 1
    BY <2>2 DEF Session
  <2> HIDE DEF z
  <2>4. /\ Live' = Live /\ sessions'[t] = z
        /\ \A u \in Live \ {t} : sessions'[u] = sessions[u]
    BY <1>types, <2>1 DEF Live
  <2> QED
    BY <2>1, <2>3, <2>4 DEF CountsFailure
<1>4. ASSUME NEW c \in Calls, PushMessage(c)
      PROVE  Asks(c) \/ Moves(c)
  <2> DEFINE t == tenant[c]
  <2>1. CASE t \notin Live
    BY <1>4, <2>1 DEF PushMessage, Moves, healthVars
  <2>2. CASE t \in Live
    <3> DEFINE counted == Counted(sessions[t])
               z == Push(counted, UserTurn(c))
    <3>1. /\ pc[c] = "idle" /\ sessions' = [sessions EXCEPT ![t] = z]
          /\ bornIn' = [bornIn EXCEPT ![c] = sessions[t].gen]
          /\ pc' = [pc EXCEPT ![c] = "pushed"]
          /\ UNCHANGED <<tenant, sent, report, registry>>
      BY <1>4, <2>2 DEF PushMessage, healthVars
    <3>2. sessions[t] \in Session /\ UserTurn(c) \in Turn
      BY <1>types, <2>2 DEF UserTurn, Turn, Replies
    <3>3. /\ counted \in Session /\ counted.messages = sessions[t].messages
          /\ counted.gen = sessions[t].gen /\ counted.config = sessions[t].config
          /\ counted.processed = sessions[t].processed + 1
          /\ counted.failures = sessions[t].failures
      BY <3>2, PushedFacts
    <3> HIDE DEF counted
    <3>4. /\ z \in Session /\ z.messages = Append(sessions[t].messages, UserTurn(c))
          /\ z.gen = sessions[t].gen /\ z.config = sessions[t].config
          /\ z.processed = sessions[t].processed + 1
          /\ z.failures = sessions[t].failures
      BY <3>2, <3>3, PushedFacts
    <3> HIDE DEF z
    <3>5. /\ Live' = Live /\ sessions'[t] = z
          /\ \A u \in Live \ {t} : sessions'[u] = sessions[u]
      BY <1>types, <2>2, <3>1 DEF Live
    <3> QED
      BY <2>2, <3>1, <3>2, <3>4, <3>5 DEF Asks, Extends
  <2> QED
    BY <2>1, <2>2
<1>5. ASSUME NEW c \in Calls, AppendResponse(c)
      PROVE  Responds(c) \/ Moves(c)
  <2> DEFINE t == tenant[c]
  <2>1. CASE t \notin Live
    BY <1>5, <2>1 DEF AppendResponse, Moves, healthVars
  <2>2. CASE t \in Live
    <3> DEFINE m == AssistantTurn(c, sessions[t])
               z == Push(sessions[t], m)
    <3>1. /\ pc[c] = "answered" /\ sessions' = [sessions EXCEPT ![t] = z]
          /\ pc' = [pc EXCEPT ![c] = "ok"]
          /\ UNCHANGED <<tenant, sent, bornIn, report, registry>>
      BY <1>5, <2>2 DEF AppendResponse, healthVars
    <3>2. sessions[t] \in Session
      BY <1>types, <2>2
    <3>3. m \in Turn
      BY <1>types, <3>2 DEF AssistantTurn, Turn, Session
    <3> HIDE DEF m
    <3>4. /\ z \in Session /\ z.messages = Append(sessions[t].messages, m)
          /\ z.gen = sessions[t].gen /\ z.config = sessions[t].config
          /\ z.processed = sessions[t].processed
          /\ z.failures = sessions[t].failures
      BY <3>2, <3>3, PushedFacts
    <3> HIDE DEF z
    <3>5. /\ Live' = Live /\ sessions'[t] = z
          /\ \A u \in Live \ {t} : sessions'[u] = sessions[u]
      BY <1>types, <2>2, <3>1 DEF Live
    <3> QED
      BY <2>2, <3>1, <3>3, <3>4, <3>5 DEF Responds, Extends, m
  <2> QED
    BY <2>1, <2>2
<1>6. ASSUME NEW c \in Calls, BuildRequest(c)
      PROVE  Snapshots(c) \/ Moves(c)
  BY <1>6 DEF BuildRequest, Snapshots, Moves, InFlight, Failed, healthVars
<1>7. ASSUME NEW c \in Calls, ProviderReplies(c) \/ ProviderFails(c) \/ Cancel(c)
      PROVE  Moves(c)
  BY <1>7 DEF ProviderReplies, ProviderFails, Cancel, Moves, InFlight, Failed, healthVars
<1>8. ASSUME NEW t \in Probed, FinishHealth(t)
      PROVE  Reports \/ Rests
  BY <1>8 DEF FinishHealth, Reports, Rests, callVars
<1>9. ASSUME \/ UNCHANGED vars
             \/ \E t \in Probed : StartHealth(t)
             \/ \E b \in BOOLEAN : SetConnected(b)
      PROVE  Rests
  BY <1>9 DEF StartHealth, SetConnected, Rests, vars, callVars
<1> QED
  BY <1>1, <1>2, <1>3, <1>4, <1>5, <1>6, <1>7, <1>8, <1>9, ProbedAreTenants
     DEF Next, CallStep

-----------------------------------------------------------------------------
\* No session changes but by being removed, and no question is asked.
Stays ==
    /\ Live' \subseteq Live
    /\ \A u \in Live' : /\ sessions'[u].messages = sessions[u].messages
                        /\ sessions'[u].gen = sessions[u].gen
                        /\ sessions'[u].processed = sessions[u].processed
    /\ UNCHANGED <<tenant, bornIn, registry>>
    /\ \A d \in Calls : /\ pc[d] # "idle" => pc'[d] # "idle"
                        /\ pc[d] = "ok" => pc'[d] = "ok"

\* A step adds a session, asks, answers, or leaves the contexts as they are.
LEMMA FourEffects ==
    ASSUME IInv, [Next]_vars
    PROVE  \/ \E t \in Tenants : Adds(t)
           \/ \E c \in Calls : Asks(c)
           \/ \E c \in Calls : Responds(c)
           \/ Stays
<1>types. pc \in [Calls -> {"idle"} \cup InFlight \cup Final]
  BY DEF IInv, TypeOK
<1>1. ASSUME NEW t \in Tenants, Drops(t) \/ CountsFailure(t)
      PROVE  Stays
  BY <1>1 DEF Drops, CountsFailure, Stays
<1>2. ASSUME NEW c \in Calls, Snapshots(c) \/ Moves(c)
      PROVE  Stays
  <2>1. Live' = Live /\ UNCHANGED <<sessions, tenant, bornIn, registry>>
    BY <1>2 DEF Snapshots, Moves, Live
  <2>2. \A d \in Calls : /\ pc[d] # "idle" => pc'[d] # "idle"
                         /\ pc[d] = "ok" => pc'[d] = "ok"
    BY <1>types, <1>2 DEF Snapshots, Moves, InFlight, Failed
  <2> QED
    BY <2>1, <2>2 DEF Stays
<1>3. ASSUME Reports \/ Rests
      PROVE  Stays
  BY <1>3 DEF Reports, Rests, Stays, Live
<1> QED
  BY <1>1, <1>2, <1>3, StepEffects

\* The turns of a session
LEMMA SessionFacts ==
    ASSUME NEW s \in Session
    PROVE  /\ Len(s.messages) \in Nat
           /\ DOMAIN s.messages = 1..Len(s.messages)
           /\ \A i \in 1..Len(s.messages) : /\ s.messages[i] \in Turn
                                            /\ s.messages[i].call \in Calls
                                            /\ s.messages[i].role \in {"User", "Assistant"}
                                            /\ s.messages[i].id \in Nat
           /\ s.gen \in Nat /\ s.processed \in Nat /\ s.failures \in Nat
           /\ Questions(s) = {i \in 1..Len(s.messages) : s.messages[i].role = "User"}
           /\ Answers(s) = {i \in 1..Len(s.messages) : s.messages[i].role = "Assistant"}
<1>1. s.messages \in Seq(Turn) /\ s.gen \in Nat /\ s.processed \in Nat /\ s.failures \in Nat
  BY DEF Session
<1>2. DOMAIN s.messages = 1..Len(s.messages) /\ Len(s.messages) \in Nat
  BY <1>1
<1>3. \A i \in 1..Len(s.messages) : s.messages[i] \in Turn
  BY <1>1
<1> QED
  BY <1>1, <1>2, <1>3 DEF Turn, Questions, Answers

\* A session extended by a turn: where its turns, questions and answers are.
LEMMA ExtendedFacts ==
    ASSUME NEW s \in Session, NEW z \in Session, NEW m \in Turn,
           z.messages = Append(s.messages, m),
           NEW n, n = Len(s.messages)
    PROVE  /\ n \in Nat /\ Len(z.messages) = n + 1
           /\ \A i \in 1..n : z.messages[i] = s.messages[i]
           /\ z.messages[n + 1] = m
           /\ m.role = "User" => /\ Questions(z) = Questions(s) \cup {n + 1}
                                /\ Answers(z) = Answers(s)
           /\ m.role = "Assistant" => /\ Questions(z) = Questions(s)
                                     /\ Answers(z) = Answers(s) \cup {n + 1}
           /\ Questions(s) \subseteq 1..n /\ Answers(s) \subseteq 1..n
<1>1. /\ n \in Nat /\ Len(z.messages) = n + 1
      /\ \A i \in 1..n : z.messages[i] = s.messages[i]
      /\ z.messages[n + 1] = m
  <2>1. s.messages \in Seq(Turn)
    BY DEF Session
  <2> QED
    BY <2>1, AppendFacts
<1>2. m.role \in {"User", "Assistant"}
  BY DEF Turn
<1>3. /\ Questions(s) = {i \in 1..n : s.messages[i].role = "User"}
      /\ Answers(s) = {i \in 1..n : s.messages[i].role = "Assistant"}
      /\ Questions(z) = {i \in 1..(n + 1) : z.messages[i].role = "User"}
      /\ Answers(z) = {i \in 1..(n + 1) : z.messages[i].role = "Assistant"}
  BY <1>1, SessionFacts
<1>4. 1..(n + 1) = (1..n) \cup {n + 1}
  BY <1>1
<1>5. m.role = "User" => /\ Questions(z) = Questions(s) \cup {n + 1}
                         /\ Answers(z) = Answers(s)
  BY <1>1, <1>3, <1>4
<1>6. m.role = "Assistant" => /\ Questions(z) = Questions(s)
                              /\ Answers(z) = Answers(s) \cup {n + 1}
  BY <1>1, <1>2, <1>3, <1>4
<1> QED
  BY <1>1, <1>3, <1>5, <1>6

\* Session s of tenant t becomes z, with one turn more, by a step of call c.
Grows(c, t, s, z, n) ==
    /\ t \in Live /\ tenant[c] = t
    /\ s = sessions[t] /\ z = sessions'[t]
    /\ s \in Session /\ z \in Session
    /\ s.gen \in 1..Len(registry) /\ z.gen = s.gen
    /\ Live' = Live
    /\ \A u \in Live \ {t} : sessions'[u] = sessions[u]
    /\ n \in Nat /\ n = Len(s.messages) /\ Len(z.messages) = n + 1
    /\ \A i \in 1..n : z.messages[i] = s.messages[i]
    /\ z.messages[n + 1].call = c
    /\ Questions(s) \subseteq 1..n /\ Answers(s) \subseteq 1..n
    /\ UNCHANGED <<tenant, registry, sent>>
    /\ \A d \in Calls \ {c} : pc'[d] = pc[d] /\ bornIn'[d] = bornIn[d]

LEMMA AskFacts ==
    ASSUME IInv, NEW c \in Calls, Asks(c)
    PROVE  \E t \in Tenants, s \in Session, z \in Session, n \in Nat :
              /\ Grows(c, t, s, z, n)
              /\ Questions(z) = Questions(s) \cup {n + 1}
              /\ Answers(z) = Answers(s)
              /\ z.messages[n + 1].role = "User"
              /\ z.processed = s.processed + 1
              /\ pc[c] = "idle" /\ pc'[c] = "pushed"
              /\ bornIn'[c] = s.gen
<1> DEFINE t == tenant[c]
           s == sessions[t]
           m == UserTurn(c)
           n == Len(s.messages)
<1>1. PICK z \in Session : Extends(c, z, m) /\ z.processed = s.processed + 1
  BY DEF Asks
<1>2. /\ t \in Live /\ sessions'[t] = z /\ Live' = Live
      /\ \A u \in Live \ {t} : sessions'[u] = sessions[u]
      /\ m \in Turn /\ z.messages = Append(s.messages, m) /\ z.gen = s.gen
      /\ UNCHANGED <<tenant, registry, sent>>
  BY <1>1 DEF Extends
<1>3. t \in Tenants /\ s \in Session /\ s.gen \in 1..Len(registry)
  BY <1>2 DEF IInv, TypeOK, SessionsAreRegistered
<1>4. m.role = "User" /\ m.call = c
  BY DEF UserTurn
<1>5. /\ pc[c] = "idle" /\ pc'[c] = "pushed" /\ bornIn'[c] = s.gen
      /\ \A d \in Calls \ {c} : pc'[d] = pc[d] /\ bornIn'[d] = bornIn[d]
  BY DEF Asks, IInv, TypeOK
<1> HIDE DEF t, s, m, n
<1>6. /\ n \in Nat /\ Len(z.messages) = n + 1
      /\ \A i \in 1..n : z.messages[i] = s.messages[i]
      /\ z.messages[n + 1] = m
      /\ Questions(z) = Questions(s) \cup {n + 1} /\ Answers(z) = Answers(s)
      /\ Questions(s) \subseteq 1..n /\ Answers(s) \subseteq 1..n
  BY <1>2, <1>3, <1>4, ExtendedFacts DEF n
<1>7. Grows(c, t, s, z, n)
  BY <1>2, <1>3, <1>4, <1>5, <1>6 DEF Grows, n, s, t
<1> QED
  BY <1>1, <1>3, <1>4, <1>5, <1>6, <1>7

LEMMA RespondFacts ==
    ASSUME IInv, NEW c \in Calls, Responds(c)
    PROVE  \E t \in Tenants, s \in Session, z \in Session, n \in Nat :
              /\ Grows(c, t, s, z, n)
              /\ Questions(z) = Questions(s)
              /\ Answers(z) = Answers(s) \cup {n + 1}
              /\ z.messages[n + 1].role = "Assistant"
              /\ z.messages[n + 1].id = s.processed
              /\ z.processed = s.processed
              /\ pc[c] = "answered" /\ pc'[c] = "ok"
              /\ bornIn'[c] = bornIn[c]
<1> DEFINE t == tenant[c]
           s == sessions[t]
           m == AssistantTurn(c, s)
           n == Len(s.messages)
<1>1. PICK z \in Session : Extends(c, z, m) /\ z.processed = s.processed
  BY DEF Responds
<1>2. /\ t \in Live /\ sessions'[t] = z /\ Live' = Live
      /\ \A u \in Live \ {t} : sessions'[u] = sessions[u]
      /\ m \in Turn /\ z.messages = Append(s.messages, m) /\ z.gen = s.gen
      /\ UNCHANGED <<tenant, registry, sent>>
  BY <1>1 DEF Extends
<1>3. t \in Tenants /\ s \in Session /\ s.gen \in 1..Len(registry)
  BY <1>2 DEF IInv, TypeOK, SessionsAreRegistered
<1>4. m.role = "Assistant" /\ m.call = c /\ m.id = s.processed
  BY DEF AssistantTurn
<1>5. /\ pc[c] = "answered" /\ pc'[c] = "ok"
      /\ \A d \in Calls \ {c} : pc'[d] = pc[d]
      /\ bornIn' = bornIn
  BY DEF Responds, IInv, TypeOK
<1> HIDE DEF t, s, m, n
<1>6. /\ n \in Nat /\ Len(z.messages) = n + 1
      /\ \A i \in 1..n : z.messages[i] = s.messages[i]
      /\ z.messages[n + 1] = m
      /\ Questions(z) = Questions(s) /\ Answers(z) = Answers(s) \cup {n + 1}
      /\ Questions(s) \subseteq 1..n /\ Answers(s) \subseteq 1..n
  BY <1>2, <1>3, <1>4, ExtendedFacts DEF n
<1>7. Grows(c, t, s, z, n)
  BY <1>2, <1>3, <1>4, <1>5, <1>6 DEF Grows, n, s, t
<1> QED
  BY <1>1, <1>3, <1>4, <1>5, <1>6, <1>7

-----------------------------------------------------------------------------
(* Where questions are: the invariant the others rest on.                   *)

\* A call that has not started has asked nowhere; the session that lives is
\* never older than the one a call of its tenant asked, and if it is that
\* one it holds the question.
QuestionsAreKept ==
    \A c \in Calls :
        /\ bornIn[c] <= Len(registry)
        /\ pc[c] = "idle" => bornIn[c] = 0
        /\ tenant[c] \in Live =>
             LET s == sessions[tenant[c]] IN
             /\ bornIn[c] <= s.gen
             /\ bornIn[c] = s.gen => \E i \in Questions(s) : s.messages[i].call = c

LEMMA QuestionsAreKeptNext ==
    ASSUME IInv, QuestionsAreKept, [Next]_vars
    PROVE  QuestionsAreKept'
<1>types. /\ tenant \in [Calls -> Tenants] /\ bornIn \in [Calls -> Nat]
          /\ Len(registry) \in Nat
          /\ \A t \in Live : sessions[t] \in Session /\ sessions[t].gen \in 1..Len(registry)
  <2>1. registry \in Seq(Registration)
    BY DEF IInv, TypeOK
  <2>2. Len(registry) \in Nat
    BY <2>1
  <2> QED
    BY <2>2 DEF IInv, TypeOK, SessionsAreRegistered
<1>1. ASSUME NEW t \in Tenants, Adds(t)
      PROVE  QuestionsAreKept'
  <2> SUFFICES ASSUME NEW c \in Calls
               PROVE  /\ bornIn[c] <= Len(registry) + 1
                      /\ pc[c] = "idle" => bornIn[c] = 0
                      /\ tenant[c] \in Live' =>
                           LET s == sessions'[tenant[c]] IN
                           /\ bornIn[c] <= s.gen
                           /\ bornIn[c] = s.gen => \E i \in Questions(s) : s.messages[i].call = c
    BY <1>1 DEF Adds, QuestionsAreKept
  <2>1. bornIn[c] <= Len(registry) /\ (pc[c] = "idle" => bornIn[c] = 0)
    BY DEF QuestionsAreKept
  <2>2. bornIn[c] \in Nat
    BY <1>types
  <2>3. CASE tenant[c] = t
    BY <1>1, <1>types, <2>1, <2>2, <2>3 DEF Adds
  <2>4. CASE tenant[c] # t
    <3>1. tenant[c] \in Live' => tenant[c] \in Live /\ sessions'[tenant[c]] = sessions[tenant[c]]
      BY <1>1, <2>4 DEF Adds
    <3> QED
      BY <1>types, <2>1, <2>2, <3>1 DEF QuestionsAreKept
  <2> QED
    BY <2>3, <2>4
<1>2. ASSUME NEW c \in Calls, NEW t \in Tenants, NEW s \in Session, NEW z \in Session,
             NEW n \in Nat, Grows(c, t, s, z, n),
             \/ pc[c] # "idle" /\ bornIn'[c] = bornIn[c]
             \/ bornIn'[c] = s.gen /\ n + 1 \in Questions(z),
             pc'[c] # "idle",
             Questions(s) \subseteq Questions(z)
      PROVE  QuestionsAreKept'
  <2>1. \A i \in Questions(s) : i \in Questions(z) /\ z.messages[i] = s.messages[i]
    BY <1>2 DEF Grows
  <2>2. s.gen <= Len(registry) /\ s.gen \in Nat
    BY <1>2, <1>types DEF Grows
  <2> SUFFICES ASSUME NEW d \in Calls
               PROVE  /\ bornIn'[d] <= Len(registry)
                      /\ pc'[d] = "idle" => bornIn'[d] = 0
                      /\ tenant[d] \in Live =>
                           LET x == sessions'[tenant[d]] IN
                           /\ bornIn'[d] <= x.gen
                           /\ bornIn'[d] = x.gen => \E i \in Questions(x) : x.messages[i].call = d
    BY <1>2 DEF Grows, QuestionsAreKept
  <2>3. CASE d = c /\ bornIn'[c] = s.gen /\ n + 1 \in Questions(z)
    BY <1>2, <2>2, <2>3, SMTT(30) DEF Grows
  <2>4. CASE bornIn'[d] = bornIn[d] /\ (pc'[d] = "idle" => pc[d] = "idle")
    <3>1. CASE tenant[d] = t
      <4>1. bornIn[d] <= s.gen /\ (bornIn[d] = s.gen => \E i \in Questions(s) : s.messages[i].call = d)
        BY <1>2, <3>1 DEF QuestionsAreKept, Grows
      <4> QED
        BY <1>2, <2>1, <2>4, <3>1, <4>1 DEF QuestionsAreKept, Grows
    <3>2. CASE tenant[d] # t
      BY <1>2, <2>4, <3>2 DEF QuestionsAreKept, Grows
    <3> QED
      BY <3>1, <3>2
  <2> QED
    BY <1>2, <2>3, <2>4 DEF Grows
<1>3. ASSUME NEW c \in Calls, Asks(c)
      PROVE  QuestionsAreKept'
  <2>1. PICK t \in Tenants, s \in Session, z \in Session, n \in Nat :
              /\ Grows(c, t, s, z, n)
              /\ Questions(z) = Questions(s) \cup {n + 1}
              /\ pc'[c] = "pushed" /\ bornIn'[c] = s.gen
    BY <1>3, AskFacts
  <2>2. n + 1 \in Questions(z) /\ Questions(s) \subseteq Questions(z)
    BY <2>1
  <2> QED
    BY <1>2, <2>1, <2>2
<1>4. ASSUME NEW c \in Calls, Responds(c)
      PROVE  QuestionsAreKept'
  <2>1. PICK t \in Tenants, s \in Session, z \in Session, n \in Nat :
              /\ Grows(c, t, s, z, n)
              /\ Questions(z) = Questions(s)
              /\ pc[c] = "answered" /\ pc'[c] = "ok"
              /\ bornIn'[c] = bornIn[c]
    BY <1>4, RespondFacts
  <2>2. /\ pc[c] # "idle" /\ pc'[c] # "idle" /\ bornIn'[c] = bornIn[c]
        /\ Questions(s) \subseteq Questions(z)
    BY <2>1
  <2> QED
    BY <1>2, <2>1, <2>2
<1>5. ASSUME Stays
      PROVE  QuestionsAreKept'
  <2>1. \A u \in Live' : Questions(sessions'[u]) = Questions(sessions[u])
    BY <1>5 DEF Stays, Questions
  <2> QED
    BY <1>5, <2>1 DEF Stays, QuestionsAreKept
<1> QED
  BY <1>1, <1>3, <1>4, <1>5, FourEffects

-----------------------------------------------------------------------------
(* The order of questions and answers.                                     *)

\* A session that grows by a turn of call c, which has no such turn there yet
LEMMA GrowthKeepsOrder ==
    ASSUME AnswersFollowQuestions, NEW c \in Calls, NEW t \in Tenants,
           NEW s \in Session, NEW z \in Session, NEW n \in Nat,
           Grows(c, t, s, z, n),
           \A u \in Live : sessions[u] \in Session,
           pc[c] # "ok",
           \A i \in 1..n : s.messages[i].call = c =>
                              s.messages[i].role # z.messages[n + 1].role,
           Questions(s) \subseteq Questions(z),
           Answers(z) \subseteq Answers(s) \cup {n + 1},
           n + 1 \in Answers(z) =>
              /\ pc'[c] = "ok" /\ bornIn'[c] = bornIn[c]
              /\ bornIn[c] < s.gen \/ \E i \in Questions(s) : s.messages[i].call = c
    PROVE  AnswersFollowQuestions'
<1>1. \A u \in Live : \A j \in Answers(sessions[u]) :
          LET d == sessions[u].messages[j].call IN
          d \in Calls \ {c} /\ pc'[d] = "ok" /\ bornIn'[d] = bornIn[d]
  <2> SUFFICES ASSUME NEW u \in Live, NEW j \in Answers(sessions[u])
               PROVE  LET d == sessions[u].messages[j].call IN
                      d \in Calls \ {c} /\ pc'[d] = "ok" /\ bornIn'[d] = bornIn[d]
    OBVIOUS
  <2> DEFINE d == sessions[u].messages[j].call
  <2>1. d \in Calls /\ pc[d] = "ok"
    BY SessionFacts DEF AnswersFollowQuestions
  <2> QED
    BY <2>1 DEF Grows
<1>2. /\ s = sessions[t] /\ z = sessions'[t] /\ t \in Live /\ z.gen = s.gen
      /\ DOMAIN s.messages = 1..n /\ DOMAIN z.messages = 1..(n + 1)
      /\ \A i \in 1..n : z.messages[i] = s.messages[i]
      /\ z.messages[n + 1].call = c
      /\ Questions(s) \subseteq 1..n /\ Answers(s) \subseteq 1..n
  BY SessionFacts DEF Grows
<1> SUFFICES ASSUME NEW u \in Live
             PROVE  LET x == sessions'[u]
                        m == x.messages IN
                    /\ \A i, j \in DOMAIN m :
                         m[i].call = m[j].call /\ m[i].role = m[j].role => i = j
                    /\ \A j \in Answers(x) :
                         /\ pc'[m[j].call] = "ok"
                         /\ \/ \E i \in Questions(x) : i < j /\ m[i].call = m[j].call
                            \/ bornIn'[m[j].call] < x.gen
  BY DEF AnswersFollowQuestions, Grows, Questions, Answers
<1>3. CASE u # t
  <2>1. sessions'[u] = sessions[u]
    BY <1>3 DEF Grows
  <2> QED
    BY <1>1, <2>1 DEF AnswersFollowQuestions
<1>4. CASE u = t
  <2>1. /\ \A i, j \in 1..n : s.messages[i].call = s.messages[j].call
                              /\ s.messages[i].role = s.messages[j].role => i = j
        /\ \A j \in Answers(s) :
              \/ \E i \in Questions(s) : i < j /\ s.messages[i].call = s.messages[j].call
              \/ bornIn[s.messages[j].call] < s.gen
    BY <1>2, SMTT(30), ZenonT(60) DEF AnswersFollowQuestions
  <2>2. 1..(n + 1) = (1..n) \cup {n + 1}
    OBVIOUS
  <2>3. ASSUME NEW i \in 1..(n + 1), NEW j \in 1..(n + 1),
               z.messages[i].call = z.messages[j].call,
               z.messages[i].role = z.messages[j].role
        PROVE  i = j
    <3>1. CASE i \in 1..n /\ j \in 1..n
      BY <1>2, <2>1, <2>3, <3>1, SMTT(30), ZenonT(60)
    <3>2. CASE i \in 1..n /\ j = n + 1
      BY <1>2, <2>3, <3>2
    <3>3. CASE i = n + 1 /\ j \in 1..n
      BY <1>2, <2>3, <3>3
    <3> QED
      BY <2>2, <2>3, <3>1, <3>2, <3>3
  <2>4. ASSUME NEW j \in Answers(z)
        PROVE  /\ pc'[z.messages[j].call] = "ok"
               /\ \/ \E i \in Questions(z) : i < j /\ z.messages[i].call = z.messages[j].call
                  \/ bornIn'[z.messages[j].call] < z.gen
    <3>1. CASE j \in Answers(s)
      <4>1. /\ z.messages[j] = s.messages[j] /\ pc'[s.messages[j].call] = "ok"
            /\ bornIn'[s.messages[j].call] = bornIn[s.messages[j].call]
        BY <1>1, <1>2, <3>1
      <4> QED
        BY <1>2, <2>1, <3>1, <4>1
    <3>2. CASE j = n + 1
      <4>1. \A i \in Questions(s) : i < j /\ z.messages[i] = s.messages[i] /\ i \in Questions(z)
        BY <1>2, <3>2
      <4> QED
        BY <1>2, <2>4, <3>2, <4>1
    <3> QED
      BY <3>1, <3>2, <2>4
  <2> QED
    BY <1>2, <1>4, <2>3, <2>4
<1> QED
  BY <1>3, <1>4

LEMMA OrderNext ==
    ASSUME IInv, QuestionsAreKept, AnswersFollowQuestions, [Next]_vars
    PROVE  AnswersFollowQuestions'
<1>types. /\ \A t \in Live : sessions[t] \in Session
          /\ \A t \in Live : \A i \in 1..Len(sessions[t].messages) :
                pc[sessions[t].messages[i].call] # "idle"
  <2>1. \A t \in Live : sessions[t] \in Session
    BY DEF IInv, TypeOK
  <2> QED
    BY <2>1, SessionFacts DEF IInv, TurnsAreOwn
<1>1. ASSUME NEW t \in Tenants, Adds(t)
      PROVE  AnswersFollowQuestions'
  <2>1. DOMAIN sessions'[t].messages = {} /\ Answers(sessions'[t]) = {}
    BY <1>1 DEF Adds, Answers
  <2>2. \A u \in Live' : u # t => u \in Live /\ sessions'[u] = sessions[u]
    BY <1>1 DEF Adds
  <2>3. UNCHANGED <<pc, bornIn>>
    BY <1>1 DEF Adds
  <2> QED
    BY <2>1, <2>2, <2>3 DEF AnswersFollowQuestions
<1>2. ASSUME NEW c \in Calls, Asks(c)
      PROVE  AnswersFollowQuestions'
  <2>1. PICK t \in Tenants, s \in Session, z \in Session, n \in Nat :
              /\ Grows(c, t, s, z, n)
              /\ Questions(z) = Questions(s) \cup {n + 1}
              /\ Answers(z) = Answers(s)
              /\ pc[c] = "idle"
    BY <1>2, AskFacts
  <2>2. /\ s = sessions[t] /\ t \in Live /\ n = Len(s.messages)
        /\ Answers(s) \subseteq 1..n
    BY <2>1 DEF Grows
  <2>3. \A i \in 1..n : s.messages[i].call # c
    BY <1>types, <2>1, <2>2
  <2>4. n + 1 \notin Answers(z)
    BY <2>1, <2>2
  <2> QED
    BY <1>types, <2>1, <2>3, <2>4, GrowthKeepsOrder
<1>3. ASSUME NEW c \in Calls, Responds(c)
      PROVE  AnswersFollowQuestions'
  <2>1. PICK t \in Tenants, s \in Session, z \in Session, n \in Nat :
              /\ Grows(c, t, s, z, n)
              /\ Questions(z) = Questions(s)
              /\ Answers(z) = Answers(s) \cup {n + 1}
              /\ z.messages[n + 1].role = "Assistant"
              /\ pc[c] = "answered" /\ pc'[c] = "ok"
              /\ bornIn'[c] = bornIn[c]
    BY <1>3, RespondFacts
  <2>2. s = sessions[t] /\ t \in Live /\ n = Len(s.messages) /\ tenant[c] = t
    BY <2>1 DEF Grows
  <2>3. \A i \in 1..n : s.messages[i].call = c => s.messages[i].role # "Assistant"
    <3>1. \A i \in Answers(s) : pc[s.messages[i].call] = "ok"
      BY <2>2 DEF AnswersFollowQuestions
    <3>2. Answers(s) = {i \in 1..n : s.messages[i].role = "Assistant"}
      BY <2>2, SessionFacts
    <3> QED
      BY <2>1, <3>1, <3>2
  <2>4. bornIn[c] < s.gen \/ \E i \in Questions(s) : s.messages[i].call = c
    <3>1. bornIn[c] \in Nat /\ s.gen \in Nat
      BY SessionFacts DEF IInv, TypeOK
    <3> QED
      BY <2>2, <3>1 DEF QuestionsAreKept
  <2> QED
    BY <1>types, <2>1, <2>3, <2>4, GrowthKeepsOrder
<1>4. ASSUME Stays
      PROVE  AnswersFollowQuestions'
  <2>1. \A u \in Live' : /\ sessions'[u].messages = sessions[u].messages
                         /\ sessions'[u].gen = sessions[u].gen
                         /\ Questions(sessions'[u]) = Questions(sessions[u])
                         /\ Answers(sessions'[u]) = Answers(sessions[u])
    BY <1>4 DEF Stays, Questions, Answers
  <2>2. \A u \in Live : \A j \in Answers(sessions[u]) : sessions[u].messages[j].call \in Calls
    BY <1>types, SessionFacts
  <2> QED
    BY <1>4, <2>1, <2>2 DEF Stays, AnswersFollowQuestions
<1> QED
  BY <1>1, <1>2, <1>3, <1>4, FourEffects

-----------------------------------------------------------------------------
(* The numbers of answers.                                                  *)

\* No answer has a number the session has not reached, and one that a
\* question follows has a smaller one; two with one number have their
\* questions before both.
WellNumbered(s) ==
    LET m == s.messages IN
    /\ \A j \in Answers(s) : m[j].id <= s.processed
    /\ \A j \in Answers(s) : \A k \in Questions(s) : j < k => m[j].id < s.processed
    /\ \A i, j \in Answers(s) :
          i < j /\ m[i].id = m[j].id =>
              \A k \in Questions(s) : m[k].call = m[j].call => k < i

AnswersAreNumbered == \A t \in Live : WellNumbered(sessions[t])

\* Answers and questions of a session: their places and numbers
LEMMA PlacesAndNumbers ==
    ASSUME NEW s \in Session
    PROVE  /\ \A j \in Answers(s) : j \in Nat /\ s.messages[j].id \in Nat
           /\ \A k \in Questions(s) : k \in Nat /\ k \notin Answers(s)
           /\ s.processed \in Nat
  BY SessionFacts

LEMMA AskedNumbers ==
    ASSUME NEW s \in Session, NEW z \in Session, NEW n \in Nat, WellNumbered(s),
           Questions(s) \subseteq 1..n, Answers(s) \subseteq 1..n,
           \A i \in 1..n : z.messages[i] = s.messages[i],
           Questions(z) = Questions(s) \cup {n + 1}, Answers(z) = Answers(s),
           z.processed = s.processed + 1,
           \A j \in Answers(s) : s.messages[j].call # z.messages[n + 1].call
    PROVE  WellNumbered(z)
<1>1. \A j \in Answers(z) : z.messages[j] = s.messages[j] /\ s.messages[j].id \in Nat
                            /\ s.messages[j].id <= s.processed
  BY PlacesAndNumbers DEF WellNumbered
<1>2. s.processed \in Nat
  BY PlacesAndNumbers
<1>3. \A j \in Answers(z) : z.messages[j].id <= z.processed /\ z.messages[j].id < z.processed
  BY <1>1, <1>2
<1>4. ASSUME NEW i \in Answers(z), NEW j \in Answers(z), i < j,
             z.messages[i].id = z.messages[j].id,
             NEW k \in Questions(z), z.messages[k].call = z.messages[j].call
      PROVE  k < i
  <2>1. k \in Questions(s) /\ z.messages[k] = s.messages[k]
    BY <1>1, <1>4
  <2> QED
    BY <1>1, <1>4, <2>1 DEF WellNumbered
<1>5. \A i, j \in Answers(z) :
         i < j /\ z.messages[i].id = z.messages[j].id =>
            \A k \in Questions(z) : z.messages[k].call = z.messages[j].call => k < i
  BY <1>4
<1> QED
  BY <1>3, <1>5 DEF WellNumbered

LEMMA AnsweredNumbers ==
    ASSUME NEW s \in Session, NEW z \in Session, NEW n \in Nat, WellNumbered(s),
           Questions(s) \subseteq 1..n, Answers(s) \subseteq 1..n,
           \A i \in 1..n : z.messages[i] = s.messages[i],
           Questions(z) = Questions(s), Answers(z) = Answers(s) \cup {n + 1},
           z.processed = s.processed, z.messages[n + 1].id = s.processed
    PROVE  WellNumbered(z)
<1>1. \A j \in Answers(s) : /\ z.messages[j] = s.messages[j] /\ j \in 1..n /\ j \in Nat
                            /\ s.messages[j].id \in Nat
                            /\ s.messages[j].id <= s.processed
  BY PlacesAndNumbers DEF WellNumbered
<1>2. /\ s.processed \in Nat
      /\ \A k \in Questions(s) : z.messages[k] = s.messages[k] /\ k \in 1..n /\ k \in Nat
                                 /\ k \notin Answers(s)
  BY PlacesAndNumbers
<1>3. \A j \in Answers(z) : z.messages[j].id <= z.processed
  BY <1>1, <1>2
<1>4. \A j \in Answers(z) : \A k \in Questions(z) : j < k => z.messages[j].id < z.processed
  BY <1>1, <1>2 DEF WellNumbered
<1>5. ASSUME NEW i \in Answers(z), NEW j \in Answers(z), i < j,
             z.messages[i].id = z.messages[j].id,
             NEW k \in Questions(z), z.messages[k].call = z.messages[j].call
      PROVE  k < i
  <2>1. i \in Answers(s) /\ i \in 1..n /\ k \in Questions(s)
    BY <1>1, <1>5
  <2>2. CASE j \in Answers(s)
    BY <1>1, <1>2, <1>5, <2>1, <2>2 DEF WellNumbered
  <2>3. CASE j = n + 1
    <3>1. s.messages[i].id = s.processed
      BY <1>1, <1>5, <2>1, <2>3
    <3>2. ~(i < k)
      BY <1>2, <2>1, <3>1 DEF WellNumbered
    <3>3. i # k
      BY <1>2, <2>1
    <3> QED
      BY <1>1, <1>2, <2>1, <3>2, <3>3
  <2> QED
    BY <2>2, <2>3
<1>6. \A i, j \in Answers(z) :
         i < j /\ z.messages[i].id = z.messages[j].id =>
            \A k \in Questions(z) : z.messages[k].call = z.messages[j].call => k < i
  BY <1>5
<1> QED
  BY <1>3, <1>4, <1>6 DEF WellNumbered

LEMMA NumbersNext ==
    ASSUME IInv, AnswersFollowQuestions, AnswersAreNumbered, [Next]_vars
    PROVE  AnswersAreNumbered'
<1>types. \A t \in Live : sessions[t] \in Session
  BY DEF IInv, TypeOK
<1>1. ASSUME NEW t \in Tenants, Adds(t)
      PROVE  AnswersAreNumbered'
  <2>1. Answers(sessions'[t]) = {}
    BY <1>1 DEF Adds, Answers
  <2>2. WellNumbered(sessions'[t])
    BY <2>1 DEF WellNumbered
  <2>3. \A u \in Live' : u # t => u \in Live /\ sessions'[u] = sessions[u]
    BY <1>1 DEF Adds
  <2> QED
    BY <2>2, <2>3 DEF AnswersAreNumbered
<1>2. ASSUME NEW c \in Calls, Asks(c)
      PROVE  AnswersAreNumbered'
  <2>1. PICK t \in Tenants, s \in Session, z \in Session, n \in Nat :
              /\ Grows(c, t, s, z, n)
              /\ Questions(z) = Questions(s) \cup {n + 1}
              /\ Answers(z) = Answers(s)
              /\ z.processed = s.processed + 1
              /\ pc[c] = "idle"
    BY <1>2, AskFacts
  <2>2. s = sessions[t] /\ t \in Live /\ z.messages[n + 1].call = c
    BY <2>1 DEF Grows
  <2>3. \A j \in Answers(s) : s.messages[j].call # c
    BY <2>1, <2>2 DEF AnswersFollowQuestions
  <2>4. WellNumbered(s)
    BY <2>2 DEF AnswersAreNumbered
  <2>5. /\ Questions(s) \subseteq 1..n /\ Answers(s) \subseteq 1..n
        /\ \A i \in 1..n : z.messages[i] = s.messages[i]
        /\ \A j \in Answers(s) : s.messages[j].call # z.messages[n + 1].call
    BY <2>1, <2>2, <2>3 DEF Grows
  <2>6. WellNumbered(z)
    BY ONLY <2>1, <2>4, <2>5, s \in Session, z \in Session, n \in Nat, AskedNumbers
  <2> QED
    BY <2>1, <2>6 DEF Grows, AnswersAreNumbered
<1>3. ASSUME NEW c \in Calls, Responds(c)
      PROVE  AnswersAreNumbered'
  <2>1. PICK t \in Tenants, s \in Session, z \in Session, n \in Nat :
              /\ Grows(c, t, s, z, n)
              /\ Questions(z) = Questions(s)
              /\ Answers(z) = Answers(s) \cup {n + 1}
              /\ z.messages[n + 1].id = s.processed
              /\ z.processed = s.processed
    BY <1>3, RespondFacts
  <2>2. WellNumbered(s)
    BY <2>1 DEF AnswersAreNumbered, Grows
  <2>3. /\ Questions(s) \subseteq 1..n /\ Answers(s) \subseteq 1..n
        /\ \A i \in 1..n : z.messages[i] = s.messages[i]
    BY <2>1 DEF Grows
  <2>4. WellNumbered(z)
    BY ONLY <2>1, <2>2, <2>3, s \in Session, z \in Session, n \in Nat, AnsweredNumbers
  <2> QED
    BY <2>1, <2>4 DEF Grows, AnswersAreNumbered
<1>4. ASSUME Stays
      PROVE  AnswersAreNumbered'
  <2>1. \A u \in Live' : /\ u \in Live
                         /\ sessions'[u].messages = sessions[u].messages
                         /\ sessions'[u].processed = sessions[u].processed
                         /\ Questions(sessions'[u]) = Questions(sessions[u])
                         /\ Answers(sessions'[u]) = Answers(sessions[u])
    BY <1>4 DEF Stays, Questions, Answers
  <2> QED
    BY <2>1 DEF AnswersAreNumbered, WellNumbered
<1> QED
  BY <1>1, <1>2, <1>3, <1>4, FourEffects

-----------------------------------------------------------------------------
(* The counter of messages.                                                 *)

LEMMA CountersNext ==
    ASSUME IInv, QuestionsAreKept, CountersMatchContext, [Next]_vars
    PROVE  CountersMatchContext'
<1>types. /\ \A t \in Live : /\ sessions[t] \in Session
                             /\ sessions[t].gen \in 1..Len(registry)
                             /\ sessions[t].processed \in Nat
                             /\ registry[sessions[t].gen].tenant = t
          /\ Len(registry) \in Nat /\ bornIn \in [Calls -> Nat]
  <2>1. registry \in Seq(Registration) /\ bornIn \in [Calls -> Nat]
    BY DEF IInv, TypeOK
  <2>2. Len(registry) \in Nat
    BY <2>1
  <2>3. \A t \in Live : sessions[t] \in Session
    BY DEF IInv, TypeOK
  <2> QED
    BY <2>1, <2>2, <2>3, SessionFacts DEF IInv, SessionsAreRegistered
<1> DEFINE Asked(g) == {d \in Calls : bornIn[d] = g}
           AskedThen(g) == {d \in Calls : bornIn'[d] = g}
<1>1. ASSUME NEW t \in Tenants, Adds(t)
      PROVE  CountersMatchContext'
  <2>1. Questions(sessions'[t]) = {} /\ sessions'[t].processed = 0
    BY <1>1 DEF Adds, Questions
  <2>2. bornIn' = bornIn /\ sessions'[t].gen = Len(registry) + 1
    BY <1>1 DEF Adds
  <2>3. {d \in Calls : bornIn'[d] = sessions'[t].gen} = {}
    BY <1>types, <2>2 DEF QuestionsAreKept
  <2>4. \A u \in Live' : u # t => u \in Live /\ sessions'[u] = sessions[u]
    BY <1>1 DEF Adds
  <2> QED
    <3>1. ASSUME NEW u \in Live', u # t
          PROVE  /\ sessions'[u].processed = Cardinality(Questions(sessions'[u]))
                 /\ sessions'[u].processed = Cardinality({d \in Calls : bornIn'[d] = sessions'[u].gen})
      BY <2>2, <2>4, <3>1, ZenonT(60) DEF CountersMatchContext
    <3>2. Cardinality({}) = 0
      BY FS_EmptySet
    <3> QED
      BY <2>1, <2>3, <3>1, <3>2 DEF CountersMatchContext
<1>2. ASSUME NEW c \in Calls, Asks(c)
      PROVE  CountersMatchContext'
  <2>1. PICK t \in Tenants, s \in Session, z \in Session, n \in Nat :
              /\ Grows(c, t, s, z, n)
              /\ Questions(z) = Questions(s) \cup {n + 1}
              /\ z.processed = s.processed + 1
              /\ pc[c] = "idle" /\ bornIn'[c] = s.gen
    BY <1>2, AskFacts
  <2>2. /\ s = sessions[t] /\ z = sessions'[t] /\ t \in Live /\ Live' = Live
        /\ z.gen = s.gen /\ Questions(s) \subseteq 1..n
        /\ \A u \in Live \ {t} : sessions'[u] = sessions[u]
        /\ \A d \in Calls \ {c} : bornIn'[d] = bornIn[d]
    BY <2>1 DEF Grows
  <2>3. bornIn[c] = 0
    BY <2>1 DEF QuestionsAreKept
  <2>4. z.processed = Cardinality(Questions(z))
    <3>1. IsFiniteSet(1..n)
      BY FS_Interval
    <3>2. IsFiniteSet(Questions(s))
      BY <2>2, <3>1, FS_Subset
    <3>3. n + 1 \notin Questions(s)
      BY <2>2
    <3>4. Cardinality(Questions(s) \cup {n + 1}) = Cardinality(Questions(s)) + 1
      BY <3>2, <3>3, FS_AddElement
    <3> QED
      BY <2>1, <2>2, <3>4 DEF CountersMatchContext
  <2>5. z.processed = Cardinality(AskedThen(s.gen))
    <3>1. IsFiniteSet(Asked(s.gen))
      BY CallsFinite, FS_Subset
    <3>2. c \notin Asked(s.gen)
      BY <1>types, <2>2, <2>3
    <3>3. AskedThen(s.gen) = Asked(s.gen) \cup {c}
      BY <2>1, <2>2
    <3>4. Cardinality(Asked(s.gen) \cup {c}) = Cardinality(Asked(s.gen)) + 1
      BY <3>1, <3>2, FS_AddElement
    <3> QED
      BY <2>1, <2>2, <3>3, <3>4 DEF CountersMatchContext
  <2>6. ASSUME NEW u \in Live, u # t
        PROVE  AskedThen(sessions[u].gen) = Asked(sessions[u].gen)
    <3>1. sessions[u].gen # s.gen /\ sessions[u].gen # 0
      BY <1>types, <2>2, <2>6
    <3> QED
      BY <2>1, <2>2, <2>3, <3>1
  <2> QED
    <3>1. ASSUME NEW u \in Live, u # t
          PROVE  /\ sessions'[u].processed = Cardinality(Questions(sessions'[u]))
                 /\ sessions'[u].processed = Cardinality(AskedThen(sessions'[u].gen))
      <4>1. sessions'[u] = sessions[u]
        BY <2>2, <3>1
      <4>2. AskedThen(sessions[u].gen) = Asked(sessions[u].gen)
        BY <2>6, <3>1
      <4>3. /\ sessions[u].processed = Cardinality(Questions(sessions[u]))
            /\ sessions[u].processed = Cardinality(Asked(sessions[u].gen))
        BY DEF CountersMatchContext
      <4> QED
        BY <4>1, <4>2, <4>3
    <3>2. \A u \in Live' :
             /\ sessions'[u].processed = Cardinality(Questions(sessions'[u]))
             /\ sessions'[u].processed = Cardinality(AskedThen(sessions'[u].gen))
      <4> HIDE DEF AskedThen
      <4> QED
        BY <2>2, <2>4, <2>5, <3>1
    <3> QED
      BY <3>2 DEF CountersMatchContext
<1>3. ASSUME NEW c \in Calls, Responds(c)
      PROVE  CountersMatchContext'
  <2>1. PICK t \in Tenants, s \in Session, z \in Session, n \in Nat :
              /\ Grows(c, t, s, z, n)
              /\ Questions(z) = Questions(s)
              /\ z.processed = s.processed
    BY <1>3, RespondFacts
  <2>2. bornIn' = bornIn
    BY <1>3 DEF Responds
  <2>3. \A u \in Live' : /\ u \in Live
                         /\ sessions'[u].gen = sessions[u].gen
                         /\ sessions'[u].processed = sessions[u].processed
                         /\ Questions(sessions'[u]) = Questions(sessions[u])
    BY <2>1 DEF Grows
  <2> QED
    BY <2>2, <2>3 DEF CountersMatchContext
<1>4. ASSUME Stays
      PROVE  CountersMatchContext'
  <2>1. \A u \in Live' : /\ u \in Live
                         /\ sessions'[u].gen = sessions[u].gen
                         /\ sessions'[u].processed = sessions[u].processed
                         /\ Questions(sessions'[u]) = Questions(sessions[u])
    BY <1>4 DEF Stays, Questions
  <2>2. bornIn' = bornIn
    BY <1>4 DEF Stays
  <2> QED
    BY <2>1, <2>2 DEF CountersMatchContext
<1> QED
  BY <1>1, <1>2, <1>3, <1>4, FourEffects

-----------------------------------------------------------------------------
(* What lasts of a session from one step to the next.                       *)

\* z is session s after a step.
Lasts(s, z) ==
    /\ z.gen = s.gen /\ z.config = s.config
    /\ s.processed <= z.processed /\ s.failures <= z.failures
    /\ Len(s.messages) <= Len(z.messages)
    /\ Len(z.messages) <= Len(s.messages) + 1
    /\ \A i \in 1..Len(s.messages) : z.messages[i] = s.messages[i]

LEMMA SessionsLast ==
    ASSUME IInv, [Next]_vars
    PROVE  \A u \in Live' :
              \/ /\ u \notin Live
                 /\ sessions'[u].gen = Len(registry) + 1
                 /\ Len(registry') = Len(registry) + 1
              \/ u \in Live /\ Lasts(sessions[u], sessions'[u])
<1>types. /\ \A t \in Live : sessions[t] \in Session
          /\ \A t \in Live : Lasts(sessions[t], sessions[t])
  <2>1. \A t \in Live : sessions[t] \in Session
    BY DEF IInv, TypeOK
  <2> QED
    BY <2>1, SessionFacts DEF Lasts
<1>1. ASSUME NEW t \in Tenants, Adds(t)
      PROVE  \A u \in Live' : \/ /\ u \notin Live
                                 /\ sessions'[u].gen = Len(registry) + 1
                                 /\ Len(registry') = Len(registry) + 1
                              \/ u \in Live /\ Lasts(sessions[u], sessions'[u])
  BY <1>types, <1>1 DEF Adds
<1>2. ASSUME NEW t \in Tenants, CountsFailure(t)
      PROVE  \A u \in Live' : u \in Live /\ Lasts(sessions[u], sessions'[u])
  <2>1. /\ sessions[t] \in Session /\ sessions[t].failures \in Nat
        /\ sessions[t].processed \in Nat /\ Len(sessions[t].messages) \in Nat
    BY <1>types, <1>2, SessionFacts DEF CountsFailure
  <2>2. Lasts(sessions[t], sessions'[t])
    BY <1>2, <2>1 DEF CountsFailure, Lasts
  <2> QED
    BY <1>types, <1>2, <2>2 DEF CountsFailure
<1>3. ASSUME NEW c \in Calls, NEW z \in Session, NEW m \in Turn, Extends(c, z, m),
             \/ z.processed = sessions[tenant[c]].processed + 1
             \/ z.processed = sessions[tenant[c]].processed
      PROVE  \A u \in Live' : u \in Live /\ Lasts(sessions[u], sessions'[u])
  <2> DEFINE s == sessions[tenant[c]]
  <2>1. s \in Session /\ s.processed \in Nat /\ s.failures \in Nat /\ s.messages \in Seq(Turn)
    BY <1>types, <1>3, SessionFacts DEF Extends, Session
  <2>2. /\ Len(z.messages) = Len(s.messages) + 1 /\ Len(s.messages) \in Nat
        /\ \A i \in 1..Len(s.messages) : z.messages[i] = s.messages[i]
    BY <1>3, <2>1, AppendFacts DEF Extends
  <2>3. /\ tenant[c] \in Live /\ Live' = Live /\ sessions'[tenant[c]] = z
        /\ \A u \in Live \ {tenant[c]} : sessions'[u] = sessions[u]
        /\ z.gen = s.gen /\ z.config = s.config /\ z.failures = s.failures
    BY <1>3 DEF Extends
  <2>4. s.processed <= z.processed
    BY <1>3, <2>1
  <2> HIDE DEF s
  <2>5. Lasts(s, z)
    BY <2>1, <2>2, <2>3, <2>4 DEF Lasts
  <2> QED
    BY <1>types, <2>3, <2>5 DEF s
<1>4. ASSUME NEW c \in Calls, Asks(c) \/ Responds(c)
      PROVE  \A u \in Live' : u \in Live /\ Lasts(sessions[u], sessions'[u])
  <2>1. PICK z \in Session, m \in Turn :
              /\ Extends(c, z, m)
              /\ \/ z.processed = sessions[tenant[c]].processed + 1
                 \/ z.processed = sessions[tenant[c]].processed
    BY <1>4 DEF Asks, Responds, Extends
  <2> QED
    BY <1>3, <2>1
<1>5. ASSUME \/ \E t \in Tenants : Drops(t)
             \/ \E c \in Calls : Snapshots(c) \/ Moves(c)
             \/ Reports
             \/ Rests
      PROVE  \A u \in Live' : u \in Live /\ Lasts(sessions[u], sessions'[u])
  <2>1. Live' \subseteq Live /\ \A u \in Live' : sessions'[u] = sessions[u]
    BY <1>5 DEF Drops, Snapshots, Moves, Reports, Rests, Live
  <2> QED
    BY <1>types, <2>1
<1> QED
  BY <1>1, <1>2, <1>4, <1>5, StepEffects

\* A sequence that begins with the elements of another
LEMMA PrefixByElements ==
    ASSUME NEW S, NEW q \in Seq(S), NEW w \in Seq(S), Len(q) <= Len(w),
           \A i \in 1..Len(q) : w[i] = q[i]
    PROVE  IsPrefix(q, w)
<1>1. SubSeq(q, 1, Len(q)) = SubSeq(w, 1, Len(q))
  OBVIOUS
<1> QED
  BY <1>1 DEF IsPrefix

-----------------------------------------------------------------------------
(* What a step does to the calls, the requests and the reports.             *)

LEMMA CallsLast ==
    ASSUME IInv, [Next]_vars
    PROVE  /\ tenant' = tenant
           /\ Len(registry) <= Len(registry')
           /\ \A d \in Calls : pc[d] # "idle" =>
                                  pc'[d] # "idle" /\ bornIn'[d] = bornIn[d]
           /\ \/ sent' = sent
              \/ \E c \in Calls : Snapshots(c)
           /\ \/ report' = report
              \/ Reports
<1>types. /\ pc \in [Calls -> {"idle"} \cup InFlight \cup Final]
          /\ bornIn \in [Calls -> Nat] /\ Len(registry) \in Nat
  <2>1. registry \in Seq(Registration)
    BY DEF IInv, TypeOK
  <2> QED
    BY <2>1 DEF IInv, TypeOK
<1>1. ASSUME \E t \in Tenants : Adds(t) \/ Drops(t) \/ CountsFailure(t)
      PROVE  /\ UNCHANGED <<tenant, pc, bornIn, sent, report>>
             /\ Len(registry) <= Len(registry')
  BY <1>types, <1>1 DEF Adds, Drops, CountsFailure
<1>2. ASSUME NEW c \in Calls, Asks(c) \/ Responds(c)
      PROVE  /\ UNCHANGED <<tenant, registry, sent, report>>
             /\ \A d \in Calls : pc[d] # "idle" =>
                                    pc'[d] # "idle" /\ bornIn'[d] = bornIn[d]
  BY <1>types, <1>2 DEF Asks, Responds, Extends
<1>3. ASSUME NEW c \in Calls, Snapshots(c) \/ Moves(c)
      PROVE  /\ UNCHANGED <<tenant, registry, bornIn, report>>
             /\ \A d \in Calls : pc[d] # "idle" => pc'[d] # "idle"
             /\ sent' = sent \/ Snapshots(c)
  <2>1. UNCHANGED <<tenant, registry, bornIn, report>> /\ (sent' = sent \/ Snapshots(c))
    BY <1>3 DEF Snapshots, Moves
  <2>2. \A d \in Calls : pc[d] # "idle" => pc'[d] # "idle"
    BY <1>types, <1>3 DEF Snapshots, Moves, Failed
  <2> QED
    BY <2>1, <2>2
<1>4. ASSUME Reports \/ Rests
      PROVE  UNCHANGED <<tenant, registry, bornIn, pc, sent>> /\ (report' = report \/ Reports)
  BY <1>4 DEF Reports, Rests
<1> QED
  BY <1>types, <1>1, <1>2, <1>3, <1>4, StepEffects

-----------------------------------------------------------------------------
(* The requests.                                                            *)

\* Request r holds the beginning of the context of session s.
BeginsAs(r, s) ==
    /\ Len(r.messages) <= Len(s.messages)
    /\ \A i \in 1..Len(r.messages) : r.messages[i] = ToChat(s.messages[i])

\* A request is of a call that started; it begins as the context it was made
\* from for as long as that session lives, and holds its caller's question
\* unless that went to an earlier session.
RequestsAreKept ==
    \A r \in sent :
        LET t == tenant[r.call] IN
        /\ pc[r.call] # "idle"
        /\ t \in Live /\ sessions[t].gen = r.gen => BeginsAs(r, sessions[t])
        /\ \/ \E i \in 1..Len(r.messages) :
                r.messages[i].role = "User" /\ r.messages[i].call = r.call
           \/ bornIn[r.call] < r.gen

LEMMA RequestsNext ==
    ASSUME IInv, QuestionsAreKept, RequestsAreKept, [Next]_vars
    PROVE  RequestsAreKept'
<1>types. /\ \A t \in Live : sessions[t] \in Session
          /\ \A r \in sent : r \in Request /\ r.call \in Calls /\ r.gen \in 1..Len(registry)
          /\ Len(registry) \in Nat /\ bornIn \in [Calls -> Nat]
  <2>1. registry \in Seq(Registration) /\ sent \subseteq Request
    BY DEF IInv, TypeOK
  <2>2. Len(registry) \in Nat
    BY <2>1
  <2> QED
    BY <2>1, <2>2 DEF IInv, TypeOK, RequestsAreOwn, Request
<1>1. ASSUME NEW r \in sent
      PROVE  LET t == tenant'[r.call] IN
             /\ pc'[r.call] # "idle"
             /\ t \in Live' /\ sessions'[t].gen = r.gen => BeginsAs(r, sessions'[t])
             /\ \/ \E i \in 1..Len(r.messages) :
                     r.messages[i].role = "User" /\ r.messages[i].call = r.call
                \/ bornIn'[r.call] < r.gen
  <2>1. /\ tenant' = tenant /\ pc[r.call] # "idle" /\ pc'[r.call] # "idle"
        /\ bornIn'[r.call] = bornIn[r.call]
    BY <1>types, CallsLast DEF RequestsAreKept
  <2> DEFINE t == tenant[r.call]
  <2>2. ASSUME t \in Live', sessions'[t].gen = r.gen
        PROVE  BeginsAs(r, sessions'[t])
    <3>1. t \in Live /\ Lasts(sessions[t], sessions'[t])
      BY <1>types, <2>2, SessionsLast
    <3>2. BeginsAs(r, sessions[t])
      BY <2>2, <3>1 DEF Lasts, RequestsAreKept
    <3>3. Len(r.messages) \in Nat /\ Len(sessions[t].messages) \in Nat
      BY <1>types, <3>1, SessionFacts DEF Request
    <3>4. r.messages \in Seq(Chat) /\ sessions'[t] \in Session
      <4>1. IInv'
        BY IInvNext
      <4> QED
        BY <1>types, <2>2, <4>1 DEF IInv, TypeOK, Request
    <3>5. Len(sessions'[t].messages) \in Nat
      BY <3>4, SessionFacts
    <3>6. /\ Len(r.messages) <= Len(sessions[t].messages)
          /\ Len(sessions[t].messages) <= Len(sessions'[t].messages)
          /\ \A i \in 1..Len(sessions[t].messages) :
                sessions'[t].messages[i] = sessions[t].messages[i]
          /\ \A i \in 1..Len(r.messages) : r.messages[i] = ToChat(sessions[t].messages[i])
      BY <3>1, <3>2 DEF Lasts, BeginsAs
    <3>7. \A i \in 1..Len(r.messages) : r.messages[i] = ToChat(sessions'[t].messages[i])
      BY <3>3, <3>6
    <3> QED
      BY <3>3, <3>5, <3>6, <3>7 DEF BeginsAs
  <2> QED
    BY <2>1, <2>2 DEF RequestsAreKept
<1>2. ASSUME NEW c \in Calls, Snapshots(c)
      PROVE  LET r == ToCompletionRequest(c, sessions[tenant[c]])
                 t == tenant'[r.call] IN
             /\ pc'[r.call] # "idle"
             /\ BeginsAs(r, sessions'[t])
             /\ \/ \E i \in 1..Len(r.messages) :
                     r.messages[i].role = "User" /\ r.messages[i].call = r.call
                \/ bornIn'[r.call] < r.gen
  <2> DEFINE s == sessions[tenant[c]]
             r == ToCompletionRequest(c, s)
  <2>1. /\ tenant[c] \in Live /\ s \in Session /\ pc[c] = "pushed"
        /\ UNCHANGED <<sessions, tenant, bornIn>>
    BY <1>types, <1>2 DEF Snapshots
  <2>2. pc'[c] # "idle"
    BY <2>1, CallsLast
  <2>3. /\ r.call = c /\ r.gen = s.gen /\ Len(r.messages) = Len(s.messages)
        /\ Len(s.messages) \in Nat
        /\ \A i \in 1..Len(s.messages) : r.messages[i] = ToChat(s.messages[i])
    BY <2>1, RequestFacts, SessionFacts DEF ToCompletionRequest
  <2>4. BeginsAs(r, s)
    BY <2>3 DEF BeginsAs
  <2>5. \/ \E i \in Questions(s) : s.messages[i].call = c
        \/ bornIn[c] < s.gen
    BY <1>types, <2>1, SessionFacts DEF QuestionsAreKept
  <2>6. \/ \E i \in 1..Len(r.messages) :
             r.messages[i].role = "User" /\ r.messages[i].call = c
        \/ bornIn[c] < r.gen
    <3>1. ASSUME NEW i \in Questions(s), s.messages[i].call = c
          PROVE  /\ i \in 1..Len(r.messages)
                 /\ r.messages[i].role = "User" /\ r.messages[i].call = c
      <4>1. i \in 1..Len(s.messages) /\ s.messages[i].role = "User"
        BY <2>1, SessionFacts
      <4>2. r.messages[i] = ToChat(s.messages[i])
        BY <2>3, <4>1
      <4> QED
        BY <2>3, <3>1, <4>1, <4>2 DEF ToChat
    <3> QED
      BY <2>3, <2>5, <3>1
  <2> HIDE DEF r, s
  <2> QED
    BY <2>1, <2>2, <2>3, <2>4, <2>6 DEF r, s
<1>3. CASE sent' = sent
  BY <1>1, <1>3 DEF RequestsAreKept
<1>4. ASSUME NEW c \in Calls, Snapshots(c)
      PROVE  RequestsAreKept'
  <2>1. sent' = sent \cup {ToCompletionRequest(c, sessions[tenant[c]])}
    BY <1>4 DEF Snapshots
  <2> QED
    BY <1>1, <1>2, <1>4, <2>1 DEF RequestsAreKept
<1> QED
  BY <1>3, <1>4, CallsLast

\* What the requests keep is what the property says of them.
LEMMA KeptRequestsAreSnapshots ==
    ASSUME IInv, RequestsAreKept
    PROVE  RequestsAreSnapshots
<1> SUFFICES ASSUME NEW r \in sent
             PROVE  LET t == tenant[r.call] IN
                    /\ t \in Live /\ sessions[t].gen = r.gen =>
                         IsPrefix(r.messages, ToCompletionRequest(r.call, sessions[t]).messages)
                    /\ \/ \E i \in DOMAIN r.messages :
                            r.messages[i].role = "User" /\ r.messages[i].call = r.call
                       \/ bornIn[r.call] < r.gen
  BY DEF RequestsAreSnapshots
<1> DEFINE t == tenant[r.call]
<1>1. r \in Request /\ r.call \in Calls /\ r.messages \in Seq(Chat)
      /\ DOMAIN r.messages = 1..Len(r.messages)
  BY DEF IInv, TypeOK, Request
<1>2. ASSUME t \in Live, sessions[t].gen = r.gen
      PROVE  IsPrefix(r.messages, ToCompletionRequest(r.call, sessions[t]).messages)
  <2> DEFINE q == ToCompletionRequest(r.call, sessions[t])
  <2>1. sessions[t] \in Session /\ BeginsAs(r, sessions[t])
    BY <1>2 DEF IInv, TypeOK, RequestsAreKept
  <2>2. q \in Request /\ Len(q.messages) = Len(sessions[t].messages)
    BY <1>1, <2>1, RequestFacts
  <2>3. q.messages \in Seq(Chat)
        /\ \A i \in 1..Len(sessions[t].messages) : q.messages[i] = ToChat(sessions[t].messages[i])
    BY <2>1, <2>2, SessionFacts DEF Request, ToCompletionRequest
  <2>4. Len(r.messages) \in Nat /\ Len(sessions[t].messages) \in Nat
    BY <1>1, <2>1, SessionFacts
  <2> HIDE DEF q
  <2>5. Len(r.messages) <= Len(q.messages)
        /\ \A i \in 1..Len(r.messages) : q.messages[i] = r.messages[i]
    BY <2>1, <2>2, <2>3, <2>4 DEF BeginsAs
  <2> QED
    BY <1>1, <2>3, <2>5, PrefixByElements DEF q
<1> QED
  BY <1>1, <1>2 DEF RequestsAreKept

-----------------------------------------------------------------------------
(* The health reports.                                                      *)

\* A report is about a session registered by then, the one that lives or an
\* earlier one, and its counters are not ahead of it.
ReportsAreOld ==
    \A t \in Tenants :
        /\ \A old, new \in report[t] : old = new
        /\ \A old \in report[t] :
              /\ old.gen <= Len(registry)
              /\ t \in Live =>
                   LET s == sessions[t] IN
                   \/ old.gen < s.gen
                   \/ /\ old.gen = s.gen /\ old.processed <= s.processed
                      /\ old.failures <= s.failures

\* The step from the report of one moment to the next
NoReportGoesBack ==
    \A t \in Tenants : \A old \in report[t] : \A new \in report'[t] :
          \/ old.gen < new.gen
          \/ /\ old.gen = new.gen
             /\ old.processed <= new.processed
             /\ old.failures <= new.failures

LEMMA ReportsNext ==
    ASSUME IInv, ReportsAreOld, [Next]_vars
    PROVE  ReportsAreOld' /\ NoReportGoesBack
<1>types. /\ report \in [Tenants -> SUBSET Report] /\ Live \subseteq Tenants
          /\ Len(registry) \in Nat
          /\ \A t \in Live : /\ sessions[t] \in Session
                             /\ sessions[t].gen \in 1..Len(registry)
                             /\ sessions[t].processed \in Nat /\ sessions[t].failures \in Nat
          /\ \A t \in Tenants : \A old \in report[t] :
                old.gen \in Nat /\ old.processed \in Nat /\ old.failures \in Nat
  <2>1. /\ report \in [Tenants -> SUBSET Report] /\ Live \subseteq Tenants
        /\ \A t \in Live : sessions[t] \in Session /\ sessions[t].gen \in 1..Len(registry)
        /\ registry \in Seq(Registration)
    BY DEF IInv, TypeOK, SessionsAreRegistered
  <2>2. Len(registry) \in Nat
    BY <2>1
  <2>3. \A t \in Tenants : \A old \in report[t] : old \in Report
    BY <2>1
  <2> QED
    BY <2>1, <2>2, <2>3, SessionFacts DEF Report
<1>1. CASE report' = report
  <2>1. NoReportGoesBack
    BY <1>1, <1>types DEF NoReportGoesBack, ReportsAreOld
  <2>2. ASSUME NEW t \in Tenants, NEW old \in report[t], t \in Live'
        PROVE  LET s == sessions'[t] IN
               \/ old.gen < s.gen
               \/ /\ old.gen = s.gen /\ old.processed <= s.processed
                  /\ old.failures <= s.failures
    <3>1. CASE t \notin Live
      <4>1. sessions'[t].gen = Len(registry) + 1
        BY <2>2, <3>1, SessionsLast
      <4> QED
        BY <1>types, <4>1 DEF ReportsAreOld
    <3>2. CASE t \in Live
      <4>1. Lasts(sessions[t], sessions'[t])
        BY <2>2, <3>2, SessionsLast
      <4>2. sessions'[t].processed \in Nat /\ sessions'[t].failures \in Nat
        <5>1. IInv'
          BY IInvNext
        <5>2. sessions'[t] \in Session
          BY <2>2, <5>1 DEF IInv, TypeOK
        <5> QED
          BY <5>2, SessionFacts
      <4> QED
        BY <1>types, <3>2, <4>1, <4>2 DEF ReportsAreOld, Lasts
    <3> QED
      BY <3>1, <3>2
  <2>3. \A t \in Tenants : \A old \in report[t] : old.gen <= Len(registry')
    <3>1. Len(registry) <= Len(registry') /\ Len(registry') \in Nat
      <4>1. IInv'
        BY IInvNext
      <4>2. registry' \in Seq(Registration)
        BY <4>1 DEF IInv, TypeOK
      <4> QED
        BY <4>2, CallsLast
    <3> QED
      BY <1>types, <3>1 DEF ReportsAreOld
  <2>4. ReportsAreOld'
    BY <1>1, <2>2, <2>3 DEF ReportsAreOld
  <2> QED
    BY <2>1, <2>4
<1>2. CASE Reports
  <2>1. PICK t \in Live : report' = [report EXCEPT ![t] = {Health(sessions[t])}]
    BY <1>2 DEF Reports
  <2>2. UNCHANGED <<sessions, registry>> /\ Live' = Live
    BY <1>2 DEF Reports, Live
  <2>3. /\ report'[t] = {Health(sessions[t])}
        /\ \A u \in Tenants \ {t} : report'[u] = report[u]
    BY <1>types, <2>1
  <2>4. LET h == Health(sessions[t]) IN
        /\ h.gen = sessions[t].gen /\ h.processed = sessions[t].processed
        /\ h.failures = sessions[t].failures
    BY DEF Health
  <2> HIDE DEF Health
  <2>5. ReportsAreOld'
    <3>1. ASSUME NEW u \in Tenants
          PROVE  /\ \A old, new \in report'[u] : old = new
                 /\ \A old \in report'[u] :
                       /\ old.gen <= Len(registry)
                       /\ u \in Live =>
                            LET s == sessions[u] IN
                            \/ old.gen < s.gen
                            \/ /\ old.gen = s.gen /\ old.processed <= s.processed
                               /\ old.failures <= s.failures
      <4>1. CASE u = t
        BY <1>types, <2>3, <2>4, <4>1
      <4>2. CASE u # t
        BY <2>3, <4>2 DEF ReportsAreOld
      <4> QED
        BY <4>1, <4>2
    <3> QED
      BY <2>2, <3>1 DEF ReportsAreOld
  <2>6. NoReportGoesBack
    <3>1. ASSUME NEW u \in Tenants, NEW old \in report[u], NEW new \in report'[u]
          PROVE  \/ old.gen < new.gen
                 \/ /\ old.gen = new.gen
                    /\ old.processed <= new.processed
                    /\ old.failures <= new.failures
      <4>1. CASE u = t
        BY <2>3, <2>4, <4>1, <3>1 DEF ReportsAreOld
      <4>2. CASE u # t
        <5>1. old = new
          BY <2>3, <4>2, <3>1 DEF ReportsAreOld
        <5> QED
          BY <1>types, <5>1
      <4> QED
        BY <4>1, <4>2
    <3> QED
      BY <3>1 DEF NoReportGoesBack
  <2> QED
    BY <2>5, <2>6
<1> QED
  BY <1>1, <1>2, CallsLast

-----------------------------------------------------------------------------
(* The invariant and what follows from it.                                  *)

LInv ==
    /\ IInv
    /\ QuestionsAreKept
    /\ AnswersFollowQuestions
    /\ AnswersAreNumbered
    /\ CountersMatchContext
    /\ RequestsAreKept
    /\ ReportsAreOld

LEMMA LInvInit == Init => LInv
<1> SUFFICES ASSUME Init PROVE LInv
  OBVIOUS
<1>1. Live = {} /\ sent = {} /\ Len(registry) = 0
  BY DEF Init, Live
<1>2. IInv
  BY IInvInit
<1>3. \A c \in Calls : pc[c] = "idle" /\ bornIn[c] = 0
  BY DEF Init
<1>4. \A t \in Tenants : report[t] = {}
  BY DEF Init
<1> QED
  BY <1>1, <1>2, <1>3, <1>4 DEF LInv, QuestionsAreKept, AnswersFollowQuestions,
     AnswersAreNumbered, CountersMatchContext, RequestsAreKept, ReportsAreOld

LEMMA LInvNext == LInv /\ [Next]_vars => LInv'
  BY IInvNext, QuestionsAreKeptNext, OrderNext, NumbersNext, CountersNext, RequestsNext,
     ReportsNext DEF LInv

\* Each context has at most one question and one answer of a call, the
\* answer later unless the question went to an earlier session (host.rs:111,
\* 126-149).
THEOREM AnswersFollow == Spec => []AnswersFollowQuestions
<1>1. LInv => AnswersFollowQuestions
  BY DEF LInv
<1> QED
  BY LInvInit, LInvNext, <1>1, PTL DEF Spec

\* messages_processed is the number of questions in the context and of the
\* calls that asked this session (host.rs:111-113).
THEOREM CountersMatch == Spec => []CountersMatchContext
<1>1. LInv => CountersMatchContext
  BY DEF LInv
<1> QED
  BY LInvInit, LInvNext, <1>1, PTL DEF Spec

\* A resp-N id is shared by overlapping calls only (host.rs:137-140).
THEOREM IdsAreShared == Spec => []SharedIdsMeanOverlap
<1>1. LInv => SharedIdsMeanOverlap
  BY DEF LInv, AnswersAreNumbered, WellNumbered, SharedIdsMeanOverlap
<1> QED
  BY LInvInit, LInvNext, <1>1, PTL DEF Spec

\* A request is a prefix of its session's context and holds its caller's
\* message (host.rs:93-99, 116-122).
THEOREM RequestsAreTaken == Spec => []RequestsAreSnapshots
<1>1. LInv => RequestsAreSnapshots
  BY KeptRequestsAreSnapshots DEF LInv
<1> QED
  BY LInvInit, LInvNext, <1>1, PTL DEF Spec

\* While a session lives its context only grows at its end and its counters
\* never fall (context/types.rs:131-133, host.rs:111-113).
THEOREM ContextGrows == Spec => ContextOnlyGrows
<1>1. LInv /\ [Next]_vars =>
        [\A t \in Live \cap DOMAIN sessions' :
          LET s == sessions[t]
              z == sessions'[t] IN
          s.gen = z.gen =>
              /\ IsPrefix(s.messages, z.messages)
              /\ Len(z.messages) <= Len(s.messages) + 1
              /\ s.processed <= z.processed
              /\ s.failures <= z.failures
              /\ s.config = z.config]_vars
  <2> SUFFICES ASSUME LInv, [Next]_vars, NEW t \in Live \cap DOMAIN sessions'
               PROVE  LET s == sessions[t]
                          z == sessions'[t] IN
                      /\ IsPrefix(s.messages, z.messages)
                      /\ Len(z.messages) <= Len(s.messages) + 1
                      /\ s.processed <= z.processed
                      /\ s.failures <= z.failures
                      /\ s.config = z.config
    OBVIOUS
  <2>1. LInv' /\ t \in Live'
    BY LInvNext DEF Live
  <2>2. sessions[t] \in Session /\ sessions'[t] \in Session
    BY <2>1 DEF LInv, IInv, TypeOK
  <2>3. Lasts(sessions[t], sessions'[t])
    BY <2>1, SessionsLast DEF LInv
  <2>4. sessions[t].messages \in Seq(Turn) /\ sessions'[t].messages \in Seq(Turn)
    BY <2>2 DEF Session
  <2>5. IsPrefix(sessions[t].messages, sessions'[t].messages)
    BY <2>3, <2>4, PrefixByElements DEF Lasts
  <2> QED
    BY <2>3, <2>5 DEF Lasts
<1> QED
  BY LInvInit, LInvNext, <1>1, PTL DEF Spec, ContextOnlyGrows

\* Health reports about one session never go back (host.rs:229-243).
THEOREM HealthAdvances == Spec => HealthNeverGoesBack
<1>1. LInv /\ [Next]_vars =>
        [\A t \in Tenants : \A old \in report[t] : \A new \in report'[t] :
          \/ old.gen < new.gen
          \/ /\ old.gen = new.gen
             /\ old.processed <= new.processed
             /\ old.failures <= new.failures]_vars
  BY ReportsNext DEF LInv, NoReportGoesBack
<1> QED
  BY LInvInit, LInvNext, <1>1, PTL DEF Spec, HealthNeverGoesBack

-----------------------------------------------------------------------------
(* The host implements TenantLog.                                           *)

\* A turn at the end of a context is an entry at the end of the log.
LEMMA EntriesOfExtended ==
    ASSUME NEW s \in Session, NEW z \in Session, NEW m \in Turn,
           z.messages = Append(s.messages, m)
    PROVE  Entries(z) = Append(Entries(s), Entry(m))
<1>1. s.messages \in Seq(Turn)
  BY DEF Session
<1> DEFINE E == [kind : {"question", "answer"}, call : Calls]
           n == Len(s.messages)
<1>2. \A x \in Turn : Entry(x) \in E
  BY DEF Entry, Turn
<1>3. n \in Nat /\ Len(z.messages) = n + 1
      /\ DOMAIN s.messages = 1..n /\ DOMAIN z.messages = 1..(n + 1)
      /\ \A i \in 1..n : s.messages[i] \in Turn /\ z.messages[i] = s.messages[i]
      /\ z.messages[n + 1] = m
  BY <1>1, SessionFacts, AppendFacts
<1> HIDE DEF E, n
<1>4. /\ Entries(s) = [i \in 1..n |-> Entry(s.messages[i])]
      /\ Entries(z) = [i \in 1..(n + 1) |-> Entry(z.messages[i])]
  BY <1>3 DEF Entries
<1>5. Entries(s) \in Seq(E) /\ Len(Entries(s)) = n
  BY <1>2, <1>3, <1>4
<1>6. \A i \in 1..(n + 1) : Entry(z.messages[i]) \in E
  BY <1>2, <1>3
<1>7. Entries(z) \in Seq(E) /\ Len(Entries(z)) = n + 1
  BY <1>3, <1>4, <1>6
<1> DEFINE w == Append(Entries(s), Entry(m))
<1>8. /\ w \in Seq(E) /\ Len(w) = n + 1
      /\ \A i \in 1..n : w[i] = Entries(s)[i]
      /\ w[n + 1] = Entry(m)
  BY <1>2, <1>5, AppendFacts
<1>9. \A i \in 1..(n + 1) : Entries(z)[i] = w[i]
  BY <1>3, <1>4, <1>8
<1> HIDE DEF w
<1>10. Entries(z) = w
  BY <1>7, <1>8, <1>9
<1> QED
  BY <1>10 DEF w

\* Where a call stands in the log, for each place it stands in the host
LEMMA StatusFacts ==
    ASSUME NEW c \in Calls
    PROVE  /\ pc[c] = "idle" => Status(c) = "new"
           /\ pc[c] \in InFlight => Status(c) = "asked"
           /\ pc[c] = "ok" => Status(c) = "answered"
           /\ pc[c] \in Failed => Status(c) = "failed"
  BY DEF Status, InFlight, Failed

LEMMA StatusAfter ==
    ASSUME NEW c \in Calls
    PROVE  /\ pc'[c] = "idle" => Status(c)' = "new"
           /\ pc'[c] \in InFlight => Status(c)' = "asked"
           /\ pc'[c] = "ok" => Status(c)' = "answered"
           /\ pc'[c] \in Failed => Status(c)' = "failed"
  BY DEF Status, InFlight, Failed

LEMMA LogStep ==
    ASSUME IInv, [Next]_vars
    PROVE  [Log!LogNext]_(Log!logVars)
<1> DEFINE L == [t \in Live |-> Entries(sessions[t])]
           S == [c \in Calls |-> Status(c)]
<1>types. /\ \A t \in Live : sessions[t] \in Session
          /\ pc \in [Calls -> {"idle"} \cup InFlight \cup Final]
          /\ tenant \in [Calls -> Tenants] /\ Live \subseteq Tenants
  BY DEF IInv, TypeOK
<1>status. \A c \in Calls : pc'[c] = pc[c] => Status(c)' = Status(c)
  BY DEF Status
<1>1. ASSUME NEW t \in Tenants, Adds(t)
      PROVE  Log!Open(t)
  <2>1. Entries(sessions'[t]) = <<>>
    BY <1>1 DEF Adds, Entries
  <2>2. L' = [u \in Live \cup {t} |-> IF u = t THEN <<>> ELSE L[u]]
    BY <1>1, <2>1 DEF Adds
  <2>3. S' = S /\ tenant' = tenant /\ t \notin Live
    BY <1>1, <1>status DEF Adds
  <2> QED
    BY <2>2, <2>3 DEF Log!Open, Log!Registered
<1>2. ASSUME NEW t \in Tenants, Drops(t)
      PROVE  Log!Close(t)
  <2>1. L' = [u \in Live \ {t} |-> L[u]]
    BY <1>2 DEF Drops
  <2>2. S' = S /\ tenant' = tenant /\ t \in Live
    BY <1>2, <1>status DEF Drops
  <2> QED
    BY <2>1, <2>2 DEF Log!Close, Log!Registered
<1>3. ASSUME NEW c \in Calls, NEW z \in Session, NEW m \in Turn, Extends(c, z, m)
      PROVE  /\ tenant' = tenant /\ tenant[c] \in Live
             /\ \A e : Entry(m) = e => L' = [L EXCEPT ![tenant[c]] = Append(@, e)]
  <2>1. /\ tenant[c] \in Live /\ Live' = Live /\ sessions'[tenant[c]] = z
        /\ \A u \in Live \ {tenant[c]} : sessions'[u] = sessions[u]
        /\ z.messages = Append(sessions[tenant[c]].messages, m)
        /\ tenant' = tenant
    BY <1>3 DEF Extends
  <2>2. Entries(z) = Append(Entries(sessions[tenant[c]]), Entry(m))
    BY <1>types, <2>1, EntriesOfExtended
  <2> QED
    BY <2>1, <2>2
<1>4. ASSUME NEW c \in Calls, Asks(c)
      PROVE  Log!Ask(c)
  <2>1. PICK z \in Session : Extends(c, z, UserTurn(c))
    BY <1>4 DEF Asks
  <2>2. UserTurn(c) \in Turn
    BY <2>1 DEF Extends
  <2>3. Entry(UserTurn(c)) = Log!Question(c)
    BY DEF Entry, UserTurn, Log!Question
  <2>4. /\ L' = [L EXCEPT ![tenant[c]] = Append(@, Log!Question(c))]
        /\ tenant' = tenant /\ tenant[c] \in Live
    <3> HIDE DEF L
    <3> QED
      BY <1>3, <2>1, <2>2, <2>3
  <2>5. Status(c) = "new" /\ Status(c)' = "asked"
        /\ \A d \in Calls \ {c} : Status(d)' = Status(d)
    BY <1>4, <1>types, <1>status, StatusFacts, StatusAfter DEF Asks, InFlight
  <2>6. S' = [S EXCEPT ![c] = "asked"]
    BY <2>5
  <2> QED
    BY <2>4, <2>5, <2>6 DEF Log!Ask, Log!Registered, Log!Enter
<1>5. ASSUME NEW c \in Calls, Responds(c)
      PROVE  Log!Conclude(c)
  <2> DEFINE m == AssistantTurn(c, sessions[tenant[c]])
  <2>1. PICK z \in Session : Extends(c, z, m)
    BY <1>5 DEF Responds
  <2>2. m \in Turn
    BY <2>1 DEF Extends
  <2>3. Entry(m) = Log!Answer(c)
    BY DEF Entry, AssistantTurn, Log!Answer
  <2>4. /\ L' = [L EXCEPT ![tenant[c]] = Append(@, Log!Answer(c))]
        /\ tenant' = tenant /\ tenant[c] \in Live
    <3> HIDE DEF L
    <3> QED
      BY <1>3, <2>1, <2>2, <2>3
  <2>5. Status(c) = "asked" /\ Status(c)' = "answered"
        /\ \A d \in Calls \ {c} : Status(d)' = Status(d)
    BY <1>5, <1>types, <1>status, StatusFacts, StatusAfter DEF Responds, InFlight
  <2>6. S' = [S EXCEPT ![c] = "answered"]
    BY <2>5
  <2> QED
    BY <2>4, <2>5, <2>6 DEF Log!Conclude, Log!Registered, Log!Enter
<1>6. ASSUME NEW c \in Calls, Moves(c)
      PROVE  \/ Log!Conclude(c)
             \/ Log!Fail(c)
             \/ UNCHANGED Log!logVars
  <2>1. L' = L /\ tenant' = tenant
    BY <1>6 DEF Moves, Live
  <2>2. CASE pc[c] = "waiting" /\ pc' = [pc EXCEPT ![c] = "answered"]
    <3>1. \A d \in Calls : Status(d)' = Status(d)
      BY <1>types, <1>status, <2>2, StatusFacts, StatusAfter DEF InFlight
    <3>2. S' = S
      BY <3>1
    <3> QED
      BY <2>1, <3>2 DEF Log!logVars
  <2>3. ASSUME NEW q \in Failed, pc' = [pc EXCEPT ![c] = q],
               pc[c] \in InFlight \/ (pc[c] = "idle" /\ tenant[c] \notin Live)
        PROVE  Log!Fail(c)
    <3>1. Status(c)' = "failed" /\ \A d \in Calls \ {c} : Status(d)' = Status(d)
      BY <1>types, <1>status, <2>3, StatusAfter
    <3>2. S' = [S EXCEPT ![c] = "failed"]
      BY <3>1
    <3>3. Status(c) = "asked" \/ (Status(c) = "new" /\ tenant[c] \notin Live)
      BY <2>3, StatusFacts
    <3> QED
      BY <2>1, <3>2, <3>3 DEF Log!Fail, Log!Registered
  <2>4. CASE pc[c] = "answered" /\ tenant[c] \notin Live /\ pc' = [pc EXCEPT ![c] = "ok"]
    <3>1. Status(c) = "asked" /\ Status(c)' = "answered"
          /\ \A d \in Calls \ {c} : Status(d)' = Status(d)
      BY <1>types, <1>status, <2>4, StatusFacts, StatusAfter DEF InFlight
    <3>2. S' = [S EXCEPT ![c] = "answered"]
      BY <3>1
    <3> QED
      BY <2>1, <2>4, <3>1, <3>2 DEF Log!Conclude, Log!Registered
  <2>5. "not_found" \in Failed
    BY DEF Failed
  <2> QED
    BY <1>6, <2>2, <2>3, <2>4, <2>5 DEF Moves
<1>7. ASSUME NEW c \in Calls, Snapshots(c)
      PROVE  UNCHANGED Log!logVars
  <2>1. L' = L /\ tenant' = tenant
    BY <1>7 DEF Snapshots, Live
  <2>2. \A d \in Calls : Status(d)' = Status(d)
    BY <1>7, <1>types, <1>status, StatusFacts, StatusAfter DEF Snapshots, InFlight
  <2>3. S' = S
    BY <2>2
  <2> QED
    BY <2>1, <2>3 DEF Log!logVars
<1>8. ASSUME \/ \E t \in Tenants : CountsFailure(t)
             \/ Reports
             \/ Rests
      PROVE  UNCHANGED Log!logVars
  <2>1. /\ Live' = Live /\ \A u \in Live : sessions'[u].messages = sessions[u].messages
        /\ tenant' = tenant /\ pc' = pc
    BY <1>8 DEF CountsFailure, Reports, Rests, Live
  <2>2. L' = L
    BY <2>1 DEF Entries
  <2>3. S' = S
    BY <2>1, <1>status
  <2> QED
    BY <2>1, <2>2, <2>3 DEF Log!logVars
<1> QED
  BY <1>1, <1>2, <1>4, <1>5, <1>6, <1>7, <1>8, StepEffects DEF Log!LogNext

\* Requests, other calls and the gaps between critical sections do not show
\* in the tenants' logs (session/mod.rs:34-47).
THEOREM HostImplementsLog == Spec => ImplementsTenantLog
<1>1. Init => Log!LogInit
  <2> SUFFICES ASSUME Init PROVE Log!LogInit
    OBVIOUS
  <2>1. Live = {} /\ \A c \in Calls : Status(c) = "new"
    BY StatusFacts DEF Init, Live
  <2>2. [t \in Live |-> Entries(sessions[t])] = <<>>
    BY <2>1
  <2>3. [c \in Calls |-> Status(c)] = [c \in Calls |-> "new"]
    BY <2>1
  <2>4. tenant \in [Calls -> Tenants]
    BY DEF Init
  <2> QED
    BY <2>2, <2>3, <2>4 DEF Log!LogInit
<1>2. LInv /\ [Next]_vars => [Log!LogNext]_(Log!logVars)
  BY LogStep DEF LInv
<1> QED
  BY LInvInit, LInvNext, <1>1, <1>2, PTL DEF Spec, ImplementsTenantLog, Log!LogSpec
=============================================================================
