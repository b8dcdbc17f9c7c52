----------------------- MODULE VerifiedSessionProofs ------------------------
(* The canonical encoding tells every two messages apart whose texts fit   *)
(* their length prefixes; so what verify accepts was signed, and only that *)
(* reaches a context or the provider.                                      *)
EXTENDS VerifiedSession, SessionHostProofs, SequenceTheorems

\* Concatenation of bytes, as an operator of its own.
Glue(a, b) == a \o b

LEMMA GlueFacts ==
    /\ \A a, b \in Bytes : Glue(a, b) \in Bytes
    /\ \A a, b, c \in Bytes : Glue(Glue(a, b), c) = Glue(a, Glue(b, c))
    /\ \A a \in Bytes : Glue(a, <<>>) = a
<1>1. \A a, b \in Bytes : Glue(a, b) \in Bytes
  BY ConcatProperties DEF Glue, Bytes
<1>2. \A a, b, c \in Bytes : Glue(Glue(a, b), c) = Glue(a, Glue(b, c))
  BY ConcatAssociative, SMTT(30) DEF Glue, Bytes
<1>3. \A a \in Bytes : Glue(a, <<>>) = a
  BY ConcatEmptySeq DEF Glue, Bytes
<1> QED
  BY <1>1, <1>2, <1>3

\* A number below the modulus is its own remainder.
LEMMA SmallRemainder ==
    ASSUME NEW n \in Nat, NEW k \in Nat, n < k
    PROVE  n % k = n
OBVIOUS

\* An element before two sequences: they are equal if the wholes are.
LEMMA FirstAndRest ==
    ASSUME NEW n \in Nat, NEW k \in Nat, NEW x \in Bytes, NEW y \in Bytes,
           Glue(<<n>>, x) = Glue(<<k>>, y)
    PROVE  n = k /\ x = y
<1> USE DEF Bytes, Glue
<1>1. (<<n>> \o x)[1] = n /\ (<<k>> \o y)[1] = k
  OBVIOUS
<1>2. n = k
  BY <1>1
<1>3. <<n>> \in Seq(Nat)
  OBVIOUS
<1> QED
  BY <1>2, <1>3, ConcatSimplifications

\* Two sequences of one length before two others: parts are equal if the
\* wholes are.
LEMMA FrontAndRest ==
    ASSUME NEW a \in Seq(Nat), NEW b \in Seq(Nat), NEW x \in Seq(Nat), NEW y \in Seq(Nat),
           Len(a) = Len(b), a \o x = b \o y
    PROVE  a = b /\ x = y
<1>1. \A i \in 1..Len(a) : a[i] = b[i]
  <2> TAKE i \in 1..Len(a)
  <2>1. (a \o x)[i] = a[i] /\ (b \o y)[i] = b[i]
    OBVIOUS
  <2> QED
    BY <2>1
<1>2. a = b
  BY <1>1, SeqEqual
<1> QED
  BY <1>2, ConcatSimplifications

\* A text whose length its prefix holds ends where the prefix says.
LEMMA PrefixedIsRead ==
    ASSUME NEW a \in Bytes, NEW b \in Bytes, NEW x \in Bytes, NEW y \in Bytes,
           Len(a) < LengthLimit, Len(b) < LengthLimit,
           Glue(LengthPrefixed(a), x) = Glue(LengthPrefixed(b), y)
    PROVE  a = b /\ x = y
<1>1. Len(a) \in Nat /\ Len(b) \in Nat
  BY LenProperties DEF Bytes
<1>2. Len(a) % LengthLimit = Len(a) /\ Len(b) % LengthLimit = Len(b)
  BY <1>1, LengthLimitIsPositive, SmallRemainder
<1> DEFINE la == Len(a)
           lb == Len(b)
<1>3. LengthPrefixed(a) = Glue(<<la>>, a) /\ LengthPrefixed(b) = Glue(<<lb>>, b)
  BY <1>2 DEF LengthPrefixed, Glue
<1>4. la \in Nat /\ lb \in Nat
  BY <1>1
<1> HIDE DEF la, lb
<1>5. <<la>> \in Bytes /\ <<lb>> \in Bytes
  BY <1>4 DEF Bytes
<1>6. Glue(<<la>>, Glue(a, x)) = Glue(<<lb>>, Glue(b, y))
  BY <1>3, <1>5, GlueFacts
<1>7. Glue(a, x) \in Bytes /\ Glue(b, y) \in Bytes
  BY GlueFacts
<1>8. la = lb /\ Glue(a, x) = Glue(b, y)
  BY <1>4, <1>6, <1>7, FirstAndRest
<1> QED
  BY <1>8, FrontAndRest DEF la, lb, Glue, Bytes

\* The encoding of a message from its last text to its first.
Tail4(m) == Glue(LengthPrefixed(m.author), LengthPrefixed(m.content))
Tail3(m) == Glue(<<m.timestamp>>, Tail4(m))
Tail2(m) == Glue(LengthPrefixed(m.message_id), Tail3(m))

LEMMA EncodingFromTheFront ==
    ASSUME NEW m \in Message
    PROVE  /\ CanonicalBytes(m) = Glue(LengthPrefixed(m.channel_id), Tail2(m))
           /\ Tail2(m) \in Bytes /\ Tail3(m) \in Bytes /\ Tail4(m) \in Bytes
           /\ LengthPrefixed(m.content) \in Bytes
<1>1. \A q \in Bytes : LengthPrefixed(q) \in Bytes
  <2> TAKE q \in Bytes
  <2>1. Len(q) \in Nat
    BY LenProperties DEF Bytes
  <2>2. Len(q) % LengthLimit \in Nat
    BY <2>1, LengthLimitIsPositive
  <2>3. <<Len(q) % LengthLimit>> \in Bytes
    BY <2>2 DEF Bytes
  <2> QED
    BY <2>3, GlueFacts DEF LengthPrefixed, Glue
<1>2. m.channel_id \in Bytes /\ m.message_id \in Bytes /\ m.author \in Bytes
      /\ m.content \in Bytes /\ m.timestamp \in Nat
  BY DEF Message
<1>3. <<m.timestamp>> \in Bytes
  BY <1>2 DEF Bytes
<1> DEFINE p1 == LengthPrefixed(m.channel_id)
           p2 == LengthPrefixed(m.message_id)
           p3 == <<m.timestamp>>
           p4 == LengthPrefixed(m.author)
           p5 == LengthPrefixed(m.content)
<1>4. p1 \in Bytes /\ p2 \in Bytes /\ p3 \in Bytes /\ p4 \in Bytes /\ p5 \in Bytes
  BY <1>1, <1>2, <1>3
<1>5. CanonicalBytes(m) = Glue(Glue(Glue(Glue(p1, p2), p3), p4), p5)
  BY DEF CanonicalBytes, Glue
<1>6. Tail4(m) = Glue(p4, p5) /\ Tail3(m) = Glue(p3, Tail4(m)) /\ Tail2(m) = Glue(p2, Tail3(m))
  BY DEF Tail4, Tail3, Tail2
<1> HIDE DEF p1, p2, p3, p4, p5
<1>7. Glue(p1, p2) \in Bytes /\ Glue(Glue(p1, p2), p3) \in Bytes
  BY <1>4, GlueFacts
<1>8. Tail4(m) \in Bytes
  BY <1>4, <1>6, GlueFacts
<1>9. Tail3(m) \in Bytes
  BY <1>4, <1>6, <1>8, GlueFacts
<1>10. Tail2(m) \in Bytes
  BY <1>4, <1>6, <1>9, GlueFacts
<1>11. CanonicalBytes(m) = Glue(Glue(Glue(p1, p2), p3), Tail4(m))
  BY <1>4, <1>5, <1>6, <1>7, GlueFacts
<1>12. CanonicalBytes(m) = Glue(Glue(p1, p2), Tail3(m))
  BY <1>4, <1>6, <1>7, <1>8, <1>11, GlueFacts
<1>13. CanonicalBytes(m) = Glue(p1, Tail2(m))
  BY <1>4, <1>6, <1>9, <1>12, GlueFacts
<1> QED
  BY <1>4, <1>8, <1>9, <1>10, <1>13 DEF p1, p5

\* However the bytes of two messages are divided among their fields, they
\* have one encoding only if they are one message (verify/types.rs:25-38).
THEOREM EncodingTellsMessagesApart ==
    ASSUME NEW m \in Message, NEW n \in Message,
           FitsPrefixes(m), FitsPrefixes(n),
           CanonicalBytes(m) = CanonicalBytes(n)
    PROVE  m = n
<1>1. /\ Len(m.channel_id) < LengthLimit /\ Len(n.channel_id) < LengthLimit
      /\ Len(m.message_id) < LengthLimit /\ Len(n.message_id) < LengthLimit
      /\ Len(m.author) < LengthLimit /\ Len(n.author) < LengthLimit
      /\ Len(m.content) < LengthLimit /\ Len(n.content) < LengthLimit
  BY DEF FitsPrefixes
<1>2. /\ m.channel_id \in Bytes /\ m.message_id \in Bytes /\ m.author \in Bytes
      /\ m.content \in Bytes /\ m.timestamp \in Nat
      /\ n.channel_id \in Bytes /\ n.message_id \in Bytes /\ n.author \in Bytes
      /\ n.content \in Bytes /\ n.timestamp \in Nat
  BY DEF Message
<1>3. /\ Tail2(m) \in Bytes /\ Tail3(m) \in Bytes /\ Tail4(m) \in Bytes
      /\ Tail2(n) \in Bytes /\ Tail3(n) \in Bytes /\ Tail4(n) \in Bytes
      /\ LengthPrefixed(m.content) \in Bytes /\ LengthPrefixed(n.content) \in Bytes
  BY EncodingFromTheFront
<1>4. m.channel_id = n.channel_id /\ Tail2(m) = Tail2(n)
  <2>1. Glue(LengthPrefixed(m.channel_id), Tail2(m))
          = Glue(LengthPrefixed(n.channel_id), Tail2(n))
    BY EncodingFromTheFront
  <2> QED
    BY <1>1, <1>2, <1>3, <2>1, PrefixedIsRead
<1>5. m.message_id = n.message_id /\ Tail3(m) = Tail3(n)
  <2>1. Glue(LengthPrefixed(m.message_id), Tail3(m))
          = Glue(LengthPrefixed(n.message_id), Tail3(n))
    BY <1>4 DEF Tail2
  <2> QED
    BY <1>1, <1>2, <1>3, <2>1, PrefixedIsRead
<1>6. m.timestamp = n.timestamp /\ Tail4(m) = Tail4(n)
  <2>1. Glue(<<m.timestamp>>, Tail4(m)) = Glue(<<n.timestamp>>, Tail4(n))
    BY <1>5 DEF Tail3
  <2> QED
    BY <1>2, <1>3, <2>1, FirstAndRest
<1>7. m.author = n.author /\ LengthPrefixed(m.content) = LengthPrefixed(n.content)
  <2>1. Glue(LengthPrefixed(m.author), LengthPrefixed(m.content))
          = Glue(LengthPrefixed(n.author), LengthPrefixed(n.content))
    BY <1>6 DEF Tail4
  <2> QED
    BY <1>1, <1>2, <1>3, <2>1, PrefixedIsRead
<1>8. m.content = n.content
  <2>1. <<>> \in Bytes
    BY DEF Bytes
  <2>2. Glue(LengthPrefixed(m.content), <<>>) = Glue(LengthPrefixed(n.content), <<>>)
    BY <1>7
  <2> QED
    BY <1>1, <1>2, <2>1, <2>2, PrefixedIsRead
<1> QED
  BY <1>4, <1>5, <1>6, <1>7, <1>8 DEF Message

-----------------------------------------------------------------------------
\* What verify accepts is a message that was signed, not only its MAC.
LEMMA AcceptedWasSigned ==
    ASSUME NEW w \in Wire, Verify(w) = "Ok"
    PROVE  w.message \in Signed
<1>1. w.signature = Mac(Key, w.message)
  BY DEF Verify
<1>2. PICK m \in Signed : Mac(Key, w.message) = Mac(Key, m)
  BY <1>1, WireIsUnforged
<1>3. CanonicalBytes(w.message) = CanonicalBytes(m)
  BY <1>2 DEF Mac
<1>4. w.message \in Message /\ m \in Message
  BY WireIsUnforged, SignedAreMessages
<1>5. FitsPrefixes(w.message) /\ FitsPrefixes(m)
  BY TextsFitTheirPrefix
<1> QED
  BY <1>3, <1>4, <1>5, EncodingTellsMessagesApart

\* A call that was started has a verified message, one that was signed; and
\* what was sent holds messages of started calls.
CallsAreVerified ==
    /\ verified \in [Calls -> SUBSET Signed]
    /\ \A c \in Calls : verified[c] = {} \/ \E m \in Signed : verified[c] = {m}
    /\ \A c \in Calls : pc[c] # "idle" => verified[c] # {}
    /\ \A r \in sent : \A i \in 1..Len(r.messages) : pc[r.messages[i].call] # "idle"

VInv == IInv /\ CallsAreVerified

\* A step of the composition is one of the host, or leaves it alone.
LEMMA HostTakesItsSteps == VerifiedNext => [Next]_vars
  BY DEF VerifiedNext, VerifyMessage, VerifiedCallStep, HostStep, Next

\* A call once started stays so, and requests are added from its context.
LEMMA StartedStays ==
    ASSUME IInv, Next
    PROVE  /\ \A c \in Calls : pc[c] # "idle" => pc'[c] # "idle"
           /\ \A r \in sent' : r \in sent \/ \E c \in Calls :
                 tenant[c] \in Live /\ r = ToCompletionRequest(c, sessions[tenant[c]])
<1>shapes. pc \in [Calls -> {"idle"} \cup InFlight \cup Final]
  BY DEF IInv, TypeOK
<1> USE DEF healthVars, callVars
<1>1. ASSUME NEW c \in Calls, PushMessage(c) \/ BuildRequest(c)
      PROVE  /\ \A d \in Calls : pc[d] # "idle" => pc'[d] # "idle"
             /\ \A r \in sent' : r \in sent \/ \E d \in Calls :
                   tenant[d] \in Live /\ r = ToCompletionRequest(d, sessions[tenant[d]])
  BY <1>1, <1>shapes DEF PushMessage, BuildRequest
<1>2. ASSUME NEW c \in Calls, ProviderReplies(c) \/ ProviderFails(c)
                              \/ AppendResponse(c) \/ Cancel(c)
      PROVE  (\A d \in Calls : pc[d] # "idle" => pc'[d] # "idle") /\ sent' = sent
  BY <1>2, <1>shapes DEF ProviderReplies, ProviderFails, AppendResponse, Cancel
<1>3. ASSUME ~\E c \in Calls : CallStep(c) \/ Cancel(c)
      PROVE  pc' = pc /\ sent' = sent
  BY <1>3 DEF Next, RegisterTenant, RemoveTenant, RecordVerificationFailure, StartHealth,
     SetConnected, FinishHealth
<1> QED
  BY <1>1, <1>2, <1>3 DEF CallStep

LEMMA VInvInit == VerifiedInit => VInv
  BY IInvInit DEF VerifiedInit, Init, VInv, CallsAreVerified

LEMMA VInvNext == VInv /\ [VerifiedNext]_vvars => VInv'
<1> SUFFICES ASSUME VInv, [VerifiedNext]_vvars
             PROVE  VInv'
  OBVIOUS
<1>1. [Next]_vars
  BY HostTakesItsSteps DEF vvars
<1>2. IInv'
  BY <1>1, IInvNext DEF VInv
<1>3. ASSUME NEW c \in Calls, NEW w \in Wire, VerifyMessage(c, w)
      PROVE  CallsAreVerified'
  <2>1. /\ w.message \in Signed
        /\ verified' = [verified EXCEPT ![c] = {w.message}]
        /\ pc' = pc /\ sent' = sent
    BY <1>3, AcceptedWasSigned DEF VerifyMessage, vars
  <2>2. verified \in [Calls -> SUBSET Signed]
    BY DEF VInv, CallsAreVerified
  <2> QED
    BY <2>1, <2>2 DEF VInv, CallsAreVerified
<1>4. ASSUME Next, verified' = verified,
             \A c \in Calls : pc[c] = "idle" /\ pc'[c] # "idle" => verified[c] # {}
      PROVE  CallsAreVerified'
  <2>1. /\ \A c \in Calls : pc[c] # "idle" => pc'[c] # "idle"
        /\ \A r \in sent' : r \in sent \/ \E c \in Calls :
              tenant[c] \in Live /\ r = ToCompletionRequest(c, sessions[tenant[c]])
    BY <1>4, StartedStays DEF VInv
  <2>2. ASSUME NEW r \in sent', NEW i \in 1..Len(r.messages)
        PROVE  pc'[r.messages[i].call] # "idle"
    <3>1. CASE r \in sent
      <4>1. r.messages[i].call \in Calls
        <5>1. r.messages \in Seq(Chat)
          BY <3>1 DEF VInv, IInv, TypeOK, Request
        <5>2. r.messages[i] \in Chat
          BY <5>1
        <5> QED
          BY <5>2 DEF Chat
      <4>2. pc[r.messages[i].call] # "idle"
        BY <3>1 DEF VInv, CallsAreVerified
      <4> QED
        BY <2>1, <4>1, <4>2
    <3>2. CASE r \notin sent
      <4>1. PICK c \in Calls : tenant[c] \in Live
                               /\ r = ToCompletionRequest(c, sessions[tenant[c]])
        BY <2>1, <3>2
      <4> DEFINE s == sessions[tenant[c]]
      <4>2. s \in Session
        BY <4>1 DEF VInv, IInv, TypeOK
      <4> HIDE DEF s
      <4>3. /\ Len(r.messages) = Len(s.messages)
            /\ r.messages[i].call = s.messages[i].call
        BY <4>1, <4>2, RequestFacts DEF s
      <4>4. s.messages[i].call \in Calls
        <5>1. s.messages \in Seq(Turn)
          BY <4>2 DEF Session
        <5>2. s.messages[i] \in Turn
          BY <4>3, <5>1
        <5> QED
          BY <5>2 DEF Turn
      <4>5. pc[s.messages[i].call] # "idle"
        BY <4>1, <4>3 DEF s, VInv, IInv, TurnsAreOwn
      <4> QED
        BY <2>1, <4>3, <4>4, <4>5
    <3> QED
      BY <3>1, <3>2
  <2> QED
    BY <1>4, <2>1, <2>2 DEF VInv, CallsAreVerified
<1>shapes. pc \in [Calls -> {"idle"} \cup InFlight \cup Final]
  BY DEF VInv, IInv, TypeOK
<1>5. ASSUME NEW c \in Calls, VerifiedCallStep(c)
      PROVE  CallsAreVerified'
  <2>1. verified[c] # {} /\ verified' = verified /\ CallStep(c)
    BY <1>5 DEF VerifiedCallStep
  <2>2. \A d \in Calls \ {c} : pc'[d] = pc[d]
    BY <1>shapes, <2>1 DEF CallStep, PushMessage, BuildRequest, ProviderReplies, ProviderFails,
       AppendResponse
  <2> QED
    BY <1>4, <2>1, <2>2 DEF Next
<1>6. ASSUME HostStep
      PROVE  CallsAreVerified'
  <2>1. Next /\ verified' = verified
    BY <1>6 DEF HostStep, Next
  <2>2. \A c \in Calls : pc[c] = "idle" => pc'[c] = "idle"
    BY <1>6, <1>shapes DEF HostStep, Cancel, InFlight, RegisterTenant, RemoveTenant,
       RecordVerificationFailure, StartHealth, SetConnected, FinishHealth, callVars
  <2> QED
    BY <1>4, <2>1, <2>2
<1>7. ASSUME UNCHANGED vvars
      PROVE  CallsAreVerified'
  <2>1. verified' = verified /\ pc' = pc /\ sent' = sent
    BY <1>7 DEF vvars, vars, callVars
  <2> QED
    BY <2>1 DEF VInv, CallsAreVerified
<1>8. CallsAreVerified'
  BY <1>3, <1>5, <1>6, <1>7 DEF VerifiedNext
<1> QED
  BY <1>2, <1>8 DEF VInv

\* Whatever arrives, a question in a context or a request stands for one
\* message that was signed, with the fields it was signed with
\* (session/mod.rs:41-43, verify/hmac_verifier.rs:56-72).
THEOREM OnlySignedMessagesAreProcessed == VerifiedSpec => []ContextIsAuthentic
<1>1. VInv => ContextIsAuthentic
  <2> SUFFICES ASSUME VInv
               PROVE  ContextIsAuthentic
    OBVIOUS
  <2>1. \A c \in Calls : pc[c] # "idle" => \E m \in Signed : verified[c] = {m}
    BY DEF VInv, CallsAreVerified
  <2>2. ASSUME NEW t \in Live, NEW i \in Questions(sessions[t])
        PROVE  \E m \in Signed : verified[sessions[t].messages[i].call] = {m}
    <3>1. sessions[t].messages \in Seq(Turn) /\ i \in DOMAIN sessions[t].messages
      BY DEF VInv, IInv, TypeOK, Session, Questions
    <3>2. i \in 1..Len(sessions[t].messages)
      BY <3>1
    <3>3. sessions[t].messages[i] \in Turn
      BY <3>1, <3>2
    <3>4. sessions[t].messages[i].call \in Calls
      BY <3>3 DEF Turn
    <3>5. pc[sessions[t].messages[i].call] # "idle"
      BY <3>2 DEF VInv, IInv, TurnsAreOwn
    <3> QED
      BY <2>1, <3>4, <3>5
  <2>3. ASSUME NEW r \in sent, NEW i \in DOMAIN r.messages
        PROVE  \E m \in Signed : verified[r.messages[i].call] = {m}
    <3>1. r.messages \in Seq(Chat)
      BY DEF VInv, IInv, TypeOK, Request
    <3>2. i \in 1..Len(r.messages)
      BY <3>1
    <3>3. r.messages[i] \in Chat
      BY <3>1, <3>2
    <3>4. r.messages[i].call \in Calls
      BY <3>3 DEF Chat
    <3>5. pc[r.messages[i].call] # "idle"
      BY <3>2 DEF VInv, CallsAreVerified
    <3> QED
      BY <2>1, <3>4, <3>5
  <2> QED
    BY <2>2, <2>3 DEF ContextIsAuthentic
<1> QED
  BY <1>1, VInvInit, VInvNext, PTL DEF VerifiedSpec

\* What arrives on the wire, and what becomes of it, only decides which steps
\* of the host are taken (session/mod.rs:32-43).
THEOREM VerifiedSessionIsAHost == VerifiedSpec => Spec
<1>1. VerifiedInit => Init
  BY DEF VerifiedInit
<1>2. [VerifiedNext]_vvars => [Next]_vars
  BY HostTakesItsSteps DEF vvars
<1> QED
  BY <1>1, <1>2, PTL DEF VerifiedSpec, Spec

\* So whatever is proved of the host holds of it behind the verification:
\* among the rest, that health never goes back, that tenants stay apart and
\* that the conversations are those of a TenantLog (host.rs:88-243).
THEOREM VerifiedSessionKeepsItsPromises ==
    VerifiedSpec => HealthNeverGoesBack /\ ImplementsTenantLog /\ []TenantIsolation
BY VerifiedSessionIsAHost, HealthAdvances, HostImplementsLog, TenantsAreIsolated, PTL
=============================================================================
