-------------------------- MODULE SseParserProofs ---------------------------
(* That the parser's memory stays bounded, and that what it holds and has  *)
(* delivered is what the reference parser says of its log, for every set   *)
(* of limits and value lengths and logs of every length.                   *)
EXTENDS SseParser, ListLemmas

Entry == [field : Fields, value : Nat, ok : BOOLEAN]

Inv == TypeOK /\ AccumulationIsBounded

\* The empty sequence is a sequence over every set.
LEMMA EmptyIsASeq == \A S : <<>> \in Seq(S)
OBVIOUS

\* The log keeps its type, whichever line or reset is fed.
LEMMA LogType ==
    ASSUME fed \in Seq(Entry), NEW f \in Fields, NEW v \in Nat,
           NEW ok \in BOOLEAN, Log(f, v, ok)
    PROVE  fed' \in Seq(Entry)
<1>1. [field |-> f, value |-> v, ok |-> ok] \in Entry
  BY DEF Entry
<1> QED
  BY <1>1 DEF Log

\* The parser starts empty, and 0 is within every limit (lib.rs:90-96).
LEMMA InvInit == Init => Inv
<1> SUFFICES ASSUME Init PROVE TypeOK /\ AccumulationIsBounded
    BY DEF Inv
<1>1. max_event_data_bytes \in Limits /\ max_event_data_bytes \in Nat
  BY SseParserAssumption DEF Init
<1>2. event_type \in Options /\ signature \in Options
  BY DEF Init, Options
<1>3. /\ data \in Seq(Values) /\ data_len \in Nat /\ has_data \in BOOLEAN
      /\ fed \in Seq([field : Fields, value : Nat, ok : BOOLEAN])
      /\ delivered \in Seq(Event)
  BY EmptyIsASeq DEF Init
<1>4. AccumulationIsBounded
  BY <1>1 DEF Init, AccumulationIsBounded
<1> QED
  BY <1>1, <1>2, <1>3, <1>4 DEF TypeOK

\* Every operation of the parser keeps the type and the bound; only a data
\* line that was checked makes the data longer (lib.rs:112-177).
LEMMA InvNext == Inv /\ [Next]_vars => Inv'
<1> SUFFICES ASSUME TypeOK, AccumulationIsBounded, [Next]_vars
             PROVE  TypeOK' /\ AccumulationIsBounded'
    BY DEF Inv
<1>a. fed \in Seq(Entry)
  BY DEF TypeOK, Entry
<1>1. CASE FeedBlank
  <2>1. fed' \in Seq(Entry)
    BY <1>1, <1>a, LogType DEF FeedBlank, Fields
  <2>2. CASE has_data /\ ClearCurrent
    <3> DEFINE e == [event_type |-> event_type, signature |-> signature,
                     data |-> data, data_len |-> data_len, at |-> Len(fed) + 1]
    <3>1. delivered' = Append(delivered, e) /\ has_data' = FALSE
      BY <1>1, <2>2 DEF FeedBlank
    <3>2. e \in Event /\ e.data_len <= max_event_data_bytes
      BY DEF TypeOK, Event, AccumulationIsBounded
    <3> HIDE DEF e
    <3>3. delivered' \in Seq(Event)
      BY <3>1, <3>2 DEF TypeOK
    <3>4. \A k \in DOMAIN delivered' :
             delivered'[k].data_len <= max_event_data_bytes
      BY <3>1, <3>2 DEF TypeOK, AccumulationIsBounded
    <3>5. max_event_data_bytes' = max_event_data_bytes
      BY <1>1 DEF FeedBlank
    <3>6. /\ event_type' = {} /\ signature' = {}
          /\ data' = <<>> /\ data_len' = 0
      BY <2>2 DEF ClearCurrent
    <3>7. event_type' \in Options /\ signature' \in Options
      BY <3>6 DEF Options
    <3>8. max_event_data_bytes \in Nat /\ max_event_data_bytes \in Limits
      BY SseParserAssumption DEF TypeOK
    <3>9. AccumulationIsBounded'
      BY <3>4, <3>5, <3>6, <3>8 DEF AccumulationIsBounded
    <3>10. data' \in Seq(Values) /\ data_len' \in Nat
      BY <3>6, EmptyIsASeq
    <3> QED
      BY <2>1, <3>1, <3>3, <3>5, <3>7, <3>8, <3>9, <3>10 DEF TypeOK, Entry
  <2>3. CASE UNCHANGED <<max_event_data_bytes, current, has_data, delivered>>
    BY <2>1, <2>3 DEF TypeOK, AccumulationIsBounded, current, Entry
  <2> QED
    BY <1>1, <2>2, <2>3 DEF FeedBlank
<1>2. CASE FeedIgnored
  <2>1. fed' \in Seq(Entry)
    BY <1>2, <1>a, LogType DEF FeedIgnored, Fields
  <2> QED
    BY <1>2, <2>1 DEF FeedIgnored, TypeOK, AccumulationIsBounded, current, Entry
<1>3. ASSUME NEW v \in Values, FeedEventType(v) PROVE TypeOK' /\ AccumulationIsBounded'
  <2>1. fed' \in Seq(Entry)
    BY <1>3, <1>a, LogType, SseParserAssumption DEF FeedEventType, Fields
  <2> QED
    BY <1>3, <2>1 DEF FeedEventType, TypeOK, AccumulationIsBounded, Options, Entry
<1>4. ASSUME NEW v \in Values, FeedSignature(v) PROVE TypeOK' /\ AccumulationIsBounded'
  <2>1. fed' \in Seq(Entry)
    BY <1>4, <1>a, LogType, SseParserAssumption DEF FeedSignature, Fields
  <2> QED
    BY <1>4, <2>1 DEF FeedSignature, TypeOK, AccumulationIsBounded, Options, Entry
<1>5. ASSUME NEW v \in Values, FeedData(v) PROVE TypeOK' /\ AccumulationIsBounded'
  <2>1. NewLen(v) \in Nat
    BY SseParserAssumption DEF NewLen, TypeOK
  <2>2. /\ UNCHANGED <<max_event_data_bytes, event_type, signature, delivered>>
        /\ fed' \in Seq(Entry)
    BY <1>5, <1>a, LogType, SseParserAssumption DEF FeedData, Fields
  <2>3. CASE /\ NewLen(v) <= max_event_data_bytes
             /\ data' = Append(data, v)
             /\ data_len' = NewLen(v)
             /\ has_data' = TRUE
    BY <2>1, <2>2, <2>3 DEF TypeOK, AccumulationIsBounded, Entry
  <2>4. CASE UNCHANGED <<data, data_len, has_data>>
    BY <2>2, <2>4 DEF TypeOK, AccumulationIsBounded, Entry
  <2> QED
    BY <1>5, <2>3, <2>4 DEF FeedData
<1>6. CASE Reset
  <2>1. fed' \in Seq(Entry)
    BY <1>6, <1>a, LogType DEF Reset, Fields
  <2>2. /\ event_type' = {} /\ signature' = {} /\ data' = <<>> /\ data_len' = 0
        /\ has_data' = FALSE
        /\ UNCHANGED <<max_event_data_bytes, delivered>>
    BY <1>6 DEF Reset, ClearCurrent
  <2>3. max_event_data_bytes \in Nat
    BY SseParserAssumption DEF TypeOK
  <2>4. event_type' \in Options /\ signature' \in Options /\ data' \in Seq(Values)
    BY <2>2, EmptyIsASeq DEF Options
  <2>5. AccumulationIsBounded'
    BY <2>2, <2>3 DEF AccumulationIsBounded
  <2>6. TypeOK'
    BY <2>1, <2>2, <2>4 DEF TypeOK, Entry
  <2> QED
    BY <2>5, <2>6
<1>7. CASE UNCHANGED vars
  BY <1>7 DEF vars, current, TypeOK, AccumulationIsBounded
<1> QED
  BY <1>1, <1>2, <1>3, <1>4, <1>5, <1>6, <1>7 DEF Next

\* The parser's state keeps its type, whatever it is fed (lib.rs:78-82).
THEOREM TypeCorrect == Spec => []TypeOK
<1>1. Inv => TypeOK
  BY DEF Inv
<1> QED
  BY InvInit, InvNext, <1>1, PTL DEF Spec

\* For every limit and every sequence of lines and resets, the data held and
\* the data of every event delivered stay within the limit (lib.rs:67-77).
THEOREM AccumulationStaysBounded == Spec => []AccumulationIsBounded
<1>1. Inv => AccumulationIsBounded
  BY DEF Inv
<1> QED
  BY InvInit, InvNext, <1>1, PTL DEF Spec

-----------------------------------------------------------------------------
(* The reference parser, one log entry at a time.  N is the position of the *)
(* next entry; what the reference says up to there does not change when it  *)
(* is logged, and what it says after follows from what it said before.     *)

N == Len(fed) + 1

\* One more entry is logged.
Grows(e) == e \in Entry /\ fed' = Append(fed, e)

Ends == {k \in DOMAIN fed : EndsSegment(k)}
Accepted == {k \in DOMAIN fed : fed[k].field = "data" /\ fed[k].ok}

LEMMA GrowsFacts ==
    ASSUME fed \in Seq(Entry), NEW e, Grows(e)
    PROVE  /\ N \in Nat /\ N >= 1 /\ N' = N + 1 /\ Len(fed) = N - 1
           /\ DOMAIN fed = 1..(N - 1) /\ DOMAIN fed' = 1..N
           /\ fed'[N] = e /\ \A k \in 1..(N - 1) : fed'[k] = fed[k]
           /\ fed' \in Seq(Entry)
           /\ \A k \in 1..(N - 1) : k \in Ends' <=> k \in Ends
           /\ \A k \in 1..(N - 1) : k \in Accepted' <=> k \in Accepted
           /\ N \in Ends' <=> e.field \in {"blank", "reset"}
           /\ N \in Accepted' <=> e.field = "data" /\ e.ok
<1>1. e \in Entry /\ fed' = Append(fed, e)
  BY DEF Grows
<1>2. /\ N \in Nat /\ N >= 1 /\ N' = N + 1 /\ Len(fed) = N - 1
      /\ DOMAIN fed = 1..(N - 1) /\ DOMAIN fed' = 1..N
      /\ fed'[N] = e /\ \A k \in 1..(N - 1) : fed'[k] = fed[k]
      /\ fed' \in Seq(Entry)
  BY <1>1, AppendFacts DEF N
<1>3. \A k \in 1..(N - 1) : k \in 1..N
  BY <1>2
<1>4. N \in 1..N
  BY <1>2
<1>5. /\ \A k \in 1..(N - 1) : k \in Ends' <=> k \in Ends
      /\ N \in Ends' <=> e.field \in {"blank", "reset"}
  BY <1>2, <1>3, <1>4 DEF Ends, EndsSegment
<1>6. /\ \A k \in 1..(N - 1) : k \in Accepted' <=> k \in Accepted
      /\ N \in Accepted' <=> e.field = "data" /\ e.ok
  BY <1>2, <1>3, <1>4 DEF Accepted
<1> QED
  BY <1>2, <1>5, <1>6

\* Where a segment starts, and what of it was accepted, by those sets.
Lines(n) == {k \in SegmentStart(n)..(n - 1) : fed[k].field = "data" /\ fed[k].ok}

LEMMA SegmentsBySets ==
    ASSUME fed \in Seq(Entry), NEW n \in 1..N
    PROVE  /\ SegmentStart(n) = 1 + Last0(n, Ends)
           /\ SegmentStart(n) \in 1..n
           /\ Lines(n) = {k \in SegmentStart(n)..(n - 1) : k \in Accepted}
<1>1. N \in Nat /\ DOMAIN fed = 1..(N - 1) /\ n \in Nat /\ n >= 1 /\ n - 1 <= N - 1
  BY DEF N
<1>2. {k \in 1..(n - 1) : EndsSegment(k)} = {k \in 1..(n - 1) : k \in Ends}
  BY <1>1 DEF Ends
<1>3. SegmentStart(n) = 1 + Last0(n, Ends)
  BY <1>2 DEF SegmentStart, Last0
<1>4. Last0(n, Ends) \in 0..(n - 1)
  BY <1>1, LastBefore
<1>5. SegmentStart(n) \in 1..n
  BY <1>1, <1>3, <1>4
<1>6. \A k \in SegmentStart(n)..(n - 1) : k \in DOMAIN fed
  BY <1>1, <1>5
<1>7. Lines(n) = {k \in SegmentStart(n)..(n - 1) : k \in Accepted}
  BY <1>6 DEF Lines, Accepted
<1> QED
  BY <1>3, <1>5, <1>7

\* The values at some positions of the log
ValuesAt(lines) == [j \in DOMAIN lines |-> fed[lines[j]].value]

LEMMA SegmentDataIs ==
    \A n : SegmentData(n) = ValuesAt(InOrder(Lines(n), n - 1))
BY DEF SegmentData, ValuesAt, Lines

\* Values logged stay when the log grows; one more position, one more value.
LEMMA ValuesAtFacts ==
    ASSUME fed \in Seq(Entry), NEW lines \in Seq(Nat),
           \A j \in 1..Len(lines) : lines[j] \in 1..(N - 1)
    PROVE  /\ ValuesAt(lines) \in Seq(Nat)
           /\ Len(ValuesAt(lines)) = Len(lines)
           /\ \A j \in 1..Len(lines) : ValuesAt(lines)[j] = fed[lines[j]].value
<1>1. DOMAIN fed = 1..(N - 1) /\ \A k \in DOMAIN fed : fed[k].value \in Nat
  <2>1. \A e \in Entry : e.value \in Nat
    BY DEF Entry
  <2>2. DOMAIN fed = 1..(N - 1) /\ \A k \in DOMAIN fed : fed[k] \in Entry
    BY DEF N
  <2> QED
    BY <2>1, <2>2
<1>2. Len(lines) \in Nat /\ DOMAIN lines = 1..Len(lines)
  OBVIOUS
<1>3. ValuesAt(lines) = [j \in 1..Len(lines) |-> fed[lines[j]].value]
  BY <1>2 DEF ValuesAt
<1>4. \A j \in 1..Len(lines) : fed[lines[j]].value \in Nat
  BY <1>1
<1> QED
  BY <1>2, <1>3, <1>4

LEMMA LinesInOrder ==
    ASSUME fed \in Seq(Entry), NEW n \in 1..N
    PROVE  LET lines == InOrder(Lines(n), n - 1) IN
           /\ lines \in Seq(Nat)
           /\ \A j \in 1..Len(lines) : lines[j] \in 1..(n - 1) /\ lines[j] \in 1..(N - 1)
<1>1. N \in Nat /\ n - 1 \in Nat /\ n - 1 <= N - 1
  BY DEF N
<1> QED
  BY <1>1, InOrderMembers

\* Up to the next position, a new entry changes nothing.
LEMMA SegmentsStay ==
    ASSUME fed \in Seq(Entry), NEW e, Grows(e), NEW n \in 1..N
    PROVE  /\ SegmentStart(n)' = SegmentStart(n)
           /\ SegmentData(n)' = SegmentData(n)
           /\ SegmentData(n) \in Seq(Nat)
<1>1. /\ N \in Nat /\ N >= 1 /\ N' = N + 1 /\ fed' \in Seq(Entry)
      /\ \A k \in 1..(N - 1) : fed'[k] = fed[k]
      /\ \A k \in 1..(N - 1) : k \in Ends' <=> k \in Ends
      /\ \A k \in 1..(N - 1) : k \in Accepted' <=> k \in Accepted
  BY GrowsFacts
<1>2. /\ n \in Nat /\ n >= 1 /\ n - 1 \in Nat /\ n \in 1..(N + 1)
      /\ \A k \in 1..(n - 1) : k \in 1..(N - 1)
  BY <1>1
<1>3. /\ SegmentStart(n) = 1 + Last0(n, Ends)
      /\ SegmentStart(n) \in 1..n
      /\ Lines(n) = {k \in SegmentStart(n)..(n - 1) : k \in Accepted}
  BY SegmentsBySets
<1>4. /\ SegmentStart(n)' = 1 + Last0(n, Ends')
      /\ Lines(n)' = {k \in SegmentStart(n)'..(n - 1) : k \in Accepted'}
  <2>1. fed' \in Seq(Entry) /\ n \in 1..N'
    BY <1>1, <1>2
  <2>2. N' = Len(fed') + 1 /\ DOMAIN fed' = 1..(N' - 1)
    BY <1>1 DEF N
  <2>3. {k \in 1..(n - 1) : EndsSegment(k)'} = {k \in 1..(n - 1) : k \in Ends'}
    BY <1>1, <1>2, <2>2 DEF Ends
  <2>4. SegmentStart(n)' = 1 + Last0(n, Ends')
    BY <2>3 DEF SegmentStart, Last0
  <2>5. Last0(n, Ends') \in 0..(n - 1)
    BY <1>2, LastBefore
  <2>6. \A k \in SegmentStart(n)'..(n - 1) : k \in DOMAIN fed'
    BY <1>1, <1>2, <2>2, <2>4, <2>5
  <2>7. Lines(n)' = {k \in SegmentStart(n)'..(n - 1) : k \in Accepted'}
    BY <2>6 DEF Lines, Accepted
  <2> QED
    BY <2>4, <2>7
<1>5. Last0(n, Ends') = Last0(n, Ends)
  <2>1. \A k \in 1..(n - 1) : k \in Ends <=> k \in Ends'
    BY <1>1, <1>2
  <2> QED
    BY <1>2, <2>1, LastBefore
<1>6. SegmentStart(n)' = SegmentStart(n)
  BY <1>3, <1>4, <1>5
<1>7. Lines(n)' = Lines(n)
  <2>1. \A k \in SegmentStart(n)..(n - 1) : k \in 1..(n - 1)
    BY <1>2, <1>3
  <2> QED
    BY <1>1, <1>2, <1>3, <1>4, <1>6, <2>1
<1> DEFINE lines == InOrder(Lines(n), n - 1)
<1>8. lines \in Seq(Nat) /\ \A j \in 1..Len(lines) : lines[j] \in 1..(N - 1)
  BY LinesInOrder
<1>9. ValuesAt(lines) \in Seq(Nat)
  BY <1>8, ValuesAtFacts
<1>10. SegmentData(n) = ValuesAt(lines)
  BY SegmentDataIs
<1>11. SegmentData(n)' = [j \in DOMAIN lines |-> fed'[lines[j]].value]
  BY <1>7 DEF SegmentData, Lines
<1>12. \A j \in DOMAIN lines : fed'[lines[j]].value = fed[lines[j]].value
  <2> HIDE DEF lines
  <2>1. DOMAIN lines = 1..Len(lines)
    BY <1>8
  <2> QED
    BY <1>1, <1>8, <2>1
<1>13. SegmentData(n)' = ValuesAt(lines)
  BY <1>11, <1>12 DEF ValuesAt
<1> QED
  BY <1>6, <1>9, <1>10, <1>13

\* One more accepted line, one more value.
LEMMA ValuesAtAppend ==
    ASSUME fed \in Seq(Entry), NEW e, Grows(e), NEW lines \in Seq(Nat),
           \A j \in 1..Len(lines) : lines[j] \in 1..(N - 1)
    PROVE  /\ ValuesAt(lines)' = ValuesAt(lines)
           /\ \A n : n = N => ValuesAt(Append(lines, n))' = Append(ValuesAt(lines), e.value)
<1>1. /\ N \in Nat /\ fed'[N] = e /\ e.value \in Nat
      /\ \A k \in 1..(N - 1) : fed'[k] = fed[k]
  BY GrowsFacts DEF Grows, Entry
<1>2. Len(lines) \in Nat /\ DOMAIN lines = 1..Len(lines)
  OBVIOUS
<1>3. /\ ValuesAt(lines) \in Seq(Nat) /\ Len(ValuesAt(lines)) = Len(lines)
      /\ \A j \in 1..Len(lines) : ValuesAt(lines)[j] = fed[lines[j]].value
  BY ValuesAtFacts
<1>4. \A j \in DOMAIN lines : fed'[lines[j]].value = fed[lines[j]].value
  BY <1>1, <1>2
<1>5. ValuesAt(lines)' = ValuesAt(lines)
  BY <1>4 DEF ValuesAt
<1>6. ASSUME NEW n, n = N
      PROVE  ValuesAt(Append(lines, n))' = Append(ValuesAt(lines), e.value)
  <2> DEFINE longer == Append(lines, n)
             l == Len(lines)
             s == [j \in DOMAIN longer |-> fed'[longer[j]].value]
             values == ValuesAt(lines)
             t == Append(values, e.value)
  <2>1. n \in Nat
    BY <1>1, <1>6
  <2>2. /\ l \in Nat /\ DOMAIN longer = 1..(l + 1) /\ longer[l + 1] = n
        /\ \A j \in 1..l : longer[j] = lines[j]
    BY <2>1, AppendFacts
  <2>3. /\ t \in Seq(Nat) /\ Len(t) = l + 1 /\ t[l + 1] = e.value
        /\ \A j \in 1..l : t[j] = values[j]
    <3> HIDE DEF values
    <3>1. values \in Seq(Nat) /\ e.value \in Nat /\ Len(values) = l
      BY <1>1, <1>3 DEF values
    <3> HIDE DEF l
    <3> QED
      BY <3>1, AppendFacts
  <2> HIDE DEF longer, l, t
  <2>4. \A j \in 1..(l + 1) : j \in 1..l \/ j = l + 1
    BY <2>2
  <2>5. ASSUME NEW j \in 1..(l + 1) PROVE fed'[longer[j]].value = t[j]
    <3>1. CASE j \in 1..l
      <4>1. j \in 1..Len(lines)
        BY <3>1 DEF l
      <4>2. t[j] = fed[lines[j]].value
        BY <1>3, <2>3, <3>1, <4>1
      <4>3. fed'[longer[j]].value = fed[lines[j]].value
        BY <1>2, <1>4, <2>2, <3>1, <4>1
      <4> QED
        BY <4>2, <4>3
    <3>2. CASE j = l + 1
      BY <1>1, <1>6, <2>2, <2>3, <3>2
    <3> QED
      BY <2>4, <3>1, <3>2
  <2>6. s = [j \in 1..(l + 1) |-> t[j]]
    BY <2>2, <2>5
  <2>7. t = [j \in 1..(l + 1) |-> t[j]]
    BY <2>3
  <2>8. ValuesAt(Append(lines, n))' = s
    BY DEF ValuesAt, longer
  <2> HIDE DEF s
  <2> QED
    BY <2>6, <2>7, <2>8 DEF t
<1> QED
  BY <1>5, <1>6

\* What a new entry does to the segment in progress.
LEMMA SegmentsGrow ==
    ASSUME fed \in Seq(Entry), NEW e, Grows(e), NEW n \in Nat, n = N
    PROVE  /\ e.field \in {"blank", "reset"} =>
                SegmentStart(n + 1)' = n + 1 /\ SegmentData(n + 1)' = <<>>
           /\ e.field \notin {"blank", "reset"} =>
                /\ SegmentStart(n + 1)' = SegmentStart(n)
                /\ SegmentData(n + 1)' = IF e.field = "data" /\ e.ok
                                         THEN Append(SegmentData(n), e.value)
                                         ELSE SegmentData(n)
<1>1. /\ n \in Nat /\ n >= 1 /\ N' = n + 1 /\ fed' \in Seq(Entry)
      /\ DOMAIN fed' = 1..n
      /\ \A k \in 1..(n - 1) : fed'[k] = fed[k]
      /\ \A k \in 1..(n - 1) : k \in Ends' <=> k \in Ends
      /\ \A k \in 1..(n - 1) : k \in Accepted' <=> k \in Accepted
      /\ n \in Ends' <=> e.field \in {"blank", "reset"}
      /\ n \in Accepted' <=> e.field = "data" /\ e.ok
  BY GrowsFacts
<1>2. n \in 1..N /\ n - 1 \in Nat /\ (n - 1) + 1 = n /\ (n + 1) - 1 = n
  BY <1>1
<1>3. /\ SegmentStart(n) = 1 + Last0(n, Ends)
      /\ SegmentStart(n) \in 1..n
      /\ Lines(n) = {k \in SegmentStart(n)..(n - 1) : k \in Accepted}
  BY <1>2, SegmentsBySets
<1>4. SegmentStart(n + 1)' = 1 + Last0(n + 1, Ends')
  <2>1. {k \in 1..n : EndsSegment(k)'} = {k \in 1..n : k \in Ends'}
    BY <1>1 DEF Ends
  <2> QED
    BY <1>2, <2>1 DEF SegmentStart, Last0
<1>5. Last0(n + 1, Ends') = IF n \in Ends' THEN n ELSE Last0(n, Ends)
  <2>1. ASSUME NEW B, NEW C, \A k \in 1..(n - 1) : k \in B <=> k \in C
        PROVE  Last0(n + 1, C) = IF n \in C THEN n ELSE Last0(n, B)
    BY <1>1, <2>1, LastGrows
  <2>2. \A k \in 1..(n - 1) : k \in Ends <=> k \in Ends'
    BY <1>1
  <2> QED
    BY <2>1, <2>2, Zenon
<1>6. SegmentStart(n + 1)' = IF n \in Ends' THEN n + 1 ELSE SegmentStart(n)
  BY <1>1, <1>3, <1>4, <1>5
<1>7. Lines(n + 1)' = {k \in SegmentStart(n + 1)'..n : k \in Accepted'}
  <2>1. \A k \in SegmentStart(n + 1)'..n : k \in DOMAIN fed'
    BY <1>1, <1>3, <1>6
  <2> QED
    BY <1>2, <2>1 DEF Lines, Accepted
<1>8. \A T : T = Lines(n + 1)' => SegmentData(n + 1)' = ValuesAt(InOrder(T, n))'
  BY <1>2 DEF SegmentData, ValuesAt, Lines
<1>9. CASE n \in Ends'
  <2>1. Lines(n + 1)' = {}
    BY <1>1, <1>6, <1>7, <1>9
  <2>2. InOrder({}, n) = InOrder({}, 0) /\ InOrder({}, 0) = <<>>
    <3>1. 0 \in Nat /\ 0 <= n /\ \A k \in (0 + 1)..n : k \notin {}
      OBVIOUS
    <3>2. PICK none : none = {}
      OBVIOUS
    <3>3. InOrder(none, 0) = <<>>
      BY InOrderDef, Zenon
    <3>4. InOrder(none, n) = InOrder(none, 0)
      BY <3>1, <3>2, InOrderSkips
    <3> QED
      BY <3>2, <3>3, <3>4
  <2>3. SegmentData(n + 1)' = <<>>
    <3>1. ValuesAt(<<>>)' = <<>>
      BY DEF ValuesAt
    <3> QED
      BY <1>8, <2>1, <2>2, <3>1
  <2> QED
    BY <1>1, <1>6, <1>9, <2>3
<1>10. CASE n \notin Ends'
  <2>a. PICK S : S = Lines(n)
    OBVIOUS
  <2>b. PICK lines : lines = InOrder(S, n - 1)
    OBVIOUS
  <2>1. PICK T : T = Lines(n + 1)'
    OBVIOUS
  <2>2. /\ \A k \in 1..(n - 1) : k \in S <=> k \in T
        /\ n \in T <=> e.field = "data" /\ e.ok
    BY <1>1, <1>3, <1>6, <1>7, <1>10, <2>a, <2>1
  <2>3. lines \in Seq(Nat) /\ \A j \in 1..Len(lines) : lines[j] \in 1..(N - 1)
    BY <1>2, <2>a, <2>b, LinesInOrder
  <2>4. SegmentData(n) = ValuesAt(lines)
    BY <2>a, <2>b, SegmentDataIs
  <2>5. InOrder(T, n) = IF n \in T THEN Append(lines, n) ELSE lines
    <3>1. PICK m \in Nat : m = n - 1 /\ m + 1 = n
      BY <1>2
    <3>2. \A k \in 1..m : k \in S <=> k \in T
      BY <2>2, <3>1
    <3>3. InOrder(T, m + 1) = IF m + 1 \in T THEN Append(InOrder(S, m), m + 1)
                              ELSE InOrder(S, m)
      BY <3>2, InOrderGrows
    <3> QED
      BY <2>b, <3>1, <3>3
  <2>6. /\ ValuesAt(lines)' = ValuesAt(lines)
        /\ ValuesAt(Append(lines, n))' = Append(ValuesAt(lines), e.value)
    BY <2>3, ValuesAtAppend
  <2>7. SegmentData(n + 1)' = ValuesAt(InOrder(T, n))'
    BY <1>8, <2>1
  <2> QED
    BY <1>1, <1>6, <1>10, <2>2, <2>4, <2>5, <2>6, <2>7
<1> QED
  BY <1>9, <1>10

\* Where an event's fields start: after the last event, or the last reset.
Fresh == {j \in DOMAIN fed : fed[j].field = "reset" \/ j \in CompletedAt}
From(n) == 1 + Max({0} \cup {j \in 1..(n - 1) : fed[j].field = "reset" \/ j \in CompletedAt})

\* What a field is at a position, by the reference
Since(field, n) == LastSince(field, From(n), n)

\* The blank lines that complete an event are those of the past, and the new
\* entry if it is a blank line after data.
LEMMA CompletedGrows ==
    ASSUME fed \in Seq(Entry), NEW e, Grows(e), NEW n \in Nat, n = N
    PROVE  /\ \A k \in 1..(n - 1) : k \in CompletedAt' <=> k \in CompletedAt
           /\ n \in CompletedAt' <=> e.field = "blank" /\ SegmentData(n) # <<>>
           /\ \A k \in CompletedAt : k \in 1..(n - 1)
           /\ \A k \in CompletedAt' : k \in 1..n
<1>1. /\ n >= 1 /\ DOMAIN fed = 1..(n - 1) /\ DOMAIN fed' = 1..n
      /\ fed'[n] = e /\ \A k \in 1..(n - 1) : fed'[k] = fed[k]
  BY GrowsFacts
<1>2. \A k \in 1..n : SegmentData(k)' = SegmentData(k)
  BY SegmentsStay
<1>3. \A k : k \in CompletedAt <=> k \in 1..(n - 1) /\ fed[k].field = "blank"
                                   /\ SegmentData(k) # <<>>
  BY <1>1 DEF CompletedAt
<1>4. CompletedAt' = {k \in 1..n : fed'[k].field = "blank" /\ SegmentData(k)' # <<>>}
  BY <1>1 DEF CompletedAt
<1>5. \A k : k \in CompletedAt' <=> k \in 1..n /\ fed'[k].field = "blank"
                                    /\ SegmentData(k) # <<>>
  BY <1>2, <1>4
<1>6. n \in 1..n /\ \A k \in 1..(n - 1) : k \in 1..n
  BY <1>1
<1> HIDE DEF CompletedAt
<1> QED
  BY <1>1, <1>3, <1>5, <1>6

\* So are the positions a field's search starts from.
LEMMA FromGrows ==
    ASSUME fed \in Seq(Entry), NEW e, Grows(e), NEW n \in Nat, n = N
    PROVE  /\ \A k \in 1..n : From(k)' = From(k) /\ From(k) \in 1..k
           /\ From(n + 1)' = IF e.field = "reset" \/ n \in CompletedAt'
                             THEN n + 1 ELSE From(n)
<1>1. /\ n >= 1 /\ DOMAIN fed = 1..(n - 1) /\ DOMAIN fed' = 1..n
      /\ fed'[n] = e /\ \A k \in 1..(n - 1) : fed'[k] = fed[k]
  BY GrowsFacts
<1>2. \A k \in 1..(n - 1) : k \in CompletedAt' <=> k \in CompletedAt
  BY CompletedGrows
<1>3. /\ \A j \in 1..(n - 1) : j \in Fresh <=> fed[j].field = "reset" \/ j \in CompletedAt
      /\ \A j \in 1..n : j \in Fresh' <=> fed'[j].field = "reset" \/ j \in CompletedAt'
  BY <1>1 DEF Fresh
<1>4. /\ \A j \in 1..(n - 1) : j \in Fresh <=> j \in Fresh'
      /\ n \in Fresh' <=> e.field = "reset" \/ n \in CompletedAt'
  <2>1. \A j \in 1..(n - 1) : j \in 1..n
    BY <1>1
  <2>2. n \in 1..n
    BY <1>1
  <2> QED
    BY <1>1, <1>2, <1>3, <2>1, <2>2
<1>5. ASSUME NEW k \in 1..n
      PROVE  From(k) = 1 + Last0(k, Fresh)
  <2>1. {j \in 1..(k - 1) : fed[j].field = "reset" \/ j \in CompletedAt}
          = {j \in 1..(k - 1) : j \in Fresh}
    <3>1. \A j \in 1..(k - 1) : j \in 1..(n - 1)
      BY <1>1
    <3> QED
      BY <1>3, <3>1
  <2> QED
    BY <2>1 DEF From, Last0
<1>6. ASSUME NEW k \in 1..(n + 1)
      PROVE  From(k)' = 1 + Last0(k, Fresh')
  <2>1. {j \in 1..(k - 1) : fed'[j].field = "reset" \/ j \in CompletedAt'}
          = {j \in 1..(k - 1) : j \in Fresh'}
    <3>1. \A j \in 1..(k - 1) : j \in 1..n
      BY <1>1
    <3> QED
      BY <1>3, <3>1
  <2> QED
    BY <2>1 DEF From, Last0
<1>7. ASSUME NEW k \in 1..n, NEW B, NEW C, \A j \in 1..(n - 1) : j \in B <=> j \in C
      PROVE  Last0(k, B) = Last0(k, C) /\ Last0(k, B) \in 0..(k - 1)
  <2>1. k \in Nat /\ k >= 1 /\ \A j \in 1..(k - 1) : j \in 1..(n - 1)
    BY <1>1
  <2>2. \A j \in 1..(k - 1) : j \in B <=> j \in C
    BY <1>7, <2>1
  <2> QED
    BY <2>1, <2>2, LastBefore
<1>8. ASSUME NEW B, NEW C, \A j \in 1..(n - 1) : j \in B <=> j \in C
      PROVE  Last0(n + 1, C) = IF n \in C THEN n ELSE Last0(n, B)
  BY <1>1, <1>8, LastGrows
<1>9. ASSUME NEW k \in 1..n
      PROVE  From(k)' = From(k) /\ From(k) \in 1..k
  <2>1. Last0(k, Fresh) = Last0(k, Fresh') /\ Last0(k, Fresh) \in 0..(k - 1)
    BY <1>4, <1>7, Zenon
  <2>2. k \in 1..(n + 1) /\ k \in Nat
    BY <1>1
  <2>3. From(k)' = 1 + Last0(k, Fresh') /\ From(k) = 1 + Last0(k, Fresh)
    BY <1>5, <1>6, <2>2
  <2> QED
    BY <2>1, <2>2, <2>3
<1>10. Last0(n + 1, Fresh') = IF n \in Fresh' THEN n ELSE Last0(n, Fresh)
  BY <1>4, <1>8, Zenon
<1>11. From(n + 1)' = 1 + Last0(n + 1, Fresh') /\ From(n) = 1 + Last0(n, Fresh)
  BY <1>1, <1>5, <1>6
<1> QED
  BY <1>1, <1>4, <1>9, <1>10, <1>11

LEMMA MaxIs ==
    ASSUME NEW n \in Nat, NEW S, S \subseteq 0..n, n \in S
    PROVE  Max(S) = n
<1>1. S # {}
  OBVIOUS
<1>2. Max(S) \in S /\ \A y \in S : y <= Max(S)
  BY <1>1, MaxFacts
<1>3. PICK m : m = Max(S)
  OBVIOUS
<1>4. m \in 0..n /\ n <= m
  BY <1>2, <1>3
<1> QED
  BY <1>3, <1>4

\* A field's latest value changes only by its own lines and at a fresh start.
LEMMA SinceGrows ==
    ASSUME fed \in Seq(Entry), NEW e, Grows(e), NEW n \in Nat, n = N, NEW f
    PROVE  /\ \A k \in 1..n : Since(f, k)' = Since(f, k)
           /\ Since(f, n + 1)' = IF e.field = "reset" \/ n \in CompletedAt' THEN {}
                                 ELSE IF e.field = f THEN {e.value} ELSE Since(f, n)
<1>1. /\ n >= 1 /\ DOMAIN fed = 1..(n - 1) /\ DOMAIN fed' = 1..n
      /\ fed'[n] = e /\ \A k \in 1..(n - 1) : fed'[k] = fed[k]
  BY GrowsFacts
<1>2. /\ \A k \in 1..n : From(k)' = From(k) /\ From(k) \in 1..k
      /\ From(n + 1)' = IF e.field = "reset" \/ n \in CompletedAt'
                        THEN n + 1 ELSE From(n)
  BY FromGrows
<1>3. ASSUME NEW k \in 1..n, NEW from \in 1..k
      PROVE  LastSince(f, from, k)' = LastSince(f, from, k)
  <2>1. \A j \in from..(k - 1) : j \in 1..(n - 1)
    BY <1>1
  <2> DEFINE ks == {j \in from..(k - 1) : fed[j].field = f}
  <2>2. {j \in from..(k - 1) : fed'[j].field = f} = ks
    BY <1>1, <2>1
  <2>3. ks # {} => fed'[Max(ks)].value = fed[Max(ks)].value
    <3>1. k \in Nat /\ ks \subseteq 0..k
      BY <1>1
    <3>2. ASSUME ks # {} PROVE Max(ks) \in ks
      BY <3>1, <3>2, MaxFacts
    <3>3. \A j \in ks : fed'[j] = fed[j]
      BY <1>1, <2>1
    <3> HIDE DEF ks
    <3> QED
      BY <3>2, <3>3
  <2> QED
    BY <2>2, <2>3 DEF LastSince
<1>4. ASSUME NEW k \in 1..n PROVE Since(f, k)' = Since(f, k)
  <2>2. PICK from \in 1..k : from = From(k) /\ from = From(k)'
    BY <1>2
  <2>3. Since(f, k)' = LastSince(f, from, k)' /\ Since(f, k) = LastSince(f, from, k)
    BY <2>2 DEF Since, LastSince
  <2> QED
    BY <1>3, <2>3
<1>5. Since(f, n + 1)' = IF e.field = "reset" \/ n \in CompletedAt' THEN {}
                         ELSE IF e.field = f THEN {e.value} ELSE Since(f, n)
  <2> DEFINE fresh == e.field = "reset" \/ n \in CompletedAt'
  <2>1. PICK from : from = From(n + 1)'
    OBVIOUS
  <2>2. PICK ks : ks = {j \in from..n : fed'[j].field = f}
    OBVIOUS
  <2>3. Since(f, n + 1)' = IF ks = {} THEN {} ELSE {fed'[Max(ks)].value}
    <3>1. (n + 1) - 1 = n
      OBVIOUS
    <3> QED
      BY <2>1, <2>2, <3>1 DEF Since, LastSince
  <2>4. CASE fresh
    <3>1. from = n + 1
      BY <1>2, <2>1, <2>4
    <3>2. ks = {}
      BY <2>2, <3>1
    <3> QED
      BY <2>3, <2>4, <3>2
  <2>5. CASE ~fresh
    <3>1. from = From(n) /\ from \in 1..n
      BY <1>1, <1>2, <2>1, <2>5
    <3>2. CASE e.field = f
      <4>1. n \in ks /\ ks \subseteq 0..n
        BY <1>1, <2>2, <3>1, <3>2
      <4>2. Max(ks) = n
        BY <4>1, MaxIs
      <4>3. ks # {}
        BY <4>1
      <4> QED
        BY <1>1, <2>3, <2>5, <3>2, <4>2, <4>3
    <3>3. CASE e.field # f
      <4>1. ks = {j \in from..(n - 1) : fed[j].field = f}
        <5>1. \A j \in from..n : j \in 1..(n - 1) \/ j = n
          BY <1>1, <3>1
        <5>2. \A j : j \in from..n <=> j \in from..(n - 1) \/ j = n
          BY <1>1, <3>1
        <5>3. \A j \in from..(n - 1) : j \in 1..(n - 1)
          BY <1>1, <3>1
        <5> QED
          BY <1>1, <2>2, <3>3, <5>1, <5>2, <5>3
      <4>2. ks # {} => fed'[Max(ks)] = fed[Max(ks)]
        <5>1. ks \subseteq 0..n /\ \A j \in ks : j \in 1..(n - 1)
          BY <1>1, <3>1, <4>1
        <5>2. ASSUME ks # {} PROVE Max(ks) \in ks
          BY <5>1, <5>2, MaxFacts
        <5> QED
          BY <1>1, <5>1, <5>2
      <4>3. Since(f, n) = IF ks = {} THEN {} ELSE {fed[Max(ks)].value}
        BY <3>1, <4>1 DEF Since, LastSince
      <4> QED
        BY <2>3, <2>5, <3>3, <4>2, <4>3
    <3> QED
      BY <3>2, <3>3
  <2> QED
    BY <2>4, <2>5
<1> QED
  BY <1>4, <1>5

-----------------------------------------------------------------------------
(* The parser holds what the reference says of the segment in progress, and *)
(* has delivered what it says of the segments completed.                   *)

AnyEvent == [event_type : SUBSET Nat, signature : SUBSET Nat, data : Seq(Nat),
             data_len : Nat, at : Nat]

\* The types the argument needs; the values are any lengths.
LogTypeOK ==
    /\ fed \in Seq(Entry) /\ delivered \in Seq(AnyEvent)
    /\ data \in Seq(Nat) /\ data_len \in Nat
    /\ event_type \in SUBSET Nat /\ signature \in SUBSET Nat
    /\ max_event_data_bytes \in Nat /\ has_data \in BOOLEAN

HoldsAt(n) ==
    /\ data = SegmentData(n)
    /\ data_len = JoinedLen(data)
    /\ has_data <=> data # <<>>
    /\ event_type = Since("event", n)
    /\ signature = Since("signature", n)

HoldsSegment == \A n \in Nat : n = N => HoldsAt(n)

\* An event is what the reference says of a completed segment.
EventIs(event) ==
    /\ event.at \in CompletedAt
    /\ event.data = SegmentData(event.at)
    /\ event.data_len = JoinedLen(event.data)
    /\ event.event_type = Since("event", event.at)
    /\ event.signature = Since("signature", event.at)

RightEvents == {event \in AnyEvent : EventIs(event)}

EventsAre ==
    /\ \A k \in DOMAIN delivered : delivered[k] \in RightEvents
    /\ \A k \in DOMAIN delivered : \A j \in 1..(k - 1) : delivered[j].at < delivered[k].at

AllDelivered ==
    \A n \in CompletedAt : \E k \in DOMAIN delivered : delivered[k].at = n

LogInv == HoldsSegment /\ EventsAre /\ AllDelivered /\ AcceptanceIsByJoinedLength

LEMMA LogInvMeans ==
    LogInv => EventsAreSegments /\ AcceptanceIsByJoinedLength /\ FieldsAreTheLatest
<1> SUFFICES ASSUME LogInv
             PROVE  EventsAreSegments /\ FieldsAreTheLatest
    BY DEF LogInv
<1>1. EventsAre /\ AllDelivered
  BY DEF LogInv
<1>2. \A k \in DOMAIN delivered :
         /\ delivered[k].at \in CompletedAt
         /\ delivered[k].data = SegmentData(delivered[k].at)
         /\ delivered[k].data_len = JoinedLen(delivered[k].data)
         /\ delivered[k].event_type = Since("event", delivered[k].at)
         /\ delivered[k].signature = Since("signature", delivered[k].at)
  BY <1>1, Zenon DEF EventsAre, RightEvents, EventIs
<1>3. {delivered[k].at : k \in DOMAIN delivered} = CompletedAt
  BY <1>1, <1>2 DEF AllDelivered
<1>4. EventsAreSegments
  BY <1>1, <1>2, <1>3, Zenon DEF EventsAreSegments, EventsAre
<1>5. FieldsAreTheLatest
  BY <1>2, Zenon DEF FieldsAreTheLatest, Since, From
<1> QED
  BY <1>4, <1>5

\* What the reference says of the past stays.
LEMMA EventStays ==
    ASSUME fed \in Seq(Entry), NEW e, Grows(e), NEW event, EventIs(event)
    PROVE  EventIs(event)'
<1>1. N \in Nat /\ \A k \in 1..(N - 1) : k \in 1..N
  BY GrowsFacts
<1>2. PICK at : at = event.at
  OBVIOUS
<1>3. at \in CompletedAt /\ at \in 1..(N - 1) /\ at \in 1..N
  <2>1. at \in CompletedAt
    BY <1>2 DEF EventIs
  <2>2. \A n : n = N => at \in 1..(n - 1)
    BY <1>1, <2>1, CompletedGrows
  <2> QED
    BY <1>1, <2>1, <2>2
<1>4. at \in CompletedAt'
  <2>1. \A n : n = N => at \in CompletedAt'
    BY <1>1, <1>3, CompletedGrows
  <2> QED
    BY <2>1
<1>5. SegmentData(at)' = SegmentData(at)
  BY <1>3, SegmentsStay
<1>6. /\ Since("event", at)' = Since("event", at)
      /\ Since("signature", at)' = Since("signature", at)
  <2>1. PICK n \in Nat : n = N
    BY <1>1
  <2>2. at \in 1..n
    BY <1>3, <2>1
  <2>3. ASSUME NEW f PROVE \A k \in 1..n : Since(f, k)' = Since(f, k)
    BY <2>1, SinceGrows, ZenonT(60)
  <2>4. ASSUME NEW f PROVE Since(f, at)' = Since(f, at)
    BY <2>2, <2>3
  <2> QED
    BY <2>4, Zenon
<1>7. JoinedLen(event.data)' = JoinedLen(event.data)
  BY DEF JoinedLen
<1> QED
  BY <1>2, <1>4, <1>5, <1>6, <1>7 DEF EventIs

LEMMA RightEventsStay ==
    ASSUME fed \in Seq(Entry), NEW e, Grows(e), NEW event, event \in RightEvents
    PROVE  event \in RightEvents'
<1>1. event \in AnyEvent /\ EventIs(event)
  BY DEF RightEvents
<1>2. EventIs(event)'
  BY <1>1, EventStays
<1> QED
  BY <1>1, <1>2 DEF RightEvents

\* An entry that completes no event, and delivers none
LEMMA NothingDelivered ==
    ASSUME LogTypeOK, EventsAre, NEW e, Grows(e), delivered' = delivered
    PROVE  /\ EventsAre'
           /\ (AllDelivered /\ \A n : n = N => n \notin CompletedAt') => AllDelivered'
<1>1. fed \in Seq(Entry)
  BY DEF LogTypeOK
<1>2. \A event : event \in RightEvents => event \in RightEvents'
  BY <1>1, RightEventsStay
<1>3. EventsAre'
  BY <1>2 DEF EventsAre
<1>4. ASSUME AllDelivered, \A n : n = N => n \notin CompletedAt'
      PROVE  AllDelivered'
  <2>1. PICK n \in Nat : n = N /\ n \notin CompletedAt'
    BY <1>1, <1>4, GrowsFacts
  <2>2. /\ \A k \in 1..(n - 1) : k \in CompletedAt' <=> k \in CompletedAt
        /\ \A k \in CompletedAt' : k \in 1..n
    BY <1>1, <2>1, CompletedGrows
  <2>3. \A k \in CompletedAt' : k \in CompletedAt
    <3>1. \A k \in 1..n : k \in 1..(n - 1) \/ k = n
      BY <2>1
    <3> QED
      BY <2>1, <2>2, <3>1
  <2> QED
    BY <1>4, <2>3 DEF AllDelivered
<1> QED
  BY <1>3, <1>4

\* An entry that completes an event, and delivers it
LEMMA OneDelivered ==
    ASSUME LogTypeOK, EventsAre, NEW e, Grows(e), NEW event \in AnyEvent,
           delivered' = Append(delivered, event), event.at = N, EventIs(event)'
    PROVE  EventsAre' /\ (AllDelivered => AllDelivered')
<1>1. fed \in Seq(Entry) /\ delivered \in Seq(AnyEvent)
  BY DEF LogTypeOK
<1>2. /\ \A ev : ev \in RightEvents => ev \in RightEvents'
      /\ event \in RightEvents'
  <2>1. \A ev : ev \in RightEvents => ev \in RightEvents'
    BY <1>1, RightEventsStay
  <2> QED
    BY <2>1 DEF RightEvents
<1>3. PICK n \in Nat : n = N
  BY <1>1, GrowsFacts
<1>4. /\ \A k \in 1..(n - 1) : k \in CompletedAt' <=> k \in CompletedAt
      /\ \A k \in CompletedAt' : k \in 1..n
      /\ \A k \in CompletedAt : k \in 1..(n - 1)
      /\ \A k \in 1..n : k \in 1..(n - 1) \/ k = n
  BY <1>1, <1>3, CompletedGrows
<1>5. PICK l \in Nat : l = Len(delivered)
  BY <1>1
<1>6. /\ DOMAIN delivered = 1..l /\ DOMAIN delivered' = 1..(l + 1)
      /\ \A k \in 1..l : delivered'[k] = delivered[k]
      /\ delivered'[l + 1] = event
      /\ \A k \in 1..(l + 1) : k \in 1..l \/ k = l + 1
  BY <1>1, <1>5, AppendFacts
<1>7. /\ \A k \in 1..l : delivered[k] \in RightEvents
      /\ \A k \in 1..l : \A j \in 1..(k - 1) : delivered[j].at < delivered[k].at
  BY <1>6 DEF EventsAre
<1>8. \A k \in 1..(l + 1) : delivered'[k] \in RightEvents'
  <2>1. \A k \in 1..l : delivered[k] \in RightEvents'
    BY <1>2, <1>7
  <2> QED
    BY <1>2, <1>6, <2>1
<1>9. ASSUME NEW k \in 1..(l + 1), NEW j \in 1..(k - 1)
      PROVE  delivered'[j].at < delivered'[k].at
  <2>1. CASE k \in 1..l
    <3>1. j \in 1..l
      BY <2>1
    <3> QED
      BY <1>6, <1>7, <2>1, <3>1
  <2>2. CASE k = l + 1
    <3>1. j \in 1..l
      BY <2>2
    <3>2. delivered[j].at \in 1..(n - 1)
      BY <1>4, <1>7, <3>1 DEF RightEvents, EventIs
    <3> QED
      BY <1>3, <1>6, <2>2, <3>1, <3>2
  <2> QED
    BY <1>6, <2>1, <2>2
<1>10. EventsAre'
  BY <1>6, <1>8, <1>9 DEF EventsAre
<1>11. ASSUME AllDelivered PROVE AllDelivered'
  <2>1. ASSUME NEW m \in CompletedAt'
        PROVE  \E k \in 1..(l + 1) : delivered'[k].at = m
    <3>1. CASE m = n
      BY <1>3, <1>5, <1>6, <3>1
    <3>2. CASE m \in 1..(n - 1)
      <4>1. PICK k \in 1..l : delivered[k].at = m
        BY <1>4, <1>6, <1>11, <2>1, <3>2 DEF AllDelivered
      <4>2. k \in 1..(l + 1) /\ delivered'[k].at = m
        BY <1>6, <4>1
      <4> QED
        BY <4>2
    <3> QED
      BY <1>4, <2>1, <3>1, <3>2
  <2> QED
    BY <1>6, <2>1 DEF AllDelivered
<1> QED
  BY <1>10, <1>11

\* The length of the values joined, as the parser counts it (lib.rs:140-147)
LEMMA JoinedFacts ==
    ASSUME NEW values \in Seq(Nat), NEW v \in Nat
    PROVE  /\ JoinedLen(<<>>) = 0
           /\ JoinedLen(values) \in Nat
           /\ JoinedLen(Append(values, v)) = IF values = <<>> THEN v
                                             ELSE JoinedLen(values) + 1 + v
<1>1. /\ SumOf(<<>>) = 0 /\ SumOf(values) \in Nat
      /\ SumOf(Append(values, v)) = SumOf(values) + v
  BY SumOfAppend
<1>3. Len(values) \in Nat /\ (values # <<>> => Len(values) >= 1)
  OBVIOUS
<1>2. Append(values, v) # <<>> /\ Len(Append(values, v)) = Len(values) + 1
  <2>1. Len(Append(values, v)) = Len(values) + 1
    BY AppendFacts
  <2>2. Len(<<>>) = 0 /\ Len(values) + 1 # 0
    BY <1>3
  <2>3. Append(values, v) # <<>>
    BY <2>1, <2>2, Zenon
  <2> QED
    BY <2>1, <2>3
<1> HIDE DEF SumOf
<1>4. JoinedLen(<<>>) = 0
  BY <1>1 DEF JoinedLen
<1>5. JoinedLen(values) \in Nat
  BY <1>1, <1>3 DEF JoinedLen
<1>6. CASE values = <<>>
  <2>1. SumOf(values) = 0 /\ Len(values) = 0
    BY <1>1, <1>6
  <2> QED
    BY <1>1, <1>2, <1>4, <1>5, <1>6, <2>1 DEF JoinedLen
<1>7. CASE values # <<>>
  BY <1>1, <1>2, <1>3, <1>4, <1>5, <1>7 DEF JoinedLen
<1> QED
  BY <1>6, <1>7

\* What the parser would hold is what the limit is checked against.
LEMMA NewLenIsJoined ==
    ASSUME LogTypeOK, HoldsSegment, NEW v \in Nat
    PROVE  NewLen(v) = JoinedLen(Append(data, v)) /\ NewLen(v) \in Nat
<1>1. N \in Nat /\ data \in Seq(Nat) /\ data_len \in Nat
  BY DEF LogTypeOK, N
<1>2. data_len = JoinedLen(data) /\ (has_data <=> data # <<>>)
  BY <1>1 DEF HoldsSegment, HoldsAt
<1>3. JoinedLen(Append(data, v)) = IF data = <<>> THEN v ELSE JoinedLen(data) + 1 + v
  BY <1>1, JoinedFacts
<1> QED
  BY <1>1, <1>2, <1>3 DEF NewLen

LEMMA LogGrows ==
    ASSUME LogTypeOK, NEW f \in Fields, NEW v \in Nat, NEW ok \in BOOLEAN, Log(f, v, ok)
    PROVE  Grows([field |-> f, value |-> v, ok |-> ok])
BY DEF Log, Grows, Entry

\* What the reference says next, by what the parser holds now
LEMMA HoldsGrows ==
    ASSUME LogTypeOK, HoldsSegment, NEW e, Grows(e), NEW n \in Nat, n = N
    PROVE  /\ SegmentData(n) = data
           /\ SegmentData(n + 1)' = IF e.field \in {"blank", "reset"} THEN <<>>
                                    ELSE IF e.field = "data" /\ e.ok
                                         THEN Append(data, e.value) ELSE data
           /\ n \in CompletedAt' <=> e.field = "blank" /\ data # <<>>
           /\ Since("event", n) = event_type /\ Since("signature", n) = signature
           /\ Since("event", n + 1)' =
                IF e.field = "reset" \/ n \in CompletedAt' THEN {}
                ELSE IF e.field = "event" THEN {e.value} ELSE event_type
           /\ Since("signature", n + 1)' =
                IF e.field = "reset" \/ n \in CompletedAt' THEN {}
                ELSE IF e.field = "signature" THEN {e.value} ELSE signature
<1>1. fed \in Seq(Entry)
  BY DEF LogTypeOK
<1>2. /\ data = SegmentData(n)
      /\ event_type = Since("event", n) /\ signature = Since("signature", n)
  BY DEF HoldsSegment, HoldsAt
<1>3. /\ e.field \in {"blank", "reset"} => SegmentData(n + 1)' = <<>>
      /\ e.field \notin {"blank", "reset"} =>
           SegmentData(n + 1)' = IF e.field = "data" /\ e.ok
                                 THEN Append(SegmentData(n), e.value)
                                 ELSE SegmentData(n)
  BY <1>1, SegmentsGrow
<1>4. n \in CompletedAt' <=> e.field = "blank" /\ SegmentData(n) # <<>>
  BY <1>1, CompletedGrows
<1>5. ASSUME NEW f
      PROVE  Since(f, n + 1)' = IF e.field = "reset" \/ n \in CompletedAt' THEN {}
                                ELSE IF e.field = f THEN {e.value} ELSE Since(f, n)
  BY <1>1, SinceGrows, Zenon
<1>6. /\ Since("event", n + 1)' =
            IF e.field = "reset" \/ n \in CompletedAt' THEN {}
            ELSE IF e.field = "event" THEN {e.value} ELSE Since("event", n)
      /\ Since("signature", n + 1)' =
            IF e.field = "reset" \/ n \in CompletedAt' THEN {}
            ELSE IF e.field = "signature" THEN {e.value} ELSE Since("signature", n)
  BY <1>5, Zenon
<1> QED
  BY <1>2, <1>3, <1>4, <1>6

\* Acceptance is judged once, when the line is fed.
LEMMA AcceptanceGrows ==
    ASSUME LogTypeOK, AcceptanceIsByJoinedLength, NEW e, Grows(e),
           max_event_data_bytes' = max_event_data_bytes,
           \A n : n = N /\ e.field = "data" =>
                    (e.ok <=> JoinedLen(Append(SegmentData(n), e.value))
                                <= max_event_data_bytes)
    PROVE  AcceptanceIsByJoinedLength'
<1>1. fed \in Seq(Entry)
  BY DEF LogTypeOK
<1>2. PICK n \in Nat : n = N
  BY <1>1, GrowsFacts
<1>3. /\ DOMAIN fed = 1..(n - 1) /\ DOMAIN fed' = 1..n
      /\ fed'[n] = e /\ \A k \in 1..(n - 1) : fed'[k] = fed[k]
      /\ \A k \in 1..n : k \in 1..(n - 1) \/ k = n
  BY <1>1, <1>2, GrowsFacts
<1>4. \A k \in 1..n : SegmentData(k)' = SegmentData(k)
  BY <1>1, <1>2, SegmentsStay
<1>5. ASSUME NEW k \in 1..n, fed'[k].field = "data"
      PROVE  fed'[k].ok <=> JoinedLen(Append(SegmentData(k)', fed'[k].value))
                               <= max_event_data_bytes
  <2>1. CASE k \in 1..(n - 1)
    <3>1. fed[k].ok <=> JoinedLen(Append(SegmentData(k), fed[k].value))
                           <= max_event_data_bytes
      BY <1>3, <1>5, <2>1 DEF AcceptanceIsByJoinedLength
    <3> QED
      BY <1>3, <1>4, <2>1, <3>1
  <2>2. CASE k = n
    BY <1>2, <1>3, <1>4, <1>5, <2>2
  <2> QED
    BY <1>3, <2>1, <2>2
<1> QED
  BY <1>3, <1>5 DEF AcceptanceIsByJoinedLength, JoinedLen

LEMMA HoldsNext ==
    ASSUME LogTypeOK, NEW e, Grows(e), NEW n \in Nat, n = N,
           data' = SegmentData(n + 1)', data_len' = JoinedLen(data'),
           has_data' <=> data' # <<>>,
           event_type' = Since("event", n + 1)',
           signature' = Since("signature", n + 1)'
    PROVE  HoldsSegment'
<1>1. N' = n + 1
  BY GrowsFacts DEF LogTypeOK
<1>2. HoldsAt(n + 1)'
  BY DEF HoldsAt, JoinedLen
<1>3. \A m \in Nat : m = N' => m = n + 1
  BY <1>1
<1> QED
  BY <1>2, <1>3 DEF HoldsSegment

\* A blank line delivers the segment, or nothing (lib.rs:112-122).
LEMMA BlankKeepsLogInv ==
    ASSUME LogTypeOK, LogInv, FeedBlank
    PROVE  LogInv'
<1> DEFINE e == [field |-> "blank", value |-> 0, ok |-> TRUE]
<1>1. /\ fed \in Seq(Entry) /\ data \in Seq(Nat) /\ data_len \in Nat
      /\ event_type \in SUBSET Nat /\ signature \in SUBSET Nat
      /\ HoldsSegment /\ EventsAre /\ AllDelivered /\ AcceptanceIsByJoinedLength
  BY DEF LogTypeOK, LogInv
<1>2. Grows(e) /\ max_event_data_bytes' = max_event_data_bytes
  <2>1. "blank" \in Fields /\ Log("blank", 0, TRUE)
    BY DEF Fields, FeedBlank
  <2> QED
    BY <2>1, LogGrows DEF FeedBlank
<1>3. e.field = "blank" /\ e.value = 0 /\ e.ok = TRUE
  OBVIOUS
<1> HIDE DEF e
<1>4. PICK n \in Nat : n = N /\ n = Len(fed) + 1
  BY <1>1 DEF N
<1>5. /\ SegmentData(n) = data
      /\ SegmentData(n + 1)' = <<>>
      /\ n \in CompletedAt' <=> data # <<>>
      /\ Since("event", n) = event_type /\ Since("signature", n) = signature
      /\ Since("event", n + 1)' = IF n \in CompletedAt' THEN {} ELSE event_type
      /\ Since("signature", n + 1)' = IF n \in CompletedAt' THEN {} ELSE signature
  BY <1>1, <1>2, <1>3, <1>4, HoldsGrows
<1>6. data_len = JoinedLen(data) /\ (has_data <=> data # <<>>)
  BY <1>1, <1>4 DEF HoldsSegment, HoldsAt
<1>7. AcceptanceIsByJoinedLength'
  BY <1>1, <1>2, <1>3, AcceptanceGrows
<1>8. CASE has_data
  <2> DEFINE event == [event_type |-> event_type, signature |-> signature,
                       data |-> data, data_len |-> data_len, at |-> Len(fed) + 1]
  <2>1. /\ delivered' = Append(delivered, event) /\ has_data' = FALSE
        /\ event_type' = {} /\ signature' = {} /\ data' = <<>> /\ data_len' = 0
    BY <1>8 DEF FeedBlank, ClearCurrent
  <2>2. PICK ev : ev = event
    OBVIOUS
  <2>3. /\ ev \in AnyEvent /\ ev.at = n /\ ev.data = data /\ ev.data_len = data_len
        /\ ev.event_type = event_type /\ ev.signature = signature
    BY <1>1, <1>4, <2>2 DEF AnyEvent
  <2>4. delivered' = Append(delivered, ev)
    BY <2>1, <2>2
  <2> HIDE DEF event
  <2>5. EventIs(ev)'
    <3>1. /\ SegmentData(n)' = SegmentData(n)
          /\ Since("event", n)' = Since("event", n)
          /\ Since("signature", n)' = Since("signature", n)
      <4>1. n >= 1 /\ n \in 1..n /\ n \in 1..N
        BY <1>1, <1>2, <1>4, GrowsFacts
      <4>2. ASSUME NEW f PROVE Since(f, n)' = Since(f, n)
        <5>1. \A k \in 1..n : Since(f, k)' = Since(f, k)
          BY <1>1, <1>2, <1>4, SinceGrows, ZenonT(60)
        <5> QED
          BY <4>1, <5>1
      <4>3. SegmentData(n)' = SegmentData(n)
        BY <1>1, <1>2, <4>1, SegmentsStay
      <4> QED
        BY <4>2, <4>3, Zenon
    <3>2. n \in CompletedAt'
      BY <1>5, <1>6, <1>8
    <3>3. JoinedLen(ev.data)' = JoinedLen(ev.data)
      BY DEF JoinedLen
    <3>4. /\ ev.at \in CompletedAt'
          /\ ev.data = SegmentData(ev.at)'
          /\ ev.data_len = JoinedLen(ev.data)'
          /\ ev.event_type = Since("event", ev.at)'
          /\ ev.signature = Since("signature", ev.at)'
      BY <1>5, <1>6, <2>3, <3>1, <3>2, <3>3
    <3> QED
      BY <3>4, Zenon DEF EventIs
  <2>6. EventsAre' /\ AllDelivered'
    BY <1>1, <1>2, <1>4, <2>3, <2>4, <2>5, OneDelivered
  <2>7. HoldsSegment'
    <3>1. n \in CompletedAt'
      BY <1>5, <1>6, <1>8
    <3>2. data_len' = JoinedLen(data')
      <4>1. JoinedLen(<<>>) = 0
        BY <1>1, JoinedFacts
      <4> QED
        BY <2>1, <4>1
    <3> QED
      BY <1>2, <1>4, <1>5, <2>1, <3>1, <3>2, HoldsNext
  <2> QED
    BY <1>7, <2>6, <2>7 DEF LogInv
<1>9. CASE ~has_data
  <2>1. delivered' = delivered /\ has_data' = has_data
        /\ event_type' = event_type /\ signature' = signature
        /\ data' = data /\ data_len' = data_len
    BY <1>9 DEF FeedBlank, current
  <2>2. data = <<>> /\ n \notin CompletedAt'
    BY <1>5, <1>6, <1>9
  <2>3. EventsAre' /\ AllDelivered'
    BY <1>1, <1>2, <1>4, <2>1, <2>2, NothingDelivered
  <2>4. HoldsSegment'
    BY <1>2, <1>4, <1>5, <1>6, <1>9, <2>1, <2>2, HoldsNext
  <2> QED
    BY <1>7, <2>3, <2>4 DEF LogInv
<1> QED
  BY <1>8, <1>9

\* Comments, other fields, event and signature lines, and data lines too
\* large leave the data alone (lib.rs:124-136, 148-152, 163-166).
LEMMA FieldKeepsLogInv ==
    ASSUME LogTypeOK, LogInv, NEW e, Grows(e), e.field \notin {"blank", "reset"},
           e.field = "data" => ~e.ok /\ NewLen(e.value) > max_event_data_bytes,
           UNCHANGED <<max_event_data_bytes, data, data_len, has_data, delivered>>,
           event_type' = IF e.field = "event" THEN {e.value} ELSE event_type,
           signature' = IF e.field = "signature" THEN {e.value} ELSE signature
    PROVE  LogInv'
<1>1. /\ fed \in Seq(Entry) /\ e.value \in Nat /\ max_event_data_bytes \in Nat
      /\ HoldsSegment /\ EventsAre /\ AllDelivered /\ AcceptanceIsByJoinedLength
  BY DEF LogTypeOK, LogInv, Grows, Entry
<1>2. PICK n \in Nat : n = N
  BY <1>1, GrowsFacts
<1>3. e.field # "blank" /\ e.field # "reset"
  OBVIOUS
<1>4. /\ SegmentData(n) = data
      /\ SegmentData(n + 1)' = IF e.field \in {"blank", "reset"} THEN <<>>
                               ELSE IF e.field = "data" /\ e.ok
                                    THEN Append(data, e.value) ELSE data
      /\ n \in CompletedAt' <=> e.field = "blank" /\ data # <<>>
      /\ Since("event", n + 1)' =
           IF e.field = "reset" \/ n \in CompletedAt' THEN {}
           ELSE IF e.field = "event" THEN {e.value} ELSE event_type
      /\ Since("signature", n + 1)' =
           IF e.field = "reset" \/ n \in CompletedAt' THEN {}
           ELSE IF e.field = "signature" THEN {e.value} ELSE signature
  BY <1>1, <1>2, HoldsGrows
<1>5. /\ SegmentData(n + 1)' = data /\ n \notin CompletedAt'
      /\ Since("event", n + 1)' = event_type'
      /\ Since("signature", n + 1)' = signature'
  BY <1>3, <1>4
<1>6. data_len = JoinedLen(data) /\ (has_data <=> data # <<>>)
  BY <1>1, <1>2 DEF HoldsSegment, HoldsAt
<1>7. HoldsSegment'
  BY <1>2, <1>5, <1>6, HoldsNext
<1>8. EventsAre' /\ AllDelivered'
  BY <1>1, <1>2, <1>5, NothingDelivered
<1>9. NewLen(e.value) = JoinedLen(Append(data, e.value)) /\ NewLen(e.value) \in Nat
  BY <1>1, NewLenIsJoined
<1>10. AcceptanceIsByJoinedLength'
  <2>1. e.field = "data" => (e.ok <=> JoinedLen(Append(SegmentData(n), e.value))
                                        <= max_event_data_bytes)
    BY <1>1, <1>4, <1>9
  <2> QED
    BY <1>1, <1>2, <2>1, AcceptanceGrows
<1> QED
  BY <1>7, <1>8, <1>10 DEF LogInv

\* An accepted data line is one more value of the segment (lib.rs:152-162).
LEMMA AcceptedKeepsLogInv ==
    ASSUME LogTypeOK, LogInv, NEW v \in Nat, NewLen(v) <= max_event_data_bytes,
           Log("data", v, TRUE), data' = Append(data, v), data_len' = NewLen(v),
           has_data' = TRUE,
           UNCHANGED <<max_event_data_bytes, event_type, signature, delivered>>
    PROVE  LogInv'
<1> DEFINE e == [field |-> "data", value |-> v, ok |-> TRUE]
<1>1. /\ fed \in Seq(Entry) /\ data \in Seq(Nat)
      /\ HoldsSegment /\ EventsAre /\ AllDelivered /\ AcceptanceIsByJoinedLength
  BY DEF LogTypeOK, LogInv
<1>2. Grows(e)
  <2>1. "data" \in Fields
    BY DEF Fields
  <2> QED
    BY <2>1, LogGrows
<1>3. e.field = "data" /\ e.value = v /\ e.ok = TRUE
  OBVIOUS
<1> HIDE DEF e
<1>4. PICK n \in Nat : n = N
  BY <1>1, <1>2, GrowsFacts
<1>5. /\ SegmentData(n) = data
      /\ SegmentData(n + 1)' = IF e.field \in {"blank", "reset"} THEN <<>>
                               ELSE IF e.field = "data" /\ e.ok
                                    THEN Append(data, e.value) ELSE data
      /\ n \in CompletedAt' <=> e.field = "blank" /\ data # <<>>
      /\ Since("event", n + 1)' =
           IF e.field = "reset" \/ n \in CompletedAt' THEN {}
           ELSE IF e.field = "event" THEN {e.value} ELSE event_type
      /\ Since("signature", n + 1)' =
           IF e.field = "reset" \/ n \in CompletedAt' THEN {}
           ELSE IF e.field = "signature" THEN {e.value} ELSE signature
  BY <1>1, <1>2, <1>4, HoldsGrows
<1>6. /\ SegmentData(n + 1)' = Append(data, v) /\ n \notin CompletedAt'
      /\ Since("event", n + 1)' = event_type'
      /\ Since("signature", n + 1)' = signature'
  BY <1>3, <1>5
<1>7. NewLen(v) = JoinedLen(Append(data, v))
  BY <1>1, NewLenIsJoined
<1>8. HoldsSegment'
  <2>1. data' # <<>>
    <3>1. Len(data') = Len(data) + 1 /\ Len(data) \in Nat
      BY <1>1, AppendFacts
    <3>2. Len(<<>>) = 0 /\ Len(data) + 1 # 0
      BY <3>1
    <3> QED
      BY <3>1, <3>2, Zenon
  <2>2. data_len' = JoinedLen(data')
    BY <1>7
  <2>3. has_data' <=> data' # <<>>
    BY <2>1
  <2>4. data' = SegmentData(n + 1)'
    BY <1>6
  <2> QED
    BY <1>2, <1>4, <1>6, <2>2, <2>3, <2>4, HoldsNext
<1>9. EventsAre' /\ AllDelivered'
  BY <1>1, <1>2, <1>4, <1>6, NothingDelivered
<1>10. AcceptanceIsByJoinedLength'
  <2>1. e.field = "data" => (e.ok <=> JoinedLen(Append(SegmentData(n), e.value))
                                        <= max_event_data_bytes)
    BY <1>3, <1>5, <1>7
  <2> QED
    BY <1>1, <1>2, <1>4, <2>1, AcceptanceGrows
<1> QED
  BY <1>8, <1>9, <1>10 DEF LogInv

\* A reset starts a segment, and its fields, afresh (lib.rs:171-177).
LEMMA ResetKeepsLogInv ==
    ASSUME LogTypeOK, LogInv, Reset
    PROVE  LogInv'
<1> DEFINE e == [field |-> "reset", value |-> 0, ok |-> TRUE]
<1>1. /\ fed \in Seq(Entry) /\ data \in Seq(Nat)
      /\ HoldsSegment /\ EventsAre /\ AllDelivered /\ AcceptanceIsByJoinedLength
  BY DEF LogTypeOK, LogInv
<1>2. Grows(e)
  <2>1. "reset" \in Fields /\ Log("reset", 0, TRUE)
    BY DEF Fields, Reset
  <2> QED
    BY <2>1, LogGrows
<1>3. e.field = "reset" /\ e.value = 0 /\ e.ok = TRUE
  OBVIOUS
<1> HIDE DEF e
<1>4. PICK n \in Nat : n = N
  BY <1>1, <1>2, GrowsFacts
<1>5. /\ SegmentData(n + 1)' = IF e.field \in {"blank", "reset"} THEN <<>>
                               ELSE IF e.field = "data" /\ e.ok
                                    THEN Append(data, e.value) ELSE data
      /\ n \in CompletedAt' <=> e.field = "blank" /\ data # <<>>
      /\ Since("event", n + 1)' =
           IF e.field = "reset" \/ n \in CompletedAt' THEN {}
           ELSE IF e.field = "event" THEN {e.value} ELSE event_type
      /\ Since("signature", n + 1)' =
           IF e.field = "reset" \/ n \in CompletedAt' THEN {}
           ELSE IF e.field = "signature" THEN {e.value} ELSE signature
  BY <1>1, <1>2, <1>4, HoldsGrows
<1>6. /\ SegmentData(n + 1)' = <<>> /\ n \notin CompletedAt'
      /\ Since("event", n + 1)' = {} /\ Since("signature", n + 1)' = {}
  BY <1>3, <1>5
<1>7. /\ event_type' = {} /\ signature' = {} /\ data' = <<>> /\ data_len' = 0
      /\ has_data' = FALSE /\ delivered' = delivered
      /\ max_event_data_bytes' = max_event_data_bytes
  BY DEF Reset, ClearCurrent
<1>8. JoinedLen(<<>>) = 0
  BY <1>1, JoinedFacts
<1>9. HoldsSegment'
  BY <1>2, <1>4, <1>6, <1>7, <1>8, HoldsNext
<1>10. EventsAre' /\ AllDelivered'
  BY <1>1, <1>2, <1>4, <1>6, <1>7, NothingDelivered
<1>11. AcceptanceIsByJoinedLength'
  BY <1>1, <1>2, <1>3, <1>7, AcceptanceGrows
<1> QED
  BY <1>9, <1>10, <1>11 DEF LogInv

\* A parser that was fed nothing holds nothing (lib.rs:90-96).
LEMMA LogInvInit == Init => LogInv
<1> SUFFICES ASSUME Init PROVE LogInv
    OBVIOUS
<1>1. /\ fed = <<>> /\ DOMAIN fed = {} /\ delivered = <<>> /\ DOMAIN delivered = {}
      /\ event_type = {} /\ signature = {} /\ data = <<>> /\ data_len = 0
      /\ has_data = FALSE
  BY DEF Init
<1>2. N = 1
  BY <1>1 DEF N
<1>3. CompletedAt = {}
  BY <1>1 DEF CompletedAt
<1>4. SegmentData(1) = <<>>
  <2>1. SegmentStart(1) = 1 + Max({0})
    <3>1. {k \in 1..(1 - 1) : EndsSegment(k)} = {}
      OBVIOUS
    <3> QED
      BY <3>1 DEF SegmentStart
  <2>2. Max({0}) = 0
    <3>1. {0} \subseteq 0..0 /\ 0 \in {0} /\ 0 \in Nat
      OBVIOUS
    <3> QED
      BY <3>1, MaxIs
  <2>3. Lines(1) = {} /\ 1 - 1 = 0
    BY <2>1, <2>2 DEF Lines
  <2>4. InOrder({}, 0) = <<>>
    BY InOrderDef
  <2>5. ValuesAt(<<>>) = <<>>
    BY DEF ValuesAt
  <2>6. SegmentData(1) = ValuesAt(InOrder(Lines(1), 1 - 1))
    BY SegmentDataIs, Zenon
  <2> QED
    BY <2>3, <2>4, <2>5, <2>6
<1>5. ASSUME NEW f PROVE Since(f, 1) = {}
  <2>1. From(1) = 1
    <3>1. {j \in 1..(1 - 1) : fed[j].field = "reset" \/ j \in CompletedAt} = {}
      OBVIOUS
    <3>2. Max({0}) = 0
      <4>1. {0} \subseteq 0..0 /\ 0 \in {0} /\ 0 \in Nat
        OBVIOUS
      <4> QED
        BY <4>1, MaxIs
    <3> QED
      BY <3>1, <3>2 DEF From
  <2> QED
    BY <2>1 DEF Since, LastSince
<1>6. JoinedLen(<<>>) = 0
  <2>1. <<>> \in Seq(Nat) /\ 0 \in Nat
    OBVIOUS
  <2> QED
    BY <2>1, JoinedFacts
<1>7. Since("event", 1) = {} /\ Since("signature", 1) = {}
  BY <1>5, Zenon
<1>8. HoldsSegment
  BY <1>1, <1>2, <1>4, <1>6, <1>7 DEF HoldsSegment, HoldsAt
<1> QED
  BY <1>1, <1>3, <1>8 DEF LogInv, EventsAre, AllDelivered, AcceptanceIsByJoinedLength

LEMMA SeqOfMore ==
    ASSUME NEW S, NEW T, S \subseteq T, NEW s \in Seq(S)
    PROVE  s \in Seq(T)
<1>1. /\ Len(s) \in Nat /\ s = [k \in 1..Len(s) |-> s[k]]
      /\ \A k \in 1..Len(s) : s[k] \in T
  OBVIOUS
<1>2. \A n \in Nat : \A f : (\A k \in 1..n : f[k] \in T) => [k \in 1..n |-> f[k]] \in Seq(T)
  OBVIOUS
<1> QED
  BY <1>1, <1>2, Zenon

\* The model's own types are types of the log.
LEMMA TypesGiveLogTypes == TypeOK => LogTypeOK
<1> SUFFICES ASSUME TypeOK PROVE LogTypeOK
    OBVIOUS
<1>1. Values \subseteq Nat /\ Limits \subseteq Nat
  BY SseParserAssumption
<1>2. \A o \in Options : o \in SUBSET Nat
  BY <1>1 DEF Options
<1>a. \A s \in Seq(Values) : s \in Seq(Nat)
  BY <1>1, SeqOfMore
<1>3. data \in Seq(Nat)
  BY <1>a DEF TypeOK
<1>4. Event \subseteq AnyEvent
  BY <1>2, <1>a DEF Event, AnyEvent
<1>5. delivered \in Seq(AnyEvent)
  BY <1>4, SeqOfMore DEF TypeOK
<1> QED
  BY <1>1, <1>2, <1>3, <1>5 DEF TypeOK, LogTypeOK, Entry

\* The events delivered stay right while nothing happens, and so does all.
LEMMA EventsStutter ==
    ASSUME EventsAre, UNCHANGED vars
    PROVE  EventsAre'
<1>1. /\ fed' = fed /\ delivered' = delivered /\ data' = data /\ data_len' = data_len
      /\ has_data' = has_data /\ event_type' = event_type /\ signature' = signature
      /\ max_event_data_bytes' = max_event_data_bytes
  BY DEF vars, current
<1>2. \A n : SegmentData(n)' = SegmentData(n)
  BY <1>1 DEF SegmentData, SegmentStart, EndsSegment
<1>3. CompletedAt' = CompletedAt
  BY <1>1, <1>2 DEF CompletedAt
<1>4. \A f, n : Since(f, n)' = Since(f, n)
  BY <1>1, <1>3 DEF Since, LastSince, From
<1>5. \A s : JoinedLen(s)' = JoinedLen(s)
  BY DEF JoinedLen
<1>6. EventsAre'
  <2>1. \A event : EventIs(event) => EventIs(event)'
    <3>1. ASSUME NEW event, EventIs(event) PROVE EventIs(event)'
      <4>1. PICK at : at = event.at
        OBVIOUS
      <4>2. /\ at \in CompletedAt /\ event.data = SegmentData(at)
            /\ event.data_len = JoinedLen(event.data)
            /\ event.event_type = Since("event", at)
            /\ event.signature = Since("signature", at)
        BY <3>1, <4>1 DEF EventIs
      <4>3. /\ at \in CompletedAt' /\ event.data = SegmentData(at)'
            /\ event.data_len = JoinedLen(event.data)'
            /\ event.event_type = Since("event", at)'
            /\ event.signature = Since("signature", at)'
        BY <1>2, <1>3, <1>4, <1>5, <4>2, Zenon
      <4> QED
        BY <4>1, <4>3 DEF EventIs
    <3> QED
      BY <3>1
  <2>2. \A event : event \in RightEvents => event \in RightEvents'
    BY <2>1 DEF RightEvents
  <2> QED
    BY <1>1, <2>2 DEF EventsAre
<1> QED
  BY <1>6

LEMMA LogInvStutters ==
    ASSUME LogInv, UNCHANGED vars
    PROVE  LogInv'
<1>1. /\ fed' = fed /\ delivered' = delivered /\ data' = data /\ data_len' = data_len
      /\ has_data' = has_data /\ event_type' = event_type /\ signature' = signature
      /\ max_event_data_bytes' = max_event_data_bytes
  BY DEF vars, current
<1>2. \A n : SegmentData(n)' = SegmentData(n)
  BY <1>1 DEF SegmentData, SegmentStart, EndsSegment
<1>3. CompletedAt' = CompletedAt
  BY <1>1, <1>2 DEF CompletedAt
<1>4. \A f, n : Since(f, n)' = Since(f, n)
  BY <1>1, <1>3 DEF Since, LastSince, From
<1>5. \A s : JoinedLen(s)' = JoinedLen(s)
  BY DEF JoinedLen
<1>6. HoldsSegment'
  <2>1. N' = N
    BY <1>1 DEF N
  <2>2. \A n : HoldsAt(n) => HoldsAt(n)'
    BY <1>1, <1>2, <1>4, Zenon DEF HoldsAt, JoinedLen
  <2> QED
    BY <2>1, <2>2 DEF HoldsSegment, LogInv
<1>7. EventsAre'
  BY EventsStutter DEF LogInv
<1>8. AllDelivered'
  BY <1>1, <1>3 DEF AllDelivered, LogInv
<1>9. AcceptanceIsByJoinedLength'
  BY <1>1, <1>2, <1>5 DEF AcceptanceIsByJoinedLength, LogInv, JoinedLen
<1> QED
  BY <1>6, <1>7, <1>8, <1>9 DEF LogInv

LEMMA LogInvNext == TypeOK /\ LogInv /\ [Next]_vars => LogInv'
<1> SUFFICES ASSUME TypeOK, LogInv, [Next]_vars PROVE LogInv'
    OBVIOUS
<1>a. LogTypeOK /\ Values \subseteq Nat
  BY TypesGiveLogTypes, SseParserAssumption
<1>1. CASE FeedBlank
  BY <1>1, <1>a, BlankKeepsLogInv
<1>2. CASE FeedIgnored
  <2>1. PICK f \in {"comment", "unknown"} : Log(f, 0, TRUE)
    BY <1>2 DEF FeedIgnored
  <2> DEFINE e == [field |-> f, value |-> 0, ok |-> TRUE]
  <2>2. Grows(e)
    <3>1. f \in Fields
      BY DEF Fields
    <3> QED
      BY <1>a, <2>1, <3>1, LogGrows
  <2>3. /\ e.field \notin {"blank", "reset", "data", "event", "signature"}
    OBVIOUS
  <2>4. UNCHANGED <<max_event_data_bytes, data, data_len, has_data, delivered,
                    event_type, signature>>
    BY <1>2 DEF FeedIgnored, current
  <2> HIDE DEF e
  <2> QED
    BY <1>a, <2>2, <2>3, <2>4, FieldKeepsLogInv
<1>3. ASSUME NEW v \in Values, FeedEventType(v) PROVE LogInv'
  <2> DEFINE e == [field |-> "event", value |-> v, ok |-> TRUE]
  <2>1. Grows(e)
    <3>1. "event" \in Fields /\ v \in Nat /\ Log("event", v, TRUE)
      BY <1>3, <1>a DEF Fields, FeedEventType
    <3> QED
      BY <1>a, <3>1, LogGrows
  <2>2. e.field = "event" /\ e.value = v
    OBVIOUS
  <2>3. /\ event_type' = {v}
        /\ UNCHANGED <<max_event_data_bytes, data, data_len, has_data, delivered,
                       signature>>
    BY <1>3 DEF FeedEventType
  <2> HIDE DEF e
  <2> QED
    BY <1>a, <2>1, <2>2, <2>3, FieldKeepsLogInv
<1>4. ASSUME NEW v \in Values, FeedSignature(v) PROVE LogInv'
  <2> DEFINE e == [field |-> "signature", value |-> v, ok |-> TRUE]
  <2>1. Grows(e)
    <3>1. "signature" \in Fields /\ v \in Nat /\ Log("signature", v, TRUE)
      BY <1>4, <1>a DEF Fields, FeedSignature
    <3> QED
      BY <1>a, <3>1, LogGrows
  <2>2. e.field = "signature" /\ e.value = v
    OBVIOUS
  <2>3. /\ signature' = {v}
        /\ UNCHANGED <<max_event_data_bytes, data, data_len, has_data, delivered,
                       event_type>>
    BY <1>4 DEF FeedSignature
  <2> HIDE DEF e
  <2> QED
    BY <1>a, <2>1, <2>2, <2>3, FieldKeepsLogInv
<1>5. ASSUME NEW v \in Values, FeedData(v) PROVE LogInv'
  <2>1. v \in Nat /\ UNCHANGED <<max_event_data_bytes, event_type, signature, delivered>>
    BY <1>5, <1>a DEF FeedData
  <2>2. CASE /\ NewLen(v) <= max_event_data_bytes /\ Log("data", v, TRUE)
             /\ data' = Append(data, v) /\ data_len' = NewLen(v) /\ has_data' = TRUE
    BY <1>a, <2>1, <2>2, AcceptedKeepsLogInv
  <2>3. CASE /\ NewLen(v) > max_event_data_bytes /\ Log("data", v, FALSE)
             /\ UNCHANGED <<data, data_len, has_data>>
    <3> DEFINE e == [field |-> "data", value |-> v, ok |-> FALSE]
    <3>1. Grows(e)
      <4>1. "data" \in Fields
        BY DEF Fields
      <4> QED
        BY <1>a, <2>1, <2>3, <4>1, LogGrows
    <3>2. e.field = "data" /\ e.value = v /\ e.ok = FALSE
      OBVIOUS
    <3> HIDE DEF e
    <3> QED
      BY <1>a, <2>1, <2>3, <3>1, <3>2, FieldKeepsLogInv
  <2> QED
    BY <1>5, <2>2, <2>3 DEF FeedData
<1>6. CASE Reset
  BY <1>6, <1>a, ResetKeepsLogInv
<1>7. CASE UNCHANGED vars
  BY <1>7, LogInvStutters
<1> QED
  BY <1>1, <1>2, <1>3, <1>4, <1>5, <1>6, <1>7 DEF Next

LEMMA LogInvHolds == Spec => []LogInv
<1>1. Inv => TypeOK
  BY DEF Inv
<1> QED
  BY InvInit, InvNext, LogInvInit, LogInvNext, <1>1, PTL DEF Spec

\* Whatever is fed, in whatever order, the events delivered are exactly the
\* segments of the log that have data, in order, each with exactly its own
\* accepted data lines (lib.rs:112-122, 135-162).
THEOREM EventsAreAlwaysSegments == Spec => []EventsAreSegments
<1>1. LogInv => EventsAreSegments
  BY LogInvMeans
<1> QED
  BY LogInvHolds, <1>1, PTL

\* A data line is always accepted by the joined length of its segment: a
\* rejection, an event delivered or a reset before it makes the check neither
\* stricter nor laxer (lib.rs:142-152).
THEOREM AcceptanceIsAlwaysByJoinedLength == Spec => []AcceptanceIsByJoinedLength
<1>1. LogInv => AcceptanceIsByJoinedLength
  BY LogInvMeans
<1> QED
  BY LogInvHolds, <1>1, PTL

\* An event's type and signature are always those of its own last lines since
\* the previous event or reset: never an older event's (lib.rs:116, 136, 163).
THEOREM FieldsAreAlwaysTheLatest == Spec => []FieldsAreTheLatest
<1>1. LogInv => FieldsAreTheLatest
  BY LogInvMeans
<1> QED
  BY LogInvHolds, <1>1, PTL
=============================================================================
