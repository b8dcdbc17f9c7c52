----------------------------- MODULE SseParser ------------------------------
(***************************************************************************)
(* SseParser (helene-parser/src/lib.rs): a synchronous parser fed one line *)
(* at a time, with a limit on the bytes of data one event may accumulate.  *)
(*                                                                         *)
(* A field's value is told apart by its length in bytes.  A line without a *)
(* colon is a field with the value of length 0, so it is not a kind of     *)
(* line of its own.                                                        *)
(*                                                                         *)
(* fed and delivered are history: what the caller did, in order, and the   *)
(* events it was given, each with the position in fed of its blank line.   *)
(***************************************************************************)
EXTENDS Naturals, Sequences, FiniteSets, SequencesExt, FiniteSetsExt, Positions

CONSTANTS
    Values,     \* lengths of the values of fields
    Limits,     \* values of max_event_data_bytes
    MaxFed      \* bound: lines and resets fed

ASSUME SseParserAssumption ==
    Values \subseteq Nat /\ Limits \subseteq Nat /\ MaxFed \in Nat

VARIABLES
    max_event_data_bytes,
    event_type, signature,      \* Option: the set of the value, or none
    data, data_len,             \* the values joined, and their bytes
    has_data,
    fed, delivered

current == <<event_type, signature, data, data_len>>
vars == <<max_event_data_bytes, current, has_data, fed, delivered>>

Options == {{}} \cup {{v} : v \in Values}

Fields == {"blank", "comment", "unknown", "event", "data", "signature", "reset"}

Event == [event_type : Options, signature : Options, data : Seq(Values),
          data_len : Nat, at : Nat]

-----------------------------------------------------------------------------
\* Faulty NewLen, for AcceptanceIsByJoinedLength.
NewLenWithoutNewline(n) == data_len + n

\* The length data would have with a value of n more bytes, '\n' included.
NewLen(n) == IF has_data THEN data_len + 1 + n ELSE n

Log(field, v, ok) ==
    /\ Len(fed) < MaxFed
    /\ fed' = Append(fed, [field |-> field, value |-> v, ok |-> ok])

\* Faulty ClearCurrent, for EventsAreSegments.
ClearNothing == UNCHANGED current

\* Faulty ClearCurrent, for FieldsAreTheLatest.
ClearData ==
    /\ data' = <<>>
    /\ data_len' = 0
    /\ UNCHANGED <<event_type, signature>>

\* SseEvent::default(), left behind by mem::take and by reset
ClearCurrent ==
    /\ event_type' = {}
    /\ signature' = {}
    /\ data' = <<>>
    /\ data_len' = 0

Init ==
    /\ max_event_data_bytes \in Limits
    /\ event_type = {} /\ signature = {}
    /\ data = <<>> /\ data_len = 0
    /\ has_data = FALSE
    /\ fed = <<>> /\ delivered = <<>>

\* A blank line completes an event that has data, and otherwise does nothing
\* at all: the fields seen since the last event stay.
FeedBlank ==
    /\ Log("blank", 0, TRUE)
    /\ \/ /\ has_data
          /\ delivered' = Append(delivered,
                [event_type |-> event_type, signature |-> signature,
                 data |-> data, data_len |-> data_len, at |-> Len(fed) + 1])
          /\ has_data' = FALSE
          /\ ClearCurrent
       \/ /\ ~has_data
          /\ UNCHANGED <<current, has_data, delivered>>
    /\ UNCHANGED max_event_data_bytes

\* Comments and fields of other names
FeedIgnored ==
    /\ \E field \in {"comment", "unknown"} : Log(field, 0, TRUE)
    /\ UNCHANGED <<max_event_data_bytes, current, has_data, delivered>>

\* Faulty FeedEventType, for TypeOK.
FeedEventTypeBesideTheOld(v) ==
    /\ Log("event", v, TRUE)
    /\ event_type' = event_type \cup {v}
    /\ UNCHANGED <<max_event_data_bytes, signature, data, data_len, has_data,
                   delivered>>

FeedEventType(v) ==
    /\ Log("event", v, TRUE)
    /\ event_type' = {v}
    /\ UNCHANGED <<max_event_data_bytes, signature, data, data_len, has_data,
                   delivered>>

FeedSignature(v) ==
    /\ Log("signature", v, TRUE)
    /\ signature' = {v}
    /\ UNCHANGED <<max_event_data_bytes, event_type, data, data_len, has_data,
                   delivered>>

\* Faulty FeedData, for AccumulationIsBounded.
FeedDataCheckingOnlyTheValue(v) ==
    /\ v <= max_event_data_bytes
    /\ Log("data", v, TRUE)
    /\ data' = Append(data, v)
    /\ data_len' = NewLen(v)
    /\ has_data' = TRUE
    /\ UNCHANGED <<max_event_data_bytes, event_type, signature, delivered>>

\* The size check comes before the value is appended; the error
\* (EventDataTooLarge) leaves the parser as it was.
FeedData(v) ==
    /\ \/ /\ NewLen(v) <= max_event_data_bytes
          /\ Log("data", v, TRUE)
          /\ data' = Append(data, v)
          /\ data_len' = NewLen(v)
          /\ has_data' = TRUE
       \/ /\ NewLen(v) > max_event_data_bytes
          /\ Log("data", v, FALSE)
          /\ UNCHANGED <<data, data_len, has_data>>
    /\ UNCHANGED <<max_event_data_bytes, event_type, signature, delivered>>

Reset ==
    /\ Log("reset", 0, TRUE)
    /\ ClearCurrent
    /\ has_data' = FALSE
    /\ UNCHANGED <<max_event_data_bytes, delivered>>

Next ==
    \/ FeedBlank
    \/ FeedIgnored
    \/ \E v \in Values : FeedEventType(v) \/ FeedSignature(v) \/ FeedData(v)
    \/ Reset

Spec == Init /\ [][Next]_vars

-----------------------------------------------------------------------------
TypeOK ==
    /\ max_event_data_bytes \in Limits
    /\ event_type \in Options
    /\ signature \in Options
    /\ data \in Seq(Values)
    /\ data_len \in Nat
    /\ has_data \in BOOLEAN
    /\ fed \in Seq([field : Fields, value : Nat, ok : BOOLEAN])
    /\ delivered \in Seq(Event)

\* What the parser holds, and what it delivers, never exceeds the limit,
\* whatever is fed after a rejection or a reset (lib.rs:67-77, 142-158).
AccumulationIsBounded ==
    /\ data_len <= max_event_data_bytes
    /\ \A k \in DOMAIN delivered : delivered[k].data_len <= max_event_data_bytes

(* A reference parser over the whole log: it cuts the log into segments at *)
(* the blank lines and the resets.                                         *)

EndsSegment(k) == fed[k].field \in {"blank", "reset"}
SegmentStart(n) == 1 + Max({0} \cup {k \in 1..(n - 1) : EndsSegment(k)})

\* The values a segment adds to its event: those of its accepted data lines.
SegmentData(n) ==
    LET lines == InOrder({k \in SegmentStart(n)..(n - 1) :
                              fed[k].field = "data" /\ fed[k].ok}, n - 1)
    IN  [j \in DOMAIN lines |-> fed[lines[j]].value]

\* The bytes of values joined with newlines
JoinedLen(values) ==
    SumOf(values) + (IF values = <<>> THEN 0 ELSE Len(values) - 1)

CompletedAt == {n \in DOMAIN fed : fed[n].field = "blank" /\ SegmentData(n) # <<>>}

\* The events delivered are the segments that have data, in order, each with
\* exactly its own accepted data lines: no line is lost, repeated or carried
\* over a boundary, a reset or a rejection (lib.rs:112-122, 135-162).
EventsAreSegments ==
    /\ {delivered[k].at : k \in DOMAIN delivered} = CompletedAt
    /\ \A k \in DOMAIN delivered :
         /\ delivered[k].data = SegmentData(delivered[k].at)
         /\ delivered[k].data_len = JoinedLen(delivered[k].data)
         /\ \A j \in 1..(k - 1) : delivered[j].at < delivered[k].at

\* A data line is accepted exactly if the joined length of its segment's
\* accepted lines, newlines included, stays within the limit (lib.rs:142-152).
AcceptanceIsByJoinedLength ==
    \A n \in DOMAIN fed :
        fed[n].field = "data" =>
            (fed[n].ok <=> JoinedLen(Append(SegmentData(n), fed[n].value))
                              <= max_event_data_bytes)

\* The values since from of a field that keeps only its latest
LastSince(field, from, n) ==
    LET ks == {k \in from..(n - 1) : fed[k].field = field}
    IN  IF ks = {} THEN {} ELSE {fed[Max(ks)].value}

\* A field's value in an event is that of its last line since the previous
\* event or reset, and none if there was no such line (lib.rs:116, 136, 163):
\* blank lines without data do not end what an event is made of.  That is the
\* code's rule and not its documentation's, for which see FieldsAreOfOneSegment.
FieldsAreTheLatest ==
    \A k \in DOMAIN delivered :
        LET n == delivered[k].at
            from == 1 + Max({0} \cup {j \in 1..(n - 1) :
                                \/ fed[j].field = "reset"
                                \/ j \in CompletedAt})
        IN  /\ delivered[k].event_type = LastSince("event", from, n)
            /\ delivered[k].signature = LastSince("signature", from, n)

-----------------------------------------------------------------------------
(* What the documentation says of the parser and the code does not keep.   *)

\* "Accumulated from `event:`, `data:`, and `signature:` fields between
\* blank-line boundaries in the SSE stream." (lib.rs:19-20): as its data, an
\* event's other fields are of its own segment.
FieldsAreOfOneSegment ==
    \A k \in DOMAIN delivered :
        LET n == delivered[k].at
            own(field) == LastSince(field, SegmentStart(n), n)
        IN  /\ delivered[k].event_type = own("event")
            /\ delivered[k].signature = own("signature")
=============================================================================
