------------------------------ MODULE SseStream -------------------------------
(***************************************************************************)
(* run_sse_stream (src/transport/http.rs) once the response is there: the  *)
(* bytes of the body are cut into lines, each line is fed to an SseParser, *)
(* and what a complete event makes goes into the listener's channel.       *)
(*                                                                         *)
(* A chunk's end is not seen by the loop, since prev_cr and line_buf       *)
(* outlive the chunk; so the body is a sequence of bytes, and a read may   *)
(* fail before any of them.  The first byte of a line stands for its       *)
(* field's name and colon, the bytes after it for the value.  A byte "i" is *)
(* part of no UTF-8 character: the line that is fed has U+FFFD in its place, *)
(* three bytes long.                                                       *)
(*                                                                         *)
(* received is history.  fed and delivered are the parser's.               *)
(***************************************************************************)
EXTENDS SseParser

CONSTANTS
    MaxLineBytes,   \* max_line_bytes
    MaxReceived     \* bound: bytes of a body

ASSUME SseStreamAssumption == MaxLineBytes \in Nat /\ MaxReceived \in Nat

VARIABLES
    received,       \* the bytes the loop has taken
    line_buf, prev_cr,
    had_data,
    signer,         \* whether an HMAC key is configured
    open,           \* whether the channel's receiver is alive
    out,            \* the items put into the channel
    outcome         \* "running", "flushing", "blank_left", the SseOutcome, or
                    \* one of Panicked

streamVars == <<received, line_buf, prev_cr, had_data, signer, open, out, outcome>>
allVars == <<vars, streamVars>>

\* The first byte of a line of each kind
FieldOf == [D |-> "data", E |-> "event", S |-> "signature", x |-> "unknown",
            i |-> "unknown"]

\* The task has panicked: between two bytes, or at the blank line that is added.
Panicked == {"panicked", "panicked_at_end"}

-----------------------------------------------------------------------------
(* Events and items.                                                       *)

\* "message" is the type of one byte.
IsMessage(event) == event.event_type \in {{}, {1}}

\* The value of a signature line, by its length and by whether every character
\* of it is one byte, which then is a hexadecimal digit.
AllDigits(n) == 2 * n
SomeWide(n) == 2 * n + 1

\* TransportSigner::verify_hex: the signature of data of n bytes has 2n digits.
VerifyHex(event) == event.signature = {AllDigits(2 * event.data_len)}

\* hex_decode answers None for an odd number of bytes.  For an even one it cuts
\* the text after every second byte, which panics within a character, and in
\* an even number of bytes one of three bytes is always cut.
HexDecodePanics(event) ==
    \E v \in event.signature : \E n \in 0..v : v = SomeWide(2 * n)

\* serde_json::from_str and WireEnvelope::into_envelope: data of one byte is
\* an envelope, without one it is no JSON, with more its payload is no base64.
IntoEnvelope(event) ==
    CASE event.data_len = 1 -> "envelope"
      [] event.data_len = 0 -> "invalid_json"
      [] OTHER              -> "invalid_base64"

\* Faulty ProcessMessageEvent, for ItemsAreEvents.
ProcessMessageEventUnsigned(event) == IntoEnvelope(event)

\* process_message_event: the signature comes before the parsing.
ProcessMessageEvent(event) ==
    IF signer /\ ~VerifyHex(event) THEN "bad_signature" ELSE IntoEnvelope(event)

Panics(event) == signer /\ HexDecodePanics(event)

-----------------------------------------------------------------------------
(* dispatch_line                                                           *)

InvalidIn(line) == {k \in 2..Len(line) : line[k] = "i"}

\* The length of the value once String::from_utf8_lossy has decoded the line
ValueLen(line) == Len(line) - 1 + 2 * Cardinality(InvalidIn(line))

\* The value of the line
ValueOf(line) ==
    IF FieldOf[line[1]] # "signature" THEN ValueLen(line)
    ELSE IF InvalidIn(line) = {} THEN AllDigits(ValueLen(line))
    ELSE SomeWide(ValueLen(line))

TooLarge(line) ==
    line # <<>> /\ line[1] = "D" /\ NewLen(ValueOf(line)) > max_event_data_bytes

\* parser.feed_line(line), for a line that is not too large
FeedLine(line) ==
    IF line = <<>> THEN FeedBlank
    ELSE LET v == ValueOf(line) IN
         CASE FieldOf[line[1]] = "data"      -> FeedData(v)
           [] FieldOf[line[1]] = "event"     -> FeedEventType(v)
           [] FieldOf[line[1]] = "signature" -> FeedSignature(v)
           [] OTHER -> FeedIgnored /\ Last(fed').field = "unknown"

\* The event is ready: process_sse_event, then tx.send.
Forward(next) ==
    IF Len(delivered') = Len(delivered) \/ ~IsMessage(Last(delivered'))
    THEN UNCHANGED <<had_data, out>> /\ outcome' = next
    ELSE IF Panics(Last(delivered'))
    THEN /\ outcome' = IF next = "running" THEN "panicked" ELSE "panicked_at_end"
         /\ UNCHANGED <<had_data, out>>
    ELSE LET item == ProcessMessageEvent(Last(delivered')) IN
         IF open
         THEN /\ out' = Append(out, item)
              /\ had_data' = (had_data \/ item = "envelope")
              /\ outcome' = next
         ELSE /\ outcome' = IF next = "running" THEN "channel_closed" ELSE next
              /\ UNCHANGED <<had_data, out>>

\* EventDataTooLarge: the parser is reset and the error reported, if there is
\* still somebody to report it to.
Reject(line, next) ==
    /\ Log("data", ValueOf(line), FALSE)
    /\ ClearCurrent
    /\ has_data' = FALSE
    /\ out' = IF open THEN Append(out, "too_large") ELSE out
    /\ outcome' = IF next = "running" THEN "error" ELSE next
    /\ UNCHANGED <<max_event_data_bytes, delivered, had_data>>

\* next is what follows when the line is dispatched; while flushing, whatever
\* dispatch_line returns.
DispatchLine(line, next) ==
    /\ IF TooLarge(line) THEN Reject(line, next)
       ELSE FeedLine(line) /\ Forward(next)
    /\ line_buf' = <<>>

StreamInit ==
    /\ Init
    /\ received = <<>>
    /\ line_buf = <<>>
    /\ prev_cr = FALSE
    /\ had_data = FALSE
    /\ signer \in BOOLEAN
    /\ open = TRUE
    /\ out = <<>>
    /\ outcome = "running"

Read(byte) ==
    /\ outcome = "running"
    /\ Len(received) < MaxReceived
    /\ received' = Append(received, byte)
    /\ UNCHANGED <<signer, open>>

\* Faulty ReadLF, for LinesAreSplit.
ReadLFAlways ==
    /\ Read("LF")
    /\ prev_cr' = FALSE
    /\ DispatchLine(line_buf, "running")

\* The LF of a CRLF pair
ReadLFOfPair ==
    /\ prev_cr
    /\ Read("LF")
    /\ prev_cr' = FALSE
    /\ UNCHANGED <<vars, line_buf, had_data, out, outcome>>

ReadLF ==
    /\ ~prev_cr
    /\ Read("LF")
    /\ DispatchLine(line_buf, "running")
    /\ UNCHANGED prev_cr

ReadCR ==
    /\ Read("CR")
    /\ prev_cr' = TRUE
    /\ DispatchLine(line_buf, "running")

\* Faulty ReadByte, for LinesAreBounded.
ReadByteAndOne(byte) ==
    /\ Read(byte)
    /\ prev_cr' = FALSE
    /\ IF Len(line_buf) > MaxLineBytes
       THEN outcome' = "error" /\ UNCHANGED line_buf
       ELSE line_buf' = Append(line_buf, byte) /\ UNCHANGED outcome
    /\ UNCHANGED <<vars, had_data, out>>

\* A byte of a line, unless the line is full
ReadByte(byte) ==
    /\ Read(byte)
    /\ prev_cr' = FALSE
    /\ IF Len(line_buf) >= MaxLineBytes
       THEN outcome' = "error" /\ UNCHANGED line_buf
       ELSE line_buf' = Append(line_buf, byte) /\ UNCHANGED outcome
    /\ UNCHANGED <<vars, had_data, out>>

\* stream.next() is an error.
ReadFails ==
    /\ outcome = "running"
    /\ outcome' = "error"
    /\ UNCHANGED <<vars, received, line_buf, prev_cr, had_data, signer, open, out>>

\* stream.next() is None.
StreamEnds ==
    /\ outcome = "running"
    /\ outcome' = IF line_buf = <<>> THEN "blank_left" ELSE "flushing"
    /\ UNCHANGED <<vars, received, line_buf, prev_cr, had_data, signer, open, out>>

\* The line without a terminator
FlushLine ==
    /\ outcome = "flushing"
    /\ DispatchLine(line_buf, "blank_left")
    /\ UNCHANGED <<received, prev_cr, signer, open>>

\* The blank line that is always added
FlushBlank ==
    /\ outcome = "blank_left"
    /\ DispatchLine(<<>>, "clean")
    /\ UNCHANGED <<received, prev_cr, signer, open>>

\* disconnect drops the receiver.
ReceiverDrops ==
    /\ open
    /\ outcome \in {"running", "flushing", "blank_left"}
    /\ open' = FALSE
    /\ UNCHANGED <<vars, received, line_buf, prev_cr, had_data, signer, out, outcome>>

\* Only the first byte of a line tells fields apart; an invalid one makes a
\* field unknown, as "x" does.
StreamNext ==
    \/ ReadLFOfPair
    \/ ReadLF
    \/ ReadCR
    \/ \E byte \in DOMAIN FieldOf :
         /\ IF line_buf = <<>> THEN byte # "i" ELSE byte \in {"x", "i"}
         /\ ReadByte(byte)
    \/ ReadFails
    \/ StreamEnds
    \/ FlushLine
    \/ FlushBlank
    \/ ReceiverDrops

StreamSpec == StreamInit /\ [][StreamNext]_allVars

-----------------------------------------------------------------------------
(* A reference splitter over the whole body: leave out every LF after a CR, *)
(* then cut at every CR and LF.                                             *)

Text == Chosen(received, {k \in DOMAIN received :
                              ~ /\ k > 1 /\ received[k] = "LF"
                                /\ received[k - 1] = "CR"})

\* The lines of a text, each with an end, and what is left after the last end
Split(text) ==
    LET ends == InOrder({k \in DOMAIN text : text[k] \in {"CR", "LF"}}, Len(text))
        start(j) == IF j = 1 THEN 1 ELSE ends[j - 1] + 1
    IN  [lines |-> [j \in DOMAIN ends |-> SubSeq(text, start(j), ends[j] - 1)],
         rest  |-> SubSeq(text, start(Len(ends) + 1), Len(text))]

\* What the parser should have been fed by now.
Dispatched ==
    LET body == Split(Text) IN
    body.lines
        \o (IF outcome \in {"blank_left", "clean", "panicked_at_end"}
               /\ body.rest # <<>>
            THEN <<body.rest>> ELSE <<>>)
        \o (IF outcome \in {"clean", "panicked_at_end"} THEN << <<>> >> ELSE <<>>)

\* Whatever mix of CR, LF and CRLF ends the lines, wherever the chunks end,
\* the parser is fed each line exactly once and no line that is not there: a
\* CRLF is one end, LFCR two.  A last line without an end, and a blank line
\* after it, are fed exactly if the stream ends before anything fails.  The
\* value fed is the decoded one (http.rs:419, 449-452, 464-512).
LinesAreSplit ==
    LET dispatched == Dispatched IN
    /\ Len(fed) = Len(dispatched)
    /\ \A j \in DOMAIN fed :
         LET line == dispatched[j] IN
         IF line = <<>> THEN fed[j].field = "blank"
         ELSE /\ fed[j].field = FieldOf[line[1]]
              /\ fed[j].field # "unknown" => fed[j].value = ValueOf(line)

\* The bytes of a line, in progress or ended, are within the limit; the first
\* byte beyond it ends the stream, though what was before it has been served.
\* The limit is on the bytes read: what a line's decoding makes of its value
\* may be up to three times as long, and no longer (http.rs:419, 491-499).
LinesAreBounded ==
    LET body == Split(Text) IN
    /\ \A j \in DOMAIN body.lines : Len(body.lines[j]) <= MaxLineBytes
    /\ outcome = "running" => line_buf = body.rest
    /\ outcome # "error" => Len(body.rest) <= MaxLineBytes
    /\ \A j \in DOMAIN fed :
         fed[j].field = "data" => fed[j].value <= 3 * (MaxLineBytes - 1)
    /\ Len(body.rest) > MaxLineBytes =>
         /\ Len(body.rest) = MaxLineBytes + 1
         /\ line_buf = SubSeq(body.rest, 1, MaxLineBytes)

Messages == Chosen(delivered, {k \in DOMAIN delivered : IsMessage(delivered[k])})
Items == Chosen(out, {k \in DOMAIN out : out[k] # "too_large"})

\* The channel gets one item per event of type message, in order, until the
\* receiver is gone, and the report of an event too large after them, which is
\* the last unless the stream had ended: an event of another type, an event
\* not yet complete, or a part of one too large makes none.  An item is an
\* envelope exactly if the event is, and is signed if it has to be by its own
\* signature line; and the stream counts as productive exactly if one was put.
\* A signature of an even number of bytes with a character of several is the
\* one exception: its event makes no item and ends the task, and nothing else
\* does (http.rs:148-156, 412-447, 503-512, 518-555).
ItemsAreEvents ==
    LET reports == {k \in DOMAIN fed : ~fed[k].ok}
        ownLine(k) == LastSince("signature",
                        1 + Max({0} \cup {n \in 1..(Messages[k].at - 1) :
                                            n \in CompletedAt}),
                        Messages[k].at)
        signed(k) == ownLine(k) = {AllDigits(2 * JoinedLen(Messages[k].data))}
        unreadable(k) == signer /\ \E v \in ownLine(k) : \E n \in 0..v :
                                     v = SomeWide(2 * n) IN
    /\ open => /\ Len(Items) = Len(Messages) - (IF outcome \in Panicked THEN 1 ELSE 0)
               /\ Len(out) = Len(Items) + Cardinality(reports)
    /\ outcome \in Panicked <=> \E k \in DOMAIN Messages : unreadable(k)
    /\ \A k \in DOMAIN Messages : unreadable(k) => k = Len(Messages)
    /\ Len(Items) <= Len(Messages)
    /\ \A k \in DOMAIN Items :
         Items[k] = "envelope" <=> /\ JoinedLen(Messages[k].data) = 1
                                   /\ signer => signed(k)
    /\ \A k \in reports : k < Len(fed) =>
                             outcome = "clean" /\ k = Len(fed) - 1
    /\ had_data <=> Contains(Items, "envelope")
    /\ outcome = "channel_closed" => ~open /\ Len(Items) < Len(Messages)
=============================================================================
