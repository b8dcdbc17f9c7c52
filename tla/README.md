# Helene in TLA+

Helene connects chat channels to language models: messages arrive as signed
envelopes over a transport, are verified, and are handed to a session host that
keeps one conversation per tenant and asks an inference provider for the next
turn.  This directory models the parts of it that keep state and run
concurrently, checks them with TLC on small instances, and proves what matters
most about them with TLAPS for every instance.

Line numbers below and in the modules are those of `src/src/...` (the `helene`
crate) and `src/helene-parser/src/lib.rs` (cited as `lib.rs`).

## 1. Inventory

| Component | State | Operations | What makes it hard |
|---|---|---|---|
| **Session host** `session/host.rs` | map tenant → session behind a tokio `RwLock`; per session: configuration, context, two counters; `connected` flag | `register_tenant`, `remove_tenant`, `process_message`, `record_verification_failure`, `health`, `set_connected` | `process_message` takes the lock three times with an inference between; other calls, removals and re-registrations run in the gaps; the future may be dropped |
| **Context** `context/types.rs` | ordered messages, system prompt, limits | `push`, `to_completion_request`, setters | order and completeness of what the provider sees |
| **SSE parser** `helene-parser` | event in progress, whether it has data | `feed_line`, `reset` | a size limit applied while data accumulates; errors in the middle of an event |
| **HTTP transport** `transport/http.rs` | connected flag, session id behind an async mutex, channel receiver, listener task; in the task: retry counter, parser, partial line | `connect`, `disconnect`, `send`, `recv`; the task's loop of streams, backoff and giving up | a background task, a bounded channel, aborts that are not awaited, a lock held across a request, concurrent sends |
| **Transport contract** `transport/mod.rs` | — | the trait's promises: FIFO, drain before `ConnectionClosed`, one connection | what every transport must do |
| **Mock transport** `transport/mock.rs` | two channels | as the trait | test double |
| **Provider interface** `provider/mod.rs`, `types.rs` | — | `complete` | an await of unbounded meaning: it may fail, or never answer in time |
| **Anthropic provider** `provider/anthropic.rs` | none between calls | `build_api_request`, `parse_api_response`, `map_error` | merging of neighbours, early returns in the middle of a request |
| **Verification** `verify/` | none | `canonical_bytes`, HMAC `verify` | injectivity of the signed bytes |

How they interact: the application calls `Transport::recv`, verifies the
envelope, and calls `SessionHost::process_message` (or
`record_verification_failure`); the host calls `InferenceProvider::complete`
with a request made from the context.  The HTTP transport's listener task feeds
lines to an `SseParser` and forwards whole events through a bounded channel.
The application owns the transport exclusively for `connect`, `disconnect` and
`recv`, and shares it for `send`; it shares the host among as many futures as it
likes.

What makes each correct:

* *Session host*: a tenant's turns and configuration reach no other tenant;
  counters agree with the context; answers follow their questions, once;
  requests are snapshots; every question is settled.
* *Parser*: memory is bounded by the limit at all times; events are exactly the
  accepted data of their segment; acceptance is by the joined length.
* *HTTP transport*: items arrive in order, none lost or doubled while connected;
  backpressure; retries are limited and renewed only by progress; the end is
  reported after everything else; aborted listeners wind down beside a new
  connection; a disconnect ends.
* *Stream of a response*: lines are cut at the right places and bounded; each
  message event makes one item, whatever its signature looks like.
* *Anthropic provider*: roles alternate in the API request, no block is lost or
  reordered, errors are those of the first defect; a response has everything the
  answer held, an error has a reason, and calls can be replayed.
* *Contract*: what a holder of one end may rely on, whatever the transport;
  *mock*: it keeps the contract, and no call waits for a peer that is gone.
* *Verification*: what verify accepts was signed, field by field; and only that
  reaches a context or a provider.

## 2. Modules

| Module | Models | Role |
|---|---|---|
| `TenantLog` | what the host promises of the conversations | abstract specification: a log per live tenant; `Ask` appends a question, `Conclude` an answer, `Fail` ends a call, `Open` and `Close` make and drop logs |
| `SessionHost` | `session/host.rs`, `Context::push`, `to_completion_request` | detailed specification; `ImplementsTenantLog` is its refinement of `TenantLog` |
| `MessageSigning` | `verify/types.rs`, `verify/hmac_verifier.rs` | the canonical encoding, signing, verification |
| `VerifiedSession` | the lifecycle of `session/mod.rs:32-43` | composes `SessionHost` and `MessageSigning` with the caller between them |
| `TransportContract` | what `transport/mod.rs` promises of the receiving end | abstract specification |
| `HttpTransport` | `transport/http.rs` | owner, listener tasks, channel and session id; implements `TransportContract` |
| `MockTransport` | `transport/mock.rs` | a pair of ends, each implementing `TransportContract` |
| `SseParser` | `helene-parser/src/lib.rs` | the parser and a reference parser over the log of what was fed |
| `SseStream` | `run_sse_stream`, `dispatch_line`, `process_sse_event` of `transport/http.rs` | composes the parser with the bytes of a body and the items of the channel; a reference splitter |
| `AnthropicRequest` | `build_api_request`, `push_or_merge`, `into_blocks` | the loop over a request's messages |
| `AnthropicProvider` | `complete`, `map_error`, `parse_retry_after`, `parse_api_response`, `ApiKey::new` | composes the request with its answer and the answer's replay |
| `Positions` | — | positions in a log and sums along a sequence, as recursive functions |
| `MCSessionHost`, `MCVerifiedSession`, `MCAnthropicProvider` | — | instances for TLC |
| `SessionHostProofs`, `VerifiedSessionProofs`, `SseParserProofs`, `SseStreamProofs`, `HttpTransportProofs`, `MockTransportProofs`, `AnthropicProofs` | — | inductive invariants and proofs |
| `ListLemmas` | — | lemmas about `Positions` and sequences that the proofs share |

A definition whose comment begins with "Faulty" is a form of the definition it
names that a plausible bug would give it.  It belongs to no specification: put
in that definition's place, it makes TLC find the named property violated, which
shows that the property depends on that code.

### SessionHost

Each critical section of the map's lock has no await in it, so it is one
action; everything between two of them interleaves.  A call of `process_message`
is a member of `Calls` with a program counter:

    idle --PushMessage--> pushed --BuildRequest--> waiting --ProviderReplies--> answered --AppendResponse--> ok
                                                          \--ProviderFails--> provider_error
    PushMessage, BuildRequest: not_found if the tenant has no session
    Cancel: from pushed, waiting and answered (the caller drops the future)

`PushMessage` is lines 101-114 (push the user turn and count it), `BuildRequest`
116-122 (snapshot under the read lock), `ProviderReplies` and `ProviderFails`
the await of line 124, `AppendResponse` 126-149 (append to the session the
tenant has *then*, silently nothing if there is none).  `StartHealth` reads
`connected` before the lock and `FinishHealth` the session under it, as 229-243
do.  Errors that change nothing (`TenantAlreadyExists`, and `TenantNotFound`
outside `process_message`) are stuttering steps.

A turn holds the call it belongs to, its role, the number of its `resp-N` id and
whether it is a text or tool calls; texts, timestamps and the clock are left
out.  Sessions are numbered by registration (`gen`), which the code does not do:
`gen`, `registry`, `bornIn` and `report` are history for the properties.
`Probed` is the set of tenants whose health is asked for and whose verification
failures, which nothing but health shows, are counted; a run that asks no
question of health leaves it empty.

### MessageSigning and VerifiedSession

A text is the sequence of its bytes, a length prefix one element that holds the
length modulo `LengthLimit` (2^32 in the code), so that a text too long for its
prefix would be encoded as the code encodes it.  A MAC is ideal: the pair of key
and bytes.  `Wire` is what may arrive: signed messages, messages without a
signature, and messages altered under a signature of another.  The caller is not
part of the repository; it verifies a message and then processes what verify
returned, which is what `session/mod.rs:43` assumes of it.  A message may arrive
any number of times.

### HttpTransport

An action is the code between two awaits that may be pending.  The owner has
`connect`, `disconnect` in its steps (abort and drop the receiver; take the
session id's lock and send the DELETE; its answer; clear), `send` as a POST and
its return, and `recv`.  Each connection has its own listener:

    attach -> get -> [store ->] stream -> forward -> stream ...      (an event)
                                       -> reject -> backoff          (over the limit)
                                       -> flush -> done              (clean end, last event)
                                       -> done                       (clean end, or a panic)
    get, stream, reject --StreamFails--> backoff -> attach, or giving_up -> done

`aborted` is set by `disconnect`, which does not wait for the task.  An aborted
task dies (`Die`) at a pending await.  A poll that is already running on another
thread goes on until then: an aborted listener may still take any step but those
that certainly wait, the sending of a GET and the backoff.  This over-approximates
what one poll can do.  The server is the environment: statuses, session ids,
events, ends and errors are its choice.

`closed` remembers that `recv` said `ConnectionClosed`.  It does so at the end of
the channel (`RecvClosed`), and also when a disconnect that was dropped took the
receiver away but left the transport connected (`RecvWithoutReceiver`,
`http.rs:673`): then whatever the listener is at and whatever was discarded.
That step breaks the contract of `transport/mod.rs`, so `ImplementsContract` says
of every other step that it keeps it, and `HttpDroppedDisconnect` shows the
divergence.  `ServePanic` is an event whose signature panics `hex_decode`: the
task ends without an item, which the reader sees as the end.

Simplified: lock acquisitions of `connect` and of the start of `disconnect` that
nobody can contend are merged with what follows them; the errors `NotConnected`
and `AlreadyConnected` change nothing; an event is a valid envelope, a refused
one, one over the limit, or one that panics.

### SseParser and SseStream

`SseParser` has one action per kind of line `feed_line` tells apart, and
`Reset`.  A value is its length; a line's text matters to no property.  `NewLen`
is the length test of lines 142-147, with the newline that joins two data lines.
The variable `fed` is the history of all lines and resets with their outcome,
`delivered` the events returned.  The properties cut `fed` into segments with a
reference parser written independently of the actions.

`SseStream` reads one byte a step: the end of a chunk changes nothing in the
loop, whose `prev_cr` and `line_buf` outlive it, so a body is a sequence of
bytes.  A byte is LF, CR, or part of a line, whose first byte stands for the
field name and the colon, the others for the value.  A byte `"i"` is no part of a
UTF-8 character: `from_utf8_lossy` (`http.rs:419`) puts U+FFFD in its place, three
bytes, so that `ValueLen`, which the parser counts, may be up to three times the
bytes that `max_line_bytes` limits.  Data of one byte is an envelope, of none or
more a defective one.  A signature value is its length and whether all its
characters are of one byte (`AllDigits`) or some of several (`SomeWide`); a
character of one byte is taken to be a hexadecimal digit, and the signature is
right if it has two digits for each byte of the data.  `hex_decode` (`http.rs:148-156`)
slices after every second byte and so panics on any even value with a U+FFFD in
it (`HexDecodePanics`): the task ends, `"panicked"` within the body and
`"panicked_at_end"` at the flush, and the event makes no item.  (In the code a pair
that is no hexadecimal number before that character is refused first; the
assumption on digits leaves that out, and it is the outcome `bad_signature`.)
Read errors, the end of the stream and a receiver that is
dropped may come between any two bytes.  The steps of the parser are those of
`SseParser`, by `FeedLine`; `HttpTransport` takes the outcome of a whole event
as its step.

### MockTransport and TransportContract

The contract is about one end: it is new, live or dead; its inbox is what the
peer sent and it has not received; the peer may have closed; and recv may have
said so.  In `HttpTransport` every connection is an end, and its peer is its
listener.  In `MockTransport` each end is the peer of the other, and many calls
of send and recv may wait at either, and be dropped.  That a transport is
connected once holds of the mock as a whole; of the HTTP transport it holds
only of each connection, as `connect` looks at the flag alone (`http.rs:567`).

### AnthropicRequest and AnthropicProvider

One action per role of the message the loop takes, one for misplaced
`tool_calls`, and `Finish` for what follows the loop.  The request is not fixed
in advance; `read` is what the loop took so far, so all requests up to a length
are covered by one exploration, and invariants hold at every turn of the loop.
A block is told apart by the position of its message and of its call.

The answer is treated likewise: `content` is what the loop over its blocks took.
A status that is not a success ends `complete` at once with `MapError`; a
body of another shape, or no answer, with `Request`.  A Retry-After header is a
number of seconds or a date at some distance from now, in whole microseconds,
or neither.  The delay is truncated to milliseconds and saturates at `MaxMs`,
which stands for `u64::MAX`, as the cast of `anthropic.rs:502` does; that `f64`
rounds below a microsecond is not modelled, and dates are taken to be nearer
than `MaxMs`, where the cast of their milliseconds would wrap.
`AnthropicProvider::new` may fail to build its client, with `Request` and nothing
sent.  A text or a call kept is the position of its block.

## 3. Runs

Passing runs:

| Run | Instance | Shows |
|---|---|---|
| `SessionCalls` | 2 tenants, 3 calls, 2 registrations | `CountersMatchContext`, `AnswersFollowQuestions`, `RequestsAreSnapshots`, `SharedIdsMeanOverlap`, `TenantIsolation`, `ContextOnlyGrows`, and the refinement `ImplementsTenantLog` |
| `SessionVerified` | 1 tenant, 2 calls, 2 registrations, 1 verification failure, health; 9 signed messages of one set of bytes; fairness | `ContextIsAuthentic`, `HealthNeverGoesBack`, `QuestionsAreSettled` |
| `ParserLogs` | logs of 6 lines and resets, value lengths 0 and 2, limits 1 and 3 | the parser's events are those of the reference parser, memory is bounded |
| `SseStream` | bodies of 7 bytes, lines of 3, events of 3, with and without a key | lines are those of the reference splitter, their bytes are bounded, and items are those of the events but for one that panics |
| `HttpListener` | 1 connection, 2 retries, a channel of 2, 2 events, a send, fairness | order, backpressure, retry budget, the contract but for `recv` without a receiver; everything is received, retrying ends, ends are reported, disconnects conclude |
| `HttpConnections` | 2 connections, 1 retry, a channel of 1, 1 event, a send | with aborted listeners of the first beside the second: only the second's feeds the owner, aborted ones only step towards their end, a session id is kept |
| `MockPair` | 2 ends, channels of 2, 3 sends and 1 waiting recv at each, fairness | the contract at both ends, no call waits for a peer that is gone |
| `ProviderCalls` | requests of 4 messages, all roles and defects; answers of 4 blocks, 7 statuses, every form of Retry-After, a `MaxMs` of 3 | alternation, completeness, order, runs, verdict; complete responses, the error and the delay of each status, replay |

Runs whose property is a sentence of the documentation that the code does not
keep; TLC finds the counterexample, and `PROJECT.json` quotes the sentence:

| Run | What happens |
|---|---|
| `SessionStaleAnswer` | a tenant is removed and registered again while an inference runs; the answer is appended to the new session, which never held its question (`host.rs:134`) |
| `ParserBoundary` | an `event` or `signature` line before a blank line without data is in the next event, across the boundary (`lib.rs:114-121`) |
| `HttpDroppedDisconnect` | a disconnect is dropped at the DELETE; `recv` then says `ConnectionClosed` although items were discarded or the listener still runs (`http.rs:673`) |
| `HttpStaleSession` | an aborted listener whose poll is still running stores a session id after `disconnect` cleared it; the next connection would send it (`http.rs:388-398, 591`) |

Where else code and documentation part, at a line that shows it without a
counterexample:

* A tool-use response is stored as the Debug rendering of its calls and replayed
  as plain text (`host.rs:129`, `AssistantTurn`), where `provider/types.rs:23-26`
  says that the API expects the original blocks.  The provider keeps and replays
  calls faithfully (`CallsSurviveReplay`); it is the host that never hands them
  back.
* `reset` clears the event in progress and nothing else (`lib.rs:170-177`,
  `Reset`), so the rest of a rejected event is parsed at once as an event; `lib.rs:38-40`
  says parsing continues from the next blank-line boundary.
* `connect` succeeds again after a `disconnect` (`http.rs:567`, `Connect`);
  `transport/mod.rs:48-65` says it does not.  `HttpConnections` is about what then
  happens.
* A signature that is no hexadecimal text is meant to fail the verification, as
  the tests at `http.rs:863-867` have it; one of an even number of bytes with a
  character of several panics the listener's task instead (`http.rs:154`,
  `HexDecodePanics`), and the reader is told of the end, not of the event.

Further observations that the properties are worded around.  The comment at
`host.rs:97-99` names one thing that can happen between the push and the
snapshot; the other, a re-registration in the gap, gives a request without its
caller's message (`RequestsAreSnapshots` excepts it), and a request of no
message at all if the new session is still empty.  `FieldsAreTheLatest` counts
from the previous *event*, as the code does, not from the previous blank line
(`ParserBoundary`).  `AnswersFollowQuestions` and `ImplementsTenantLog` allow an
answer of an earlier session, which `SessionStaleAnswer` is about.  `reconnect_base_delay`, called
the initial delay at `http.rs:176`, is half of the first delay, as the shift is
by the retry number, which is 1 by then (`http.rs:560`).  A disconnected mock
keeps its receiver until it is dropped, so a peer that waits for room waits
until then (`WaitersAreReleased` speaks of dropped ends for sends, of
disconnected ones for recvs).  The tenant is no part of what is signed, and
nothing remembers a message that was verified.

### Bounds, and why they are enough

* *Calls*: what two calls do to each other is a matter of one lock; a third lets
  an answer fall between two questions of others.  Two registrations after the
  initial emptiness give a removal and one successor, or two tenants at once.
* *Verification*: one message signed, and two others with the same bytes cut at
  other places between author and content, each with no signature, with the
  signed one's, and with one under another key.
* *Parser*: six lines hold two events, or an event, a rejection, a reset and an
  event.  Lengths 0 and 2 against limits 1 and 3 reach
  the limit exactly (0, newline, 0 and 0, newline, 2) and pass it by one (2 over 1),
  and only the joining newline decides in some logs.
* *Stream*: seven bytes hold a signature, an event type and data with their ends
  and the blank line that completes the event, or two events; lines of three
  bytes reach their limit and pass it by one.  A value of one invalid byte has the
  length three of the event's limit, one of two passes it; a signature of one
  digit and one invalid byte has four bytes, and panics.
* *Transport*: with two retries a productive first stream and two fruitless ones
  are told from three fruitless ones; a channel of two can be full while the
  listener gives up.  One connection bounds the liveness run; `HttpConnections`
  has two, so that a listener of the first may be at any of its steps while the
  second's is at any of its own, and it is proved for any number (section 4).
* *Mock*: three sends against a channel of two leave one waiting; both ends may
  send, wait, disconnect and be dropped in any order.
* *Requests and answers*: four messages hold two runs with a system message
  inside either; four blocks hold two texts beside two calls, or a defect after
  three good ones.  Every status and header stands for a case of `map_error` or
  `parse_retry_after`: a delay of none, one that is truncated, and one of nine
  milliseconds that saturates at three.

Symmetry is used in safety runs only, over tenants and calls: no definition
tells their members apart.

Deadlock is not checked where the system may stop: the parser's log is bounded,
a stream that returned and a call that completed are over, a transport whose
connections and events are used up rests, and both mock ends may be dropped.

### Fairness

`VerifiedSession`: a call that has started is polled until it returns.  tokio's
`RwLock` is fair, its critical sections are short and have no awaits, and the
reqwest client behind the Anthropic provider has a connect timeout of 30 s and a
request timeout of 600 s, so the await of `complete` ends.  Starting a call,
dropping it, registering, removing and health have no fairness.

`HttpTransport`: the runtime runs a task that can run, so the listener's own
steps are weakly fair; its requests have timeouts (`request_timeout`), so a GET
succeeds or fails.  Steps of the server on an open stream have no fairness.  A
disconnect that is not dropped is polled to its end, and the application is
assumed to keep receiving: without a reader the listener rightly waits for ever,
which is the backpressure.

`MockTransport`: a waiting call that can complete is polled.  Nothing else is
fair: nobody has to receive, to disconnect or to drop an end.

## 4. Proofs

Proved with TLAPS, for every value of the constants under the named assumptions
of the modules (`CallsFinite`, `BoundsAreNaturals`, `ProbedAreTenants`;
`KeyIsNotEmpty`, `LengthLimitIsPositive`, `SignedAreMessages`,
`TextsFitTheirPrefix`, `WireIsUnforged`; `SseParserAssumption`,
`SseStreamAssumption`; `HttpTransportAssumption`; `MockAssumption`;
`InputsAreMessages`, `ToolListsAreTools`, `ProviderAssumption`).  Every safety
property that a passing run checks is a theorem, and so are the action
properties and the refinements; only liveness is left to TLC.

### Session host and verification

* `SessionHostProofs!TypeCorrect`, `TenantsAreIsolated`.  `TenantIsolation` is
  not inductive: that a request shows only its tenant's turns needs the sessions
  to hold only theirs, a pushed question to be of the session numbered in
  `bornIn`, and every live session to be the registration it is numbered by.
  `IInv` is the conjunction of `TypeOK`, `SessionsAreRegistered`, `TurnsAreOwn`
  and `RequestsAreOwn`; there is one lemma for each action that changes the map
  or the requests, and `QuietStep` for the others.
* What a context looks like after any interleaving (the module's second part).
  `StepEffects` says once and for all what each action does (`Adds`, `Drops`,
  `Asks`, `Responds`, `Snapshots`, ...), and the rest argues from effects.  `LInv`
  adds to `IInv` where a call's question is (`QuestionsAreKept`: in its session
  while that lives), which the order of answers (`AnswersFollow`), the counters
  (`CountersMatch`) and the requests (`RequestsAreTaken`) rest on.
  `CountersMatch` adds one element to two sets, the questions of the context and
  the calls with this `bornIn`.  `SharedIdsMeanOverlap` (`IdsAreShared`) is
  inductive only with the bounds in `WellNumbered`: a number is at most
  `processed`, and smaller once a question follows.  `SessionsLast` says what a
  step keeps of a session and gives `ContextGrows` and, with `ReportsAreOld`,
  `HealthAdvances`.  `HostImplementsLog` is the refinement of `TenantLog`.
* `VerifiedSessionProofs!EncodingTellsMessagesApart`: the canonical encoding is
  injective on messages whose texts fit their prefixes.  The first prefix of
  equal encodings gives the length of both first texts, so that the texts end at
  one place and are equal, and what follows them is equal; and so on to the last
  text.  No fact about the bytes of a text is used.
  `OnlySignedMessagesAreProcessed`: with an ideal MAC, what verify accepts was
  signed, by injectivity; `CallsAreVerified` adds to the host's `IInv` that a
  call that started has a signed message and that requests hold only messages
  of such calls.  `VerifiedSessionIsAHost`: the composition's behaviours are the
  host's, so that the host's theorems hold behind the verification
  (`VerifiedSessionKeepsItsPromises`).

### Parser and stream

The reference parser and the reference splitter fold over data.  They are
recursive functions (`Positions!InOrder`, `SumOf`), and what one more element
does to them is proved once in `ListLemmas`: `NatSetInduction` is induction in
the form of a set of numbers, `RecursionDefines` that a recursive function on
the numbers is what its equations say, and `InOrderDef`, `InOrderGrows`,
`ChosenGrows`, `SumOfAppend` and `LastBefore` follow.

* `SseParserProofs!TypeCorrect`, `AccumulationStaysBounded`.  The bound on what
  was delivered needs the bound on what is held; a rejected line changes
  nothing.
* `EventsAreAlwaysSegments`, `AcceptanceIsAlwaysByJoinedLength`,
  `FieldsAreAlwaysTheLatest`.  The reference looks at the whole log, so the proof
  first shows what one more entry does to it: nothing of the past changes
  (`SegmentsStay`, `CompletedGrows`, `SinceGrows`), and the segment in progress
  grows by an accepted line or starts anew (`SegmentsGrow`).  `LogInv` then says
  that the parser holds the segment in progress, its joined length and its
  latest fields (`HoldsSegment`); that what was delivered is right and in order
  (`EventsAre`); and that no completed segment was left out (`AllDelivered`).
  One lemma for each kind of line keeps it.
* `SseStreamProofs!LinesAreAlwaysSplit`, `LinesAreAlwaysBounded` (of the bytes
  read; the value fed is at most three times as long).  `SplitAppend`
  and `TextGrows` say what one more byte does to the lines of a text and to the
  rest after the last of them; `LinesInv` that `line_buf` is that rest while the
  stream runs, `prev_cr` that the last byte was a CR, and that the log holds the
  lines.  The first byte over the limit is the only way the two part.
* `ItemsAreAlwaysEvents`.  A stream leaves the parser's specification once: a
  rejection clears the parser without a reset in the log, so the next blank line
  ends a segment of the log that the parser does not hold.  `ItemsInv` says when
  this can show: until a line is rejected `LogInv` holds; after it there is
  nothing held, only the blank line that is always added can follow, and the
  events delivered before remain right (`EventsAre`).  Messages and items
  correspond position by position (`ItemsMatch`) until the receiver drops; a
  message that panics is the last, and the only one without an item
  (`PanicsAreLast`).
* `StreamAccumulationStaysBounded`: the parser's bound holds within a stream.

### Transports

* `HttpTransportProofs!TypesHold`, `ItemsAreReceivedInOrder`,
  `OldListenersWereStopped`, `AbortedListenersStop`, `SessionIsKept`,
  `TransportKeepsItsContract`.
  `IInv` is `TypeOK` with `Tasks` (which task states an aborted or a finished
  listener can have, and what it then carries), `Owners` (which connection the
  owner's operation is about, and who has the lock) and `Queues` (the equation
  of `ChannelIsFIFO`).  The refinement has one step lemma per action: a put is
  `PeerSends`, a `Recv` is `Receives`, the end of a task `PeerCloses`,
  `DisconnectBegin` is `Disconnects`; `RecvWithoutReceiver` is the exception the
  property names; all else is a stutter of every end.
* `RetriesAreExact`.  The property counts streams in `attempts`, the code in
  `retries`; `Counts` relates them: the counter covers the streams since the
  last productive one, that one included, or all of them.  `RunsGoOn` shows that
  one more failure keeps this when `attempts` drops its oldest entry, and
  `Reported` that the report is there exactly when the counter is exceeded.
* `MockTransportProofs!MockKeepsItsContract`.  `Lively` says what the contract's
  mapping needs: a connected end has its sender, an end with a sender was not
  dropped, and only a connected end has calls waiting.  There is one fact for
  each action and each side of the pair.

### Anthropic provider

* `AnthropicProofs!TypeCorrect`, `RolesAlwaysAlternate`,
  `VerdictIsAlwaysTheFirstError`.  The loop only appends a message after one of
  another role, or extends the last one's blocks; and it stops at the first
  message that is wrong, so that all before it were not.
* `NothingIsEverLost`, `MessagesAreAlwaysRuns`.  `RInv` says where the blocks of
  a message that was read are: in API messages of its own side, which grow with
  its position, and every API message has some; that a run is one API message
  follows with `RolesAlternate`.  That nothing is lost compares flattened
  sequences, and `FlattenAppend` says what one more message does to either.
* `ProviderTypeCorrect`, `ProviderRequestsAreRight`, `RepliesAreComplete`,
  `CompleteAlwaysFailsForAReason`, `CallsAlwaysSurviveReplay`.  `PInv` relates
  what `complete` collected to the blocks it took: the texts and the calls are
  the positions of their blocks in order (`Parsed`), all blocks but the last
  were sound (`AllButLastSound`), and a result is one of `Results`, each with
  what it says of the answer.  The theorems of the request hold within
  `complete`, because a step of the provider is one of the request or leaves it
  alone (`ProviderStepsAreRequestSteps`).

### Model-checked only

`QuestionsAreSettled`, `ForwardedIsReceived`, `ListenerConnectsOrStops`,
`EndIsReported`, `DisconnectConcludes` and `WaitersAreReleased`: liveness under
fairness is outside the prover's reach.

## 5. Plan

Done in the order of importance: the host (shared state and inference between
lock sections), the parser (a past memory bug, named in its comments), the
transport's task and its contract, the request builder and its answer, the
stream reader, the mock, verification and its composition with the host; then
the proofs, until each safety property had its theorem.

What would add most next:

1. That a stream's items are what `HttpTransport` takes as one step of its
   listener: a mapping from `SseStream` to the listener's part of it, with a
   step that puts an item for a step of the listener, and a proof of it.
2. The pipeline's other end: `send` and the envelope's wire form, once an
   application that drives transport, verification and host is in the repository.

## 6. Not modelled

HMAC and constant-time comparison (taken as ideal), serialisation to JSON,
logging, redaction and display, the HTTP client and TLS, the tokio runtime
beyond the fairness above, time (a backoff or a timeout may take any), usage
figures of a response.  Of the context, `clear_messages`, `push_context_message`
and the setters of tools, model and `max_tokens` have no caller in the host.  The library root holds module
declarations only.  The design documents' MCP bridge has no code, and the CI
workflows are no part of the program.
