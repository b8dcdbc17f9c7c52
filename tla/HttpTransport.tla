--------------------------- MODULE HttpTransport ----------------------------
(***************************************************************************)
(* HttpTransport (src/transport/http.rs): the owner's connect, disconnect, *)
(* send and recv beside the SSE listener task that connect spawns, which   *)
(* shares with them the session id and a bounded channel.  The server is   *)
(* the environment: it may answer, fail, serve events and end streams.     *)
(*                                                                         *)
(* An action is the code between two awaits that may be pending.  Aborting *)
(* a task takes effect at its next pending await, so an aborted listener   *)
(* may still take the steps of a poll that is already running on another   *)
(* thread, and old listeners may outlive the connection they belong to.    *)
(*                                                                         *)
(* Connections are numbered; each has its own listener and channel.  What  *)
(* an event holds, its signature and its JSON are told apart only as a     *)
(* valid envelope, one that is refused, one over the size limit, and one   *)
(* that makes the task panic; those of other types, silently skipped, are  *)
(* left out.                                                               *)
(*                                                                         *)
(* History variables: forwarded, delivered, closed, attempts and accepted. *)
(***************************************************************************)
EXTENDS Integers, Sequences, FiniteSets, SequencesExt, FiniteSetsExt

CONSTANTS
    MaxRetries,     \* reconnect_max_retries
    RecvBuffer,     \* recv_buffer: capacity of the channel
    Sids,           \* Mcp-Session-Id values the server hands out
    Sends,          \* concurrent calls of send
    MaxConnects,    \* bound: connections made
    MaxEvents       \* bound: events served in one connection

ASSUME HttpTransportAssumption ==
    /\ MaxRetries \in Nat
    /\ RecvBuffer \in Nat \ {0}     \* mpsc::channel panics at 0
    /\ MaxConnects \in Nat
    /\ MaxEvents \in Nat

VARIABLES
    connected,      \* the AtomicBool
    session_id,     \* Option: {} or {sid}
    rx,             \* whether the receiver of the current channel is kept
    op,             \* where a running disconnect stands
    sends,          \* where each send stands
    epoch,          \* number of the current connection, 0 at first
    task,           \* where each connection's listener stands
    aborted,        \* whether its handle was aborted
    retries,        \* its retry counter
    had_data,       \* whether its current stream forwarded an envelope
    new_sid,        \* the session id it is about to store
    pending,        \* what it is about to put into the channel, if anything
    chan,           \* its channel
    served,         \* events the server has served on it
    forwarded,      \* history: everything it was about to put in, in order
    delivered,      \* history: everything recv returned, in order
    closed,         \* history: recv has returned ConnectionClosed
    accepted,       \* history: envelopes the current stream put in
    attempts        \* history: for the last MaxRetries + 1 failed streams,
                    \* whether each put any in

ownerVars == <<connected, session_id, rx, op, sends, epoch>>
loopVars == <<aborted, retries, had_data, new_sid, accepted, attempts>>
pipeVars == <<pending, chan, served, forwarded, delivered, closed>>
vars == <<ownerVars, task, loopVars, pipeVars>>

Epochs == 1..MaxConnects

Item == [kind : {"message", "bad_event", "too_large", "gave_up"}, n : 0..MaxEvents]

\* Option<String>, for a session id
SidOptions == {{}} \cup {{sid} : sid \in Sids}

TaskStates == {"none", "attach", "get", "store", "stream", "forward", "reject",
               "flush", "giving_up", "backoff", "done"}
Ended == {"none", "done"}

\* The receiver of e's channel exists.
Open(e) == rx /\ e = epoch
Full(e) == Len(chan[e]) >= RecvBuffer

Set(f, e, v) == f' = [f EXCEPT ![e] = v]

\* HttpTransport::new
Init ==
    /\ connected = FALSE
    /\ session_id = {}
    /\ rx = FALSE
    /\ op = "idle"
    /\ sends = [s \in Sends |-> "idle"]
    /\ epoch = 0
    /\ task = [e \in Epochs |-> "none"]
    /\ aborted = [e \in Epochs |-> FALSE]
    /\ retries = [e \in Epochs |-> 0]
    /\ had_data = [e \in Epochs |-> FALSE]
    /\ new_sid = [e \in Epochs |-> {}]
    /\ pending = [e \in Epochs |-> <<>>]
    /\ chan = [e \in Epochs |-> <<>>]
    /\ served = [e \in Epochs |-> 0]
    /\ forwarded = [e \in Epochs |-> <<>>]
    /\ delivered = [e \in Epochs |-> <<>>]
    /\ closed = [e \in Epochs |-> FALSE]
    /\ accepted = [e \in Epochs |-> 0]
    /\ attempts = [e \in Epochs |-> <<>>]

-----------------------------------------------------------------------------
(* The owner.  connect and disconnect take &mut self: no send or recv is   *)
(* in flight during them.                                                  *)

NoSendInFlight == \A s \in Sends : sends[s] = "idle"

\* Nothing remembers an earlier disconnect.
Connect ==
    /\ op = "idle" /\ NoSendInFlight
    /\ ~connected
    /\ epoch < MaxConnects
    /\ epoch' = epoch + 1
    /\ Set(task, epoch + 1, "attach")
    /\ rx' = TRUE
    /\ connected' = TRUE
    /\ UNCHANGED <<session_id, op, sends, loopVars, pipeVars>>

\* Abort the listener, without waiting for it, and drop the receiver with
\* what it holds.
DisconnectBegin ==
    /\ op = "idle" /\ NoSendInFlight
    /\ connected
    /\ Set(aborted, epoch, TRUE)
    /\ rx' = FALSE
    /\ Set(chan, epoch, <<>>)
    /\ op' = "terminating"
    /\ UNCHANGED <<connected, session_id, sends, epoch, task, retries, had_data,
                   new_sid, accepted, attempts, pending, served, forwarded,
                   delivered, closed>>

DisconnectStep(from, to) ==
    /\ op = from
    /\ op' = to
    /\ UNCHANGED <<connected, session_id, rx, sends, epoch, task, loopVars, pipeVars>>

\* With a session id, its lock is held until the DELETE is answered or fails.
DisconnectDelete == session_id # {} /\ DisconnectStep("terminating", "deleting")
DisconnectNoSession == session_id = {} /\ DisconnectStep("terminating", "clearing")

\* Faulty DisconnectDeleted, for DisconnectConcludes.
DisconnectDeletedKeepingTheLock == DisconnectStep("deleting", "deleting")

DisconnectDeleted == DisconnectStep("deleting", "clearing")

DisconnectClear ==
    /\ op = "clearing"
    /\ session_id' = {}
    /\ connected' = FALSE
    /\ op' = "idle"
    /\ UNCHANGED <<rx, sends, epoch, task, loopVars, pipeVars>>

\* The owner drops the future of disconnect, at the session id's lock or at
\* the DELETE: the transport still counts as connected, without a receiver.
DisconnectDropped ==
    /\ op # "idle"
    /\ DisconnectStep(op, "idle")

\* send: POST with the session id known now.
SendPosts(s) ==
    /\ op = "idle" /\ connected
    /\ sends[s] = "idle"
    /\ Set(sends, s, "posted")
    /\ UNCHANGED <<connected, session_id, rx, op, epoch, task, loopVars, pipeVars>>

\* Faulty SendReturns, for SessionSurvivesUntilDisconnect.
SendReturnsForgetting(s) ==
    /\ sends[s] = "posted"
    /\ \/ session_id' = {}
       \/ \E sid \in Sids : session_id' = {sid}
    /\ Set(sends, s, "idle")
    /\ UNCHANGED <<connected, rx, op, epoch, task, loopVars, pipeVars>>

\* The POST fails, or its response is read: a session id in it is captured
\* before the status is looked at.  Or the future of send is dropped.
SendReturns(s) ==
    /\ sends[s] = "posted"
    /\ \/ UNCHANGED session_id
       \/ \E sid \in Sids : session_id' = {sid}
    /\ Set(sends, s, "idle")
    /\ UNCHANGED <<connected, rx, op, epoch, task, loopVars, pipeVars>>

\* Faulty Recv, for ChannelIsFIFO.
RecvLast ==
    /\ op = "idle" /\ connected /\ rx
    /\ chan[epoch] # <<>>
    /\ Set(delivered, epoch, Append(delivered[epoch], Last(chan[epoch])))
    /\ Set(chan, epoch, Front(chan[epoch]))
    /\ UNCHANGED <<ownerVars, task, loopVars, pending, served, forwarded, closed>>

\* recv: what the channel holds comes out in order; None, once it is empty
\* and the listener has ended, is ConnectionClosed.
Recv ==
    /\ op = "idle" /\ connected /\ rx
    /\ chan[epoch] # <<>>
    /\ Set(delivered, epoch, Append(delivered[epoch], Head(chan[epoch])))
    /\ Set(chan, epoch, Tail(chan[epoch]))
    /\ UNCHANGED <<ownerVars, task, loopVars, pending, served, forwarded, closed>>

\* Faulty RecvClosed, for ImplementsContract.
RecvClosedUnread ==
    /\ op = "idle" /\ connected /\ rx
    /\ task[epoch] = "done"
    /\ Set(closed, epoch, TRUE)
    /\ UNCHANGED <<ownerVars, task, loopVars, pending, chan, served, forwarded,
                   delivered>>

\* Faulty RecvClosed, for EndIsReported.
RecvClosedOnlyAfterGivingUp ==
    /\ op = "idle" /\ connected /\ rx
    /\ chan[epoch] = <<>>
    /\ task[epoch] = "done"
    /\ retries[epoch] > MaxRetries
    /\ Set(closed, epoch, TRUE)
    /\ UNCHANGED <<ownerVars, task, loopVars, pending, chan, served, forwarded,
                   delivered>>

RecvClosed ==
    /\ op = "idle" /\ connected /\ rx
    /\ chan[epoch] = <<>>
    /\ task[epoch] = "done"
    /\ Set(closed, epoch, TRUE)
    /\ UNCHANGED <<ownerVars, task, loopVars, pending, chan, served, forwarded,
                   delivered>>

\* After a dropped disconnect recv finds no receiver, and answers
\* ConnectionClosed whatever the listener is at and whatever was discarded.
RecvWithoutReceiver ==
    /\ op = "idle" /\ connected /\ ~rx
    /\ Set(closed, epoch, TRUE)
    /\ UNCHANGED <<ownerVars, task, loopVars, pending, chan, served, forwarded,
                   delivered>>

-----------------------------------------------------------------------------
(* The listener task: run_sse_stream in the loop of spawn_sse_listener.    *)

\* Faulty NextRetry, for ListenerConnectsOrStops.
NextRetryForgetting(e) == 1

\* The counter after a stream failed: 1 if it was productive.
NextRetry(e) == IF had_data[e] THEN 1 ELSE retries[e] + 1

Exhausted(e) == NextRetry(e) > MaxRetries

GaveUp == [kind |-> "gave_up", n |-> 0]

\* SseOutcome::Error, whose handling awaits only the backoff or the channel.
StreamFails(e) ==
    /\ Set(retries, e, NextRetry(e))
    /\ LET all == Append(attempts[e], accepted[e] > 0) IN
       Set(attempts, e, SubSeq(all, Max({1, Len(all) - MaxRetries}), Len(all)))
    /\ \/ /\ Exhausted(e)
          /\ Set(task, e, "giving_up")
          /\ Set(pending, e, <<GaveUp>>)
          /\ Set(forwarded, e, Append(forwarded[e], GaveUp))
       \/ /\ ~Exhausted(e)
          /\ Set(task, e, "backoff")
          /\ Set(pending, e, <<>>)
          /\ UNCHANGED forwarded

\* The GET carries the session id known now; sending it is a pending await,
\* which an aborted task does not survive.
Attach(e) ==
    /\ task[e] = "attach"
    /\ ~aborted[e]
    /\ op # "deleting"
    /\ Set(task, e, "get")
    /\ Set(had_data, e, FALSE)
    /\ Set(accepted, e, 0)
    /\ UNCHANGED <<ownerVars, aborted, retries, new_sid, attempts, pipeVars>>

\* No connection, a timeout, or a status that is not a success
GetFails(e) ==
    /\ task[e] = "get"
    /\ StreamFails(e)
    /\ UNCHANGED <<ownerVars, aborted, had_data, new_sid, accepted, chan, served,
                   delivered, closed>>

GetSucceeds(e) ==
    /\ task[e] = "get"
    /\ \/ Set(task, e, "stream") /\ UNCHANGED new_sid
       \/ \E sid \in Sids : Set(task, e, "store") /\ Set(new_sid, e, {sid})
    /\ UNCHANGED <<ownerVars, aborted, retries, had_data, accepted, attempts,
                   pipeVars>>

\* The session id of a successful response, once its lock is free
StoreSession(e) ==
    /\ task[e] = "store"
    /\ op # "deleting"
    /\ session_id' = new_sid[e]
    /\ Set(task, e, "stream")
    /\ UNCHANGED <<connected, rx, op, sends, epoch, loopVars, pipeVars>>

\* The server's next event completes; what it makes goes to the channel.
Served(e, kinds) ==
    /\ served[e] < MaxEvents
    /\ Set(served, e, served[e] + 1)
    /\ \E kind \in kinds :
          LET item == [kind |-> kind, n |-> served[e] + 1] IN
          /\ Set(pending, e, <<item>>)
          /\ Set(forwarded, e, Append(forwarded[e], item))
    /\ UNCHANGED <<ownerVars, loopVars, chan, delivered, closed>>

ServeEvent(e) ==
    /\ task[e] = "stream"
    /\ Set(task, e, "forward")
    /\ Served(e, {"message", "bad_event"})

ServeTooLarge(e) ==
    /\ task[e] = "stream"
    /\ Set(task, e, "reject")
    /\ Served(e, {"too_large"})

\* Verifying the event's signature panics, in the stream or when it is flushed:
\* the task ends, and the event makes no item.
ServePanic(e) ==
    /\ task[e] = "stream"
    /\ served[e] < MaxEvents
    /\ Set(task, e, "done")
    /\ Set(served, e, served[e] + 1)
    /\ UNCHANGED <<ownerVars, loopVars, pending, chan, forwarded, delivered, closed>>

\* The stream ends: an unfinished event is flushed as if it were complete.
EndWithEvent(e) ==
    /\ task[e] = "stream"
    /\ Set(task, e, "flush")
    /\ Served(e, {"message", "bad_event", "too_large"})

EndCleanly(e) ==
    /\ task[e] = "stream"
    /\ Set(task, e, "done")
    /\ UNCHANGED <<ownerVars, loopVars, pipeVars>>

\* A read error, the client's timeout, or a line over the limit
ReadFails(e) ==
    /\ task[e] = "stream"
    /\ StreamFails(e)
    /\ UNCHANGED <<ownerVars, aborted, had_data, new_sid, accepted, chan, served,
                   delivered, closed>>

\* Faulty Put, for ForwardedIsReceived.
PutOrDrop(e) ==
    /\ Open(e)
    /\ Set(chan, e, IF Full(e) THEN chan[e] ELSE Append(chan[e], pending[e][1]))

\* Faulty Put, for OnlyTheCurrentListenerFeeds: one channel for all connections.
PutIfAnyReceiver(e) ==
    /\ rx
    /\ ~Full(e)
    /\ Set(chan, e, Append(chan[e], pending[e][1]))

\* tx.send(..).await resolves once there is room, or fails once the receiver
\* is gone; then what it carried is dropped.
Put(e) ==
    /\ Open(e)
    /\ ~Full(e)
    /\ Set(chan, e, Append(chan[e], pending[e][1]))

Lost(e) ==
    /\ ~Open(e)
    /\ UNCHANGED chan

\* Faulty Forward, for GivesUpWhenExhausted.
ForwardAll(e) ==
    /\ task[e] = "forward"
    /\ Put(e)
    /\ Set(task, e, "stream")
    /\ Set(had_data, e, TRUE)
    /\ Set(accepted, e, IF pending[e][1].kind = "message"
                        THEN accepted[e] + 1 ELSE accepted[e])
    /\ Set(pending, e, <<>>)
    /\ UNCHANGED <<ownerVars, aborted, retries, new_sid, attempts, served,
                   forwarded, delivered, closed>>

\* Only a valid envelope that was put makes the stream productive.
Forward(e) ==
    /\ task[e] = "forward"
    /\ \/ /\ Put(e)
          /\ Set(task, e, "stream")
          /\ \/ /\ pending[e][1].kind = "message"
                /\ Set(had_data, e, TRUE)
                /\ Set(accepted, e, accepted[e] + 1)
             \/ /\ pending[e][1].kind # "message"
                /\ UNCHANGED <<had_data, accepted>>
       \/ /\ Lost(e)    \* SseOutcome::ChannelClosed
          /\ Set(task, e, "done")
          /\ UNCHANGED <<had_data, accepted>>
    /\ Set(pending, e, <<>>)
    /\ UNCHANGED <<ownerVars, aborted, retries, new_sid, attempts, served,
                   forwarded, delivered, closed>>

\* An event over the limit is reported, and then its stream has failed.
Reject(e) ==
    /\ task[e] = "reject"
    /\ Put(e) \/ Lost(e)
    /\ StreamFails(e)
    /\ UNCHANGED <<ownerVars, aborted, had_data, new_sid, accepted, served,
                   delivered, closed>>

\* The last thing the loop does, after a clean end or when retries ran out
LastWords(e, from) ==
    /\ task[e] = from
    /\ Put(e) \/ Lost(e)
    /\ Set(task, e, "done")
    /\ Set(pending, e, <<>>)
    /\ UNCHANGED <<ownerVars, loopVars, served, forwarded, delivered, closed>>

Flush(e) == LastWords(e, "flush")
\* Faulty GiveUp, for TypeOK.
GiveUpWithoutBreak(e) ==
    /\ task[e] = "giving_up"
    /\ Put(e) \/ Lost(e)
    /\ Set(task, e, "backoff")
    /\ Set(pending, e, <<>>)
    /\ UNCHANGED <<ownerVars, loopVars, served, forwarded, delivered, closed>>

GiveUp(e) == LastWords(e, "giving_up")

\* Faulty BackoffElapses, for AbortedListenersWindDown.
BackoffElapsesAnyway(e) ==
    /\ task[e] = "backoff"
    /\ Set(task, e, "attach")
    /\ UNCHANGED <<ownerVars, loopVars, pipeVars>>

\* The sleep is a pending await, which an aborted task does not survive.
BackoffElapses(e) ==
    /\ task[e] = "backoff"
    /\ ~aborted[e]
    /\ Set(task, e, "attach")
    /\ UNCHANGED <<ownerVars, loopVars, pipeVars>>

\* The abort reaches the task at a pending await.
Die(e) ==
    /\ aborted[e]
    /\ task[e] \notin Ended
    /\ Set(task, e, "done")
    /\ Set(pending, e, <<>>)
    /\ UNCHANGED <<ownerVars, loopVars, chan, served, forwarded, delivered, closed>>

-----------------------------------------------------------------------------
Disconnecting ==
    \/ DisconnectDelete \/ DisconnectNoSession \/ DisconnectDeleted
    \/ DisconnectClear

Owner ==
    \/ Connect
    \/ DisconnectBegin \/ Disconnecting \/ DisconnectDropped
    \/ \E s \in Sends : SendPosts(s) \/ SendReturns(s)
    \/ Recv \/ RecvClosed \/ RecvWithoutReceiver

\* Steps the runtime and the client's timeout see to
ListenerRuns(e) ==
    \/ Attach(e) \/ GetFails(e) \/ GetSucceeds(e) \/ StoreSession(e)
    \/ Forward(e) \/ Reject(e) \/ Flush(e) \/ GiveUp(e)
    \/ BackoffElapses(e) \/ Die(e)

\* Steps the server decides on
ServerActs(e) ==
    \/ ServeEvent(e) \/ ServeTooLarge(e) \/ ServePanic(e)
    \/ EndWithEvent(e) \/ EndCleanly(e) \/ ReadFails(e)

Next ==
    \/ Owner
    \/ \E e \in Epochs : ListenerRuns(e) \/ ServerActs(e)

Spec == Init /\ [][Next]_vars

\* The runtime runs tasks that can run, requests time out, a disconnect that
\* is not dropped is polled to its end, and the application keeps receiving.
Fairness ==
    /\ \A e \in Epochs : WF_vars(ListenerRuns(e))
    /\ WF_vars(Disconnecting)
    /\ WF_vars(Recv)
    /\ WF_vars(RecvClosed)

FairSpec == Spec /\ Fairness

-----------------------------------------------------------------------------
OwnerTypes ==
    /\ connected \in BOOLEAN
    /\ session_id \in SidOptions
    /\ rx \in BOOLEAN
    /\ op \in {"idle", "terminating", "deleting", "clearing"}
    /\ sends \in [Sends -> {"idle", "posted"}]
    /\ epoch \in 0..MaxConnects

ListenerTypes ==
    /\ task \in [Epochs -> TaskStates]
    /\ aborted \in [Epochs -> BOOLEAN]
    /\ retries \in [Epochs -> 0..(MaxRetries + 1)]
    /\ had_data \in [Epochs -> BOOLEAN]
    /\ new_sid \in [Epochs -> SidOptions]
    /\ accepted \in [Epochs -> Nat]
    /\ attempts \in [Epochs -> Seq(BOOLEAN)]

PipeTypes ==
    /\ pending \in [Epochs -> Seq(Item)]
    /\ chan \in [Epochs -> Seq(Item)]
    /\ served \in [Epochs -> 0..MaxEvents]
    /\ forwarded \in [Epochs -> Seq(Item)]
    /\ delivered \in [Epochs -> Seq(Item)]
    /\ closed \in [Epochs -> BOOLEAN]

TypeOK == OwnerTypes /\ ListenerTypes /\ PipeTypes

\* Every item is in one place: what recv returned, then what the channel
\* holds, then what the listener waits to put in, are the items of the
\* streams in the order served, across reconnections; after a disconnect a
\* prefix of it stays delivered.  And the channel never holds more than
\* recv_buffer items, however fast the server is: the listener stops reading
\* (transport/mod.rs:30-31, http.rs:424-428, 570).
ChannelIsFIFO ==
    \A e \in Epochs :
        /\ IF Open(e)
           THEN forwarded[e] = delivered[e] \o chan[e] \o pending[e]
           ELSE IsPrefix(delivered[e], forwarded[e])
        /\ Len(chan[e]) <= RecvBuffer
        /\ Len(pending[e]) <= 1

\* The listener gives up exactly when more streams failed than retries are
\* allowed, none of them productive but, at most, the first: a refused event
\* or an opened stream alone is not progress.  The report of it is the last
\* item of its connection, and comes once (http.rs:309-327, 343-349).
GivesUpWhenExhausted ==
    \A e \in Epochs :
        /\ (\E i \in DOMAIN forwarded[e] : forwarded[e][i] = GaveUp)
            <=> /\ Len(attempts[e]) = MaxRetries + 1
                /\ \A k \in 2..(MaxRetries + 1) : ~attempts[e][k]
        /\ \A i \in DOMAIN forwarded[e] :
             forwarded[e][i] = GaveUp =>
                 /\ i = Len(forwarded[e])
                 /\ task[e] \in {"giving_up", "done"}

\* Each connection keeps the transport's contract: it is live from connect
\* until its receiver is dropped, the peer is its listener, and recv returns
\* what that put into the channel, and then that it is closed.  One step does
\* not, recv after a dropped disconnect, which ClosedMeansDrained is about
\* (transport/mod.rs:30-31, 85-92, http.rs:419-431, 586-597, 667-680).
Life(e) == IF epoch < e THEN "new" ELSE IF Open(e) THEN "live" ELSE "dead"

Contract(e) == INSTANCE TransportContract WITH
    Envelopes <- Item, life <- Life(e), inbox <- chan[e],
    received <- delivered[e], ended <- task[e] = "done", told <- closed[e]

ImplementsContract ==
    /\ \A e \in Epochs : Contract(e)!ContractInit
    /\ [][\/ RecvWithoutReceiver
          \/ \A e \in Epochs :
                [Contract(e)!ContractNext]_(Contract(e)!contractVars)]_vars

\* Whatever old listeners still run beside a connection, at most one listener
\* has not been told to stop, the one whose channel the owner reads; and what
\* another still puts is kept nowhere, where the owner could meet it
\* (http.rs:424-426, 570-573, 586-597).
OnlyTheCurrentListenerFeeds ==
    \A e \in Epochs :
        /\ task[e] \notin Ended /\ ~aborted[e] => Open(e) /\ connected
        /\ ~(rx /\ e = epoch) => chan[e] = <<>>

\* How far a listener is from its end
Distance(state) ==
    CASE state = "get" -> 4
      [] state = "store" -> 3
      [] state = "stream" -> 2
      [] state \in {"forward", "reject", "flush"} -> 1
      [] state \in {"giving_up", "backoff", "attach"} -> 0
      [] OTHER -> -1

\* That abort comes late, and is not awaited, does not keep a listener going: it
\* finishes what it is at, each step brings it nearer to its end, and it opens
\* no other stream, also when the owner has connected again (http.rs:591-593).
AbortedListenersWindDown ==
    [][\A e \in Epochs : aborted[e] /\ task'[e] # task[e] =>
                             Distance(task'[e]) < Distance(task[e])]_vars

\* A session id, once captured, is given up only by a disconnect that runs
\* to its end, which also ends the connection (http.rs:386-390, 613-614).
SessionSurvivesUntilDisconnect ==
    [][session_id # {} /\ session_id' = {} =>
          op = "clearing" /\ connected /\ ~connected']_vars

\* With the application receiving, every item the listener has is received,
\* unless the owner disconnects (http.rs:424, 667-680).
ForwardedIsReceived ==
    \A e \in Epochs : \A n \in 1..(MaxEvents + 1) :
        Len(forwarded[e]) >= n ~> Len(delivered[e]) >= n \/ aborted[e]

\* A listener that wants a stream gets one, gives up, or is stopped: it does
\* not retry for ever (http.rs:295-333).
ListenerConnectsOrStops ==
    \A e \in Epochs :
        task[e] = "attach" ~> task[e] \in {"store", "stream", "done"}

\* The end of a listener, whatever ended it, is reported to a receiver that
\* keeps asking (http.rs:301-302, 672-679).
EndIsReported ==
    \A e \in Epochs : task[e] = "done" ~> closed[e] \/ aborted[e]

\* A disconnect ends though it awaits the server and shares a lock with the
\* listener, and the aborted listener ends too (http.rs:586-617).
DisconnectConcludes ==
    /\ op # "idle" ~> op = "idle"
    /\ \A e \in Epochs : aborted[e] ~> task[e] = "done"

-----------------------------------------------------------------------------
(* What the documentation says of the transport and the code does not keep.*)

\* "only once the buffer is empty *and* the peer has closed the connection does
\* this report [`TransportError::ConnectionClosed`]" (transport/mod.rs:88-89)
ClosedMeansDrained ==
    \A e \in Epochs :
        closed[e] => task[e] = "done" /\ delivered[e] = forwarded[e]

\* "Permanently tears down the connection and releases its resources."
\* (transport/mod.rs:60): no session id is left behind.
DisconnectForgetsTheSession == epoch > 0 /\ ~connected => session_id = {}
=============================================================================
