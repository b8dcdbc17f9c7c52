--------------------------- MODULE MockTransport ----------------------------
(***************************************************************************)
(* A pair of MockTransports (src/transport/mock.rs): two ends, each the    *)
(* sender of a bounded channel whose receiver the other end holds.         *)
(*                                                                         *)
(* Many sends and recvs of one end may wait at once; connect, disconnect   *)
(* and dropping the end need it exclusively, so that none is waiting then. *)
(* A waiting call may be dropped.  An envelope is told apart by its end    *)
(* and its seq.  received and told are history.                            *)
(***************************************************************************)
EXTENDS Naturals, Sequences, SequencesExt

CONSTANTS
    Capacity,       \* buffer_size
    MaxSends,       \* bound: calls of send at each end
    MaxRecvs        \* bound: calls of recv waiting at each end

ASSUME MockAssumption ==
    /\ Capacity \in Nat \ {0}       \* mpsc::channel panics at 0
    /\ MaxSends \in Nat /\ MaxRecvs \in Nat

VARIABLES
    connected,      \* the AtomicBool
    tx,             \* whether the sender is still there
    alive,          \* whether the transport has not been dropped
    chan,           \* what the end sent and its peer has not received
    seq,            \* calls of send made
    sending,        \* the envelopes of sends waiting for room, oldest first
    receiving,      \* calls of recv waiting
    received, told

vars == <<connected, tx, alive, chan, seq, sending, receiving, received, told>>

Ends == {"a", "b"}
Peer(e) == IF e = "a" THEN "b" ELSE "a"

Envelope == [from : Ends, seq : 1..MaxSends]

Set(f, e, v) == f' = [f EXCEPT ![e] = v]

\* pair_with_buffer
Init ==
    /\ connected = [e \in Ends |-> FALSE]
    /\ tx = [e \in Ends |-> TRUE]
    /\ alive = [e \in Ends |-> TRUE]
    /\ chan = [e \in Ends |-> <<>>]
    /\ seq = [e \in Ends |-> 0]
    /\ sending = [e \in Ends |-> <<>>]
    /\ receiving = [e \in Ends |-> 0]
    /\ received = [e \in Ends |-> <<>>]
    /\ told = [e \in Ends |-> FALSE]

-----------------------------------------------------------------------------
\* &mut self
Exclusive(e) == alive[e] /\ sending[e] = <<>> /\ receiving[e] = 0

\* Disconnected, it fails with ConnectionClosed.
Connect(e) ==
    /\ Exclusive(e)
    /\ ~connected[e]
    /\ tx[e]
    /\ Set(connected, e, TRUE)
    /\ UNCHANGED <<tx, alive, chan, seq, sending, receiving, received, told>>

\* Faulty Disconnect, for ImplementsContract.
DisconnectKeepingTx(e) ==
    /\ Exclusive(e)
    /\ connected[e]
    /\ Set(connected, e, FALSE)
    /\ UNCHANGED <<tx, alive, chan, seq, sending, receiving, received, told>>

\* The receiver is kept, with what it holds, until the transport is dropped.
Disconnect(e) ==
    /\ Exclusive(e)
    /\ connected[e]
    /\ Set(tx, e, FALSE)
    /\ Set(connected, e, FALSE)
    /\ UNCHANGED <<alive, chan, seq, sending, receiving, received, told>>

Drop(e) ==
    /\ Exclusive(e)
    /\ Set(alive, e, FALSE)
    /\ Set(connected, e, FALSE)
    /\ Set(tx, e, FALSE)
    /\ Set(chan, Peer(e), <<>>)
    /\ UNCHANGED <<seq, sending, receiving, received, told>>

\* send passes its checks; while connected there is a sender.
SendStarts(e) ==
    /\ alive[e] /\ connected[e]
    /\ seq[e] < MaxSends
    /\ Set(seq, e, seq[e] + 1)
    /\ Set(sending, e, Append(sending[e], [from |-> e, seq |-> seq[e] + 1]))
    /\ UNCHANGED <<connected, tx, alive, chan, receiving, received, told>>

Leaves(e, i) == Set(sending, e, RemoveAt(sending[e], i))

\* Room is given to the sends that waited longest; they use it in any order.
SendAccepted(e) ==
    /\ alive[Peer(e)]
    /\ \E i \in DOMAIN sending[e] :
         /\ i <= Capacity - Len(chan[e])
         /\ Set(chan, e, Append(chan[e], sending[e][i]))
         /\ Leaves(e, i)
    /\ UNCHANGED <<connected, tx, alive, seq, receiving, received, told>>

\* Faulty SendFails, for WaitersAreReleased.
SendFailsIfFull(e) ==
    /\ ~alive[Peer(e)]
    /\ Len(chan[e]) = Capacity
    /\ \E i \in DOMAIN sending[e] : Leaves(e, i)
    /\ UNCHANGED <<connected, tx, alive, chan, seq, receiving, received, told>>

\* The peer's receiver is gone: SendFailed.
SendFails(e) ==
    /\ ~alive[Peer(e)]
    /\ \E i \in DOMAIN sending[e] : Leaves(e, i)
    /\ UNCHANGED <<connected, tx, alive, chan, seq, receiving, received, told>>

SendDropped(e) ==
    /\ \E i \in DOMAIN sending[e] : Leaves(e, i)
    /\ UNCHANGED <<connected, tx, alive, chan, seq, receiving, received, told>>

RecvStarts(e) ==
    /\ alive[e] /\ connected[e]
    /\ receiving[e] < MaxRecvs
    /\ Set(receiving, e, receiving[e] + 1)
    /\ UNCHANGED <<connected, tx, alive, chan, seq, sending, received, told>>

\* One waiting recv has the lock and takes the oldest envelope.
RecvTakes(e) ==
    /\ receiving[e] > 0
    /\ chan[Peer(e)] # <<>>
    /\ Set(received, e, Append(received[e], Head(chan[Peer(e)])))
    /\ Set(chan, Peer(e), Tail(chan[Peer(e)]))
    /\ Set(receiving, e, receiving[e] - 1)
    /\ UNCHANGED <<connected, tx, alive, seq, sending, told>>

\* The peer has no sender any more, and nothing is left: ConnectionClosed.
RecvEnds(e) ==
    /\ receiving[e] > 0
    /\ chan[Peer(e)] = <<>>
    /\ ~tx[Peer(e)]
    /\ Set(told, e, TRUE)
    /\ Set(receiving, e, receiving[e] - 1)
    /\ UNCHANGED <<connected, tx, alive, chan, seq, sending, received>>

RecvDropped(e) ==
    /\ receiving[e] > 0
    /\ Set(receiving, e, receiving[e] - 1)
    /\ UNCHANGED <<connected, tx, alive, chan, seq, sending, received, told>>

\* What the runtime sees to
Resolves(e) == SendAccepted(e) \/ SendFails(e) \/ RecvTakes(e) \/ RecvEnds(e)

Next ==
    \E e \in Ends :
        \/ Connect(e) \/ Disconnect(e) \/ Drop(e)
        \/ SendStarts(e) \/ SendDropped(e)
        \/ RecvStarts(e) \/ RecvDropped(e)
        \/ Resolves(e)

Spec == Init /\ [][Next]_vars

\* A call that can complete is polled.
Fairness ==
    \A e \in Ends : /\ WF_vars(SendAccepted(e)) /\ WF_vars(SendFails(e))
                    /\ WF_vars(RecvTakes(e)) /\ WF_vars(RecvEnds(e))

FairSpec == Spec /\ Fairness

-----------------------------------------------------------------------------
(* Each end keeps the transport's contract, whatever both of them do at     *)
(* once: the other end is its peer.  A receiver kept by a disconnected end  *)
(* is out of its owner's reach.                                             *)

Life(e) == CASE ~alive[e] \/ ~tx[e] -> "dead"
             [] connected[e]        -> "live"
             [] OTHER               -> "new"

Contract(e) == INSTANCE TransportContract WITH
    Envelopes <- Envelope, life <- Life(e),
    inbox <- IF Life(e) = "dead" THEN <<>> ELSE chan[Peer(e)],
    received <- received[e], ended <- ~tx[Peer(e)], told <- told[e]

\* The order of envelopes, what is left of them when an end closes or is
\* dropped, when ConnectionClosed is reported, and that a disconnected end
\* never lives again (transport/mod.rs:43-92, mock.rs:72-113).
ImplementsContract ==
    /\ \A e \in Ends : Contract(e)!ContractInit
    /\ [][\A e \in Ends :
             [Contract(e)!ContractNext]_(Contract(e)!contractVars)]_vars

\* No call waits for ever for a peer that is gone: a recv ends when the peer
\* has disconnected and its envelopes are taken, a send when the peer has been
\* dropped; and a send goes on as soon as somebody receives
\* (transport/mod.rs:66-80, mock.rs:95-109).
WaitersAreReleased ==
    \A e \in Ends :
        /\ receiving[e] > 0 /\ ~tx[Peer(e)] ~> receiving[e] = 0 \/ told[e]
        /\ sending[e] # <<>> /\ ~alive[Peer(e)] ~> sending[e] = <<>>
        /\ sending[e] # <<>> /\ chan[e] = <<>>
             ~> sending[e] = <<>> \/ chan[e] # <<>>
=============================================================================
