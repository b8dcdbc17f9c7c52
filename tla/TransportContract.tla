------------------------- MODULE TransportContract --------------------------
(***************************************************************************)
(* What MessageTransport (src/transport/mod.rs) promises the holder of one *)
(* end of a connection about what it receives: it is connected once, until *)
(* it disconnects; envelopes come in the order the peer sent them, none    *)
(* lost, doubled or made up; and ConnectionClosed comes only when the peer *)
(* has closed and all it sent was received, so that nothing follows it.    *)
(***************************************************************************)
EXTENDS Sequences

CONSTANT Envelopes

VARIABLES
    life,       \* "new", "live" or "dead"
    inbox,      \* sent by the peer and not received yet
    received,   \* what recv returned
    ended,      \* whether the peer has closed
    told        \* whether recv has returned ConnectionClosed

contractVars == <<life, inbox, received, ended, told>>

ContractInit ==
    /\ life = "new"
    /\ inbox = <<>>
    /\ received = <<>>
    /\ ended = FALSE
    /\ told = FALSE

Connects ==
    /\ life = "new"
    /\ life' = "live"
    /\ UNCHANGED <<inbox, received, ended, told>>

\* Disconnected or dropped, for good: what was not received by then never is.
Disconnects ==
    /\ life # "dead"
    /\ life' = "dead"
    /\ inbox' = <<>>
    /\ UNCHANGED <<received, ended, told>>

\* It may be the last thing the peer does.
PeerSends(envelope) ==
    /\ life # "dead"
    /\ ~ended
    /\ inbox' = Append(inbox, envelope)
    /\ ended' \in BOOLEAN
    /\ UNCHANGED <<life, received, told>>

PeerCloses ==
    /\ ~ended
    /\ ended' = TRUE
    /\ UNCHANGED <<life, inbox, received, told>>

Receives ==
    /\ life = "live"
    /\ inbox # <<>>
    /\ received' = Append(received, Head(inbox))
    /\ inbox' = Tail(inbox)
    /\ UNCHANGED <<life, ended, told>>

IsToldOfTheEnd ==
    /\ life = "live"
    /\ inbox = <<>>
    /\ ended
    /\ told' = TRUE
    /\ UNCHANGED <<life, inbox, received, ended>>

ContractNext ==
    \/ Connects \/ Disconnects
    \/ \E envelope \in Envelopes : PeerSends(envelope)
    \/ PeerCloses
    \/ Receives \/ IsToldOfTheEnd

Spec == ContractInit /\ [][ContractNext]_contractVars
=============================================================================
