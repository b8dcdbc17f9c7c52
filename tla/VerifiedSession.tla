-------------------------- MODULE VerifiedSession ---------------------------
(***************************************************************************)
(* The lifecycle the session module names: verify, build context,          *)
(* complete, respond.  A caller takes a signed message off the wire, hands *)
(* it to the host's verify and, if that returns the message, to            *)
(* process_message; if not it may call record_verification_failure.  The   *)
(* caller is external: the code assumes it (session/mod.rs:43), and what   *)
(* it does is the least that assumption asks for.                          *)
(***************************************************************************)
EXTENDS SessionHost, MessageSigning

CONSTANTS
    Signed,     \* the messages the holder of Key signed
    Wire        \* the signed messages that may arrive, altered ones included

\* No text is 4 GiB long, and nobody but the holder of Key makes its MACs.
ASSUME SignedAreMessages == Signed \subseteq Message
ASSUME TextsFitTheirPrefix ==
    \A m \in Signed \cup {w.message : w \in Wire} : FitsPrefixes(m)
ASSUME WireIsUnforged ==
    \A w \in Wire :
        /\ w.message \in Message
        /\ w.signature = Mac(Key, w.message) =>
              \E m \in Signed : w.signature = Mac(Key, m)

VARIABLE verified   \* the message verify returned for each call, if any

vvars == <<vars, verified>>

VerifiedInit ==
    /\ Init
    /\ verified = [c \in Calls |-> {}]

\* host.verify returns Ok.  An error returns no message to process, and
\* changes nothing.
VerifyMessage(c, signed) ==
    /\ pc[c] = "idle"
    /\ verified[c] = {}
    /\ Verify(signed) = "Ok"
    /\ verified' = [verified EXCEPT ![c] = {signed.message}]
    /\ UNCHANGED vars

\* What a polled process_message does next, once it has a verified message.
VerifiedCallStep(c) ==
    /\ verified[c] # {}
    /\ CallStep(c)
    /\ UNCHANGED verified

HostStep ==
    /\ \/ \E c \in Calls : Cancel(c)
       \/ \E t \in Tenants : \/ \E config \in Configs : RegisterTenant(t, config)
                             \/ RemoveTenant(t)
       \/ \E t \in Probed : \/ RecordVerificationFailure(t)
                            \/ StartHealth(t)
                            \/ FinishHealth(t)
       \/ \E b \in BOOLEAN : SetConnected(b)
    /\ UNCHANGED verified

VerifiedNext ==
    \/ \E c \in Calls : \/ \E signed \in Wire : VerifyMessage(c, signed)
                        \/ VerifiedCallStep(c)
    \/ HostStep

VerifiedFairness ==
    \A c \in Calls : WF_vvars(pc[c] # "idle" /\ VerifiedCallStep(c))

VerifiedSpec ==
    VerifiedInit /\ [][VerifiedNext]_vvars /\ VerifiedFairness

-----------------------------------------------------------------------------
\* Every question in a context, and every question in a request that went to
\* the provider, stands for a message the holder of the key signed, field by
\* field as it was signed (session/mod.rs:41-43, verify/types.rs:25-38).
ContextIsAuthentic ==
    /\ \A t \in Live : \A i \in Questions(sessions[t]) :
          \E m \in Signed : verified[sessions[t].messages[i].call] = {m}
    /\ \A r \in sent : \A i \in DOMAIN r.messages :
          r.messages[i].role = "User" =>
              \E m \in Signed : verified[r.messages[i].call] = {m}
=============================================================================
