---------------------------- MODULE SessionHost ----------------------------
(***************************************************************************)
(* InMemorySessionHost (src/session/host.rs): one map from tenants to      *)
(* sessions behind a tokio RwLock, and any number of process_message       *)
(* futures in flight.  No critical section of that lock contains an await, *)
(* so each is one action; between two of them a future holds nothing, and  *)
(* other futures run, the tenant may be removed or registered again, or    *)
(* the future may be dropped.                                              *)
(*                                                                         *)
(* A call of process_message is a member of Calls and its inbound message  *)
(* is told apart by the call alone.  Contents, timestamps and the clock    *)
(* are left out, and so is last_message_at_millis, written with the        *)
(* counter beside it.                                                      *)
(*                                                                         *)
(* History variables: registry, bornIn and report are written but never    *)
(* read by the code's own steps, and neither is the field gen of a session.*)
(***************************************************************************)
EXTENDS Integers, Sequences, FiniteSets, SequencesExt

CONSTANTS
    Tenants,            \* TenantId values
    Calls,              \* process_message calls, each made at most once
    Configs,            \* what a SessionConfig fixes: model, prompt, limits
    MaxRegistrations,   \* bound: successful register_tenant calls
    MaxFailures,        \* bound: verification failures counted per session
    Probed              \* the tenants whose health somebody asks for, and whose
                        \* verification failures, which only health shows, count

ASSUME CallsFinite == IsFiniteSet(Calls)
ASSUME BoundsAreNaturals == MaxRegistrations \in Nat /\ MaxFailures \in Nat
ASSUME ProbedAreTenants == Probed \subseteq Tenants

VARIABLES
    sessions,   \* the HashMap: a function whose domain is the live tenants
    connected,  \* the AtomicBool reported by health
    pc,         \* where each call stands, or how it ended
    tenant,     \* tenant_id argument of each call (once it was polled)
    reply,      \* content of the provider's response to each call
    sent,       \* the completion requests handed to the provider so far
    probe,      \* the pending health future, if any: it has read connected
    registry,   \* history: the successful registrations, in order
    bornIn,     \* history: the session a call pushed its message into
    report      \* history: the last health report about each tenant, if any

vars == <<sessions, connected, pc, tenant, reply, sent, probe,
          registry, bornIn, report>>
callVars == <<pc, tenant, reply, sent, bornIn>>
healthVars == <<connected, probe, report>>

Failed == {"not_found", "provider_error", "cancelled"}
Final == Failed \cup {"ok"}
InFlight == {"pushed", "waiting", "answered"}

\* ResponseContent; an assistant turn keeps the text, or the Debug rendering
\* of the tool calls as if it were text.
Replies == {"text", "tool_calls"}

\* ContextMessage: a user turn carries the caller's message, an assistant
\* turn the response of that call under the id resp-<id>.
Turn == [role : {"User", "Assistant"}, call : Calls, id : Nat,
         content : Replies]

\* ChatMessage: as a turn, and whether it has tool_calls blocks.
Chat == [role : {"User", "Assistant"}, call : Calls, content : Replies,
         tool_calls : BOOLEAN]

\* TenantSession, numbered by the registration that made it.
Session == [gen : Nat, id : Tenants, config : Configs,
            messages : Seq(Turn), processed : Nat, failures : Nat]

Request == [call : Calls, gen : Nat, config : Configs, messages : Seq(Chat)]

Registration == [tenant : Tenants, config : Configs]

\* SessionHealth without connected, which is the one in probe.
Report == [gen : Nat, processed : Nat, failures : Nat]

\* What SessionHost::tenants lists
Live == DOMAIN sessions

-----------------------------------------------------------------------------
(* The map and the context.                                                *)

\* HashMap::insert and HashMap::remove
Insert(map, t, s) ==
    [u \in DOMAIN map \cup {t} |-> IF u = t THEN s ELSE map[u]]
Without(map, t) == [u \in DOMAIN map \ {t} |-> map[u]]

\* Context::new; its configuration is the session's.
NewContext == <<>>

\* TenantSession::new with the id format!("session-{tenant}"), which is the
\* tenant's name under an injection.
NewSession(t, config) ==
    [gen |-> Len(registry) + 1, id |-> t, config |-> config,
     messages |-> NewContext, processed |-> 0, failures |-> 0]

\* Faulty Push, for ContextOnlyGrows.
PushInFront(s, turn) == [s EXCEPT !.messages = <<turn>> \o @]

\* Context::push
Push(s, turn) == [s EXCEPT !.messages = Append(@, turn)]

\* Faulty Counted, for CountersMatchContext and SharedIdsMeanOverlap.
Uncounted(s) == s

\* messages_processed += 1
Counted(s) == [s EXCEPT !.processed = @ + 1]

UserTurn(c) ==
    [role |-> "User", call |-> c, id |-> 0, content |-> "text"]

\* Faulty AssistantTurn, for TypeOK.
AssistantTurnNumberedFromZero(c, s) ==
    [role |-> "Assistant", call |-> c, id |-> s.processed - 1,
     content |-> reply[c]]

\* The response is stored under the number of messages processed by then.
AssistantTurn(c, s) ==
    [role |-> "Assistant", call |-> c, id |-> s.processed,
     content |-> reply[c]]

\* ChatMessage::new(role, content): the stored turn keeps no tool calls.
ToChat(turn) ==
    [role |-> turn.role, call |-> turn.call, content |-> turn.content,
     tool_calls |-> FALSE]

\* Faulty ToCompletionRequest, for RequestsAreSnapshots.
ToCompletionRequestLagging(c, s) ==
    [call |-> c, gen |-> s.gen, config |-> s.config,
     messages |-> [i \in 1..(Len(s.messages) - 1) |-> ToChat(s.messages[i])]]

\* Context::to_completion_request, taken under the read lock
ToCompletionRequest(c, s) ==
    [call |-> c, gen |-> s.gen, config |-> s.config,
     messages |-> [i \in DOMAIN s.messages |-> ToChat(s.messages[i])]]

\* TenantSession::health
Health(s) ==
    [gen |-> s.gen, processed |-> s.processed, failures |-> s.failures]

-----------------------------------------------------------------------------
Init ==
    /\ sessions = <<>>
    /\ connected = TRUE
    /\ pc = [c \in Calls |-> "idle"]
    /\ tenant \in [Calls -> Tenants]
    /\ reply = [c \in Calls |-> "text"]
    /\ sent = {}
    /\ probe = {}
    /\ registry = <<>>
    /\ bornIn = [c \in Calls |-> 0]
    /\ report = [t \in Tenants |-> {}]

-----------------------------------------------------------------------------
(* register_tenant, remove_tenant, record_verification_failure.  The error *)
(* returns (TenantAlreadyExists, TenantNotFound) change nothing.           *)

RegisterTenant(t, config) ==
    /\ Len(registry) < MaxRegistrations
    /\ t \notin Live
    /\ sessions' = Insert(sessions, t, NewSession(t, config))
    /\ registry' = Append(registry, [tenant |-> t, config |-> config])
    /\ UNCHANGED <<callVars, healthVars>>

RemoveTenant(t) ==
    /\ t \in Live
    /\ sessions' = Without(sessions, t)
    /\ UNCHANGED <<callVars, healthVars, registry>>

\* Faulty RecordVerificationFailure, for HealthNeverGoesBack.
RecordVerificationFailureRestarting(t) ==
    /\ t \in Live
    /\ sessions[t].failures < MaxFailures
    /\ sessions' = [sessions EXCEPT ![t].failures = @ + 1, ![t].processed = 0]
    /\ UNCHANGED <<callVars, healthVars, registry>>

RecordVerificationFailure(t) ==
    /\ t \in Live
    /\ sessions[t].failures < MaxFailures
    /\ sessions' = [sessions EXCEPT ![t].failures = @ + 1]
    /\ UNCHANGED <<callVars, healthVars, registry>>

-----------------------------------------------------------------------------
(* process_message: push, build, complete, respond.                        *)

\* Faulty PushMessage, for TenantIsolation.
PushMessageToAll(c) ==
    LET t == tenant[c] IN
    /\ pc[c] = "idle"
    /\ t \in Live
    /\ sessions' = [u \in Live |-> Push(Counted(sessions[u]), UserTurn(c))]
    /\ bornIn' = [bornIn EXCEPT ![c] = sessions[t].gen]
    /\ pc' = [pc EXCEPT ![c] = "pushed"]
    /\ UNCHANGED <<tenant, reply, sent, registry, healthVars>>

\* The first critical section, under the write lock.
PushMessage(c) ==
    LET t == tenant[c] IN
    /\ pc[c] = "idle"
    /\ \/ /\ t \notin Live
          /\ pc' = [pc EXCEPT ![c] = "not_found"]
          /\ UNCHANGED <<sessions, bornIn>>
       \/ /\ t \in Live
          /\ sessions' = [sessions EXCEPT
                            ![t] = Push(Counted(sessions[t]), UserTurn(c))]
          /\ bornIn' = [bornIn EXCEPT ![c] = sessions[t].gen]
          /\ pc' = [pc EXCEPT ![c] = "pushed"]
    /\ UNCHANGED <<tenant, reply, sent, registry, healthVars>>

\* The second, under the read lock: the snapshot goes to the provider.
BuildRequest(c) ==
    LET t == tenant[c] IN
    /\ pc[c] = "pushed"
    /\ \/ /\ t \notin Live
          /\ pc' = [pc EXCEPT ![c] = "not_found"]
          /\ UNCHANGED sent
       \/ /\ t \in Live
          /\ sent' = sent \cup {ToCompletionRequest(c, sessions[t])}
          /\ pc' = [pc EXCEPT ![c] = "waiting"]
    /\ UNCHANGED <<sessions, tenant, reply, bornIn, registry, healthVars>>

\* provider.complete returns a response.
ProviderReplies(c) ==
    /\ pc[c] = "waiting"
    /\ \E r \in Replies : reply' = [reply EXCEPT ![c] = r]
    /\ pc' = [pc EXCEPT ![c] = "answered"]
    /\ UNCHANGED <<sessions, tenant, sent, bornIn, registry, healthVars>>

\* Faulty ProviderFails, for AnswersFollowQuestions.
ProviderFailsAndRetries(c) ==
    /\ pc[c] = "waiting"
    /\ pc' = [pc EXCEPT ![c] = "idle"]
    /\ UNCHANGED <<sessions, tenant, reply, sent, bornIn, registry, healthVars>>

\* Faulty ProviderFails, for ImplementsTenantLog.
ProviderFailsAndRollsBack(c) ==
    LET t == tenant[c] IN
    /\ pc[c] = "waiting"
    /\ pc' = [pc EXCEPT ![c] = "provider_error"]
    /\ sessions' = [u \in Live |-> IF u = t /\ sessions[u].messages # <<>>
                                   THEN [sessions[u] EXCEPT !.messages = Front(@)]
                                   ELSE sessions[u]]
    /\ UNCHANGED <<tenant, reply, sent, bornIn, registry, healthVars>>

\* provider.complete returns an error, and ? leaves the user turn in place.
ProviderFails(c) ==
    /\ pc[c] = "waiting"
    /\ pc' = [pc EXCEPT ![c] = "provider_error"]
    /\ UNCHANGED <<sessions, tenant, reply, sent, bornIn, registry, healthVars>>

\* Faulty AppendResponse, for QuestionsAreSettled.
AppendResponseIfUnchanged(c) ==
    LET t == tenant[c]
        unchanged == /\ t \in Live
                     /\ \E r \in sent :
                          /\ r.call = c
                          /\ Len(r.messages) = Len(sessions[t].messages) IN
    /\ pc[c] = "answered"
    /\ sessions' = IF unchanged
                   THEN [sessions EXCEPT
                           ![t] = Push(sessions[t], AssistantTurn(c, sessions[t]))]
                   ELSE sessions
    /\ pc' = [pc EXCEPT ![c] = "ok"]
    /\ UNCHANGED <<tenant, reply, sent, bornIn, registry, healthVars>>

\* The last critical section, under the write lock: the session the tenant
\* has now, if any, receives the answer.
AppendResponse(c) ==
    LET t == tenant[c] IN
    /\ pc[c] = "answered"
    /\ \/ /\ t \in Live
          /\ sessions' = [sessions EXCEPT
                            ![t] = Push(sessions[t], AssistantTurn(c, sessions[t]))]
       \/ /\ t \notin Live
          /\ UNCHANGED sessions
    /\ pc' = [pc EXCEPT ![c] = "ok"]
    /\ UNCHANGED <<tenant, reply, sent, bornIn, registry, healthVars>>

\* The caller drops the future at one of its awaits.
Cancel(c) ==
    /\ pc[c] \in InFlight
    /\ pc' = [pc EXCEPT ![c] = "cancelled"]
    /\ UNCHANGED <<sessions, tenant, reply, sent, bornIn, registry, healthVars>>

-----------------------------------------------------------------------------
(* health reads connected when it is called and the session when its lock  *)
(* is granted.                                                             *)

SetConnected(b) ==
    /\ connected' = b
    /\ UNCHANGED <<sessions, callVars, registry, probe, report>>

StartHealth(t) ==
    /\ probe = {}
    /\ probe' = {[tenant |-> t, connected |-> connected]}
    /\ UNCHANGED <<sessions, callVars, registry, connected, report>>

FinishHealth(t) ==
    /\ \E p \in probe : p.tenant = t
    /\ \/ /\ t \notin Live
          /\ UNCHANGED report
       \/ /\ t \in Live
          /\ report' = [report EXCEPT ![t] = {Health(sessions[t])}]
    /\ probe' = {}
    /\ UNCHANGED <<sessions, callVars, registry, connected>>

-----------------------------------------------------------------------------
\* What a polled process_message future does next.
CallStep(c) ==
    \/ PushMessage(c)
    \/ BuildRequest(c)
    \/ ProviderReplies(c)
    \/ ProviderFails(c)
    \/ AppendResponse(c)

Next ==
    \/ \E c \in Calls : CallStep(c) \/ Cancel(c)
    \/ \E t \in Tenants : \/ \E config \in Configs : RegisterTenant(t, config)
                          \/ RemoveTenant(t)
    \/ \E t \in Probed : \/ RecordVerificationFailure(t)
                         \/ StartHealth(t)
                         \/ FinishHealth(t)
    \/ \E b \in BOOLEAN : SetConnected(b)

Spec == Init /\ [][Next]_vars

\* A started call is polled until it returns: tokio's RwLock grants its
\* waiters in order, and the client behind the provider has a timeout.
Fairness ==
    \A c \in Calls : WF_vars(pc[c] # "idle" /\ CallStep(c))

FairSpec == Spec /\ Fairness

-----------------------------------------------------------------------------
TypeOK ==
    /\ Live \subseteq Tenants
    /\ sessions \in [Live -> Session]
    /\ connected \in BOOLEAN
    /\ pc \in [Calls -> {"idle"} \cup InFlight \cup Final]
    /\ tenant \in [Calls -> Tenants]
    /\ reply \in [Calls -> Replies]
    /\ sent \subseteq Request
    /\ probe \subseteq [tenant : Tenants, connected : BOOLEAN]
    /\ registry \in Seq(Registration)
    /\ bornIn \in [Calls -> Nat]
    /\ report \in [Tenants -> SUBSET Report]

Questions(s) == {i \in DOMAIN s.messages : s.messages[i].role = "User"}
Answers(s) == {i \in DOMAIN s.messages : s.messages[i].role = "Assistant"}

\* The session a call pushed its message into is still there.
OwnSessionLives(c) ==
    tenant[c] \in Live /\ sessions[tenant[c]].gen = bornIn[c]

\* A session and a request hold turns of their own tenant's calls only, a
\* session its own callers' questions only, and a request the configuration
\* of the session whose context it carries (host.rs:61-66, mod.rs:38-39).
TenantIsolation ==
    /\ \A t \in Live :
         LET s == sessions[t] IN
         \A i \in DOMAIN s.messages :
             /\ tenant[s.messages[i].call] = t
             /\ i \in Questions(s) => bornIn[s.messages[i].call] = s.gen
    /\ \A r \in sent :
         /\ registry[r.gen].tenant = tenant[r.call]
         /\ registry[r.gen].config = r.config
         /\ \A i \in DOMAIN r.messages :
                tenant[r.messages[i].call] = tenant[r.call]

\* messages_processed counts the questions in the context, and each is one
\* call's: a failed, cancelled or concurrent call is counted once
\* (host.rs:111-113).
CountersMatchContext ==
    \A t \in Live :
        LET s == sessions[t] IN
        /\ s.processed = Cardinality(Questions(s))
        /\ s.processed = Cardinality({c \in Calls : bornIn[c] = s.gen})

\* However calls interleave, a context has at most one question and one
\* answer of a call, the answer later; only a call that returned Ok has an
\* answer there; and an answer without its question is of a call that asked
\* an earlier session of the tenant (host.rs:111, 126-149).
AnswersFollowQuestions ==
    \A t \in Live :
        LET s == sessions[t]
            m == s.messages IN
        /\ \A i, j \in DOMAIN m :
             m[i].call = m[j].call /\ m[i].role = m[j].role => i = j
        /\ \A j \in Answers(s) :
             /\ pc[m[j].call] = "ok"
             /\ \/ \E i \in Questions(s) : i < j /\ m[i].call = m[j].call
                \/ bornIn[m[j].call] < s.gen

\* A request is a prefix of the context of the session it was built from for
\* as long as that session lives, and holds its caller's message unless the
\* tenant was registered again in between (host.rs:93-99, 116-122).
RequestsAreSnapshots ==
    \A r \in sent :
        LET t == tenant[r.call] IN
        /\ t \in Live /\ sessions[t].gen = r.gen =>
             IsPrefix(r.messages, ToCompletionRequest(r.call, sessions[t]).messages)
        /\ \/ \E i \in DOMAIN r.messages :
                r.messages[i].role = "User" /\ r.messages[i].call = r.call
           \/ bornIn[r.call] < r.gen

\* Two answers of a session share a resp-N id only if the calls overlapped:
\* the later answer's question was asked before the earlier answer, or in an
\* earlier session (host.rs:137-140).
SharedIdsMeanOverlap ==
    \A t \in Live :
        LET s == sessions[t]
            m == s.messages IN
        \A i, j \in Answers(s) :
            i < j /\ m[i].id = m[j].id =>
                \A k \in Questions(s) : m[k].call = m[j].call => k < i

\* While a session lives, its context only grows at its end, by at most one
\* turn a step, and its counters never fall (context/types.rs:131-133,
\* host.rs:111-113).
ContextOnlyGrows ==
    [][\A t \in Live \cap DOMAIN sessions' :
          LET s == sessions[t]
              z == sessions'[t] IN
          s.gen = z.gen =>
              /\ IsPrefix(s.messages, z.messages)
              /\ Len(z.messages) <= Len(s.messages) + 1
              /\ s.processed <= z.processed
              /\ s.failures <= z.failures
              /\ s.config = z.config]_vars

\* Successive health reports about one session never go back, though each
\* reads connected and the session at different times (host.rs:229-243).
HealthNeverGoesBack ==
    [][\A t \in Tenants : \A old \in report[t] : \A new \in report'[t] :
          \/ old.gen < new.gen
          \/ /\ old.gen = new.gen
             /\ old.processed <= new.processed
             /\ old.failures <= new.failures]_vars

\* Every question is settled: its call fails or is dropped, or returns Ok
\* with the answer in the context it asked, if that session still lives
\* (host.rs:124-152).
QuestionsAreSettled ==
    \A c \in Calls :
        pc[c] = "pushed" ~>
            \/ pc[c] \in Failed
            \/ /\ pc[c] = "ok"
               /\ OwnSessionLives(c) =>
                    LET s == sessions[tenant[c]] IN
                    \E i \in Answers(s) : s.messages[i].call = c

-----------------------------------------------------------------------------
(* The host implements the tenants' logs: a turn is an entry, and building *)
(* a request or waiting for the provider does not show.                    *)

Entry(turn) == [kind |-> IF turn.role = "User" THEN "question" ELSE "answer",
                call |-> turn.call]
Entries(s) == [i \in DOMAIN s.messages |-> Entry(s.messages[i])]

Status(c) == CASE pc[c] = "idle" -> "new"
               [] pc[c] \in InFlight -> "asked"
               [] pc[c] = "ok" -> "answered"
               [] pc[c] \in Failed -> "failed"

Log == INSTANCE TenantLog
         WITH logs <- [t \in Live |-> Entries(sessions[t])],
              asker <- tenant,
              status <- [c \in Calls |-> Status(c)]

\* Requests, other calls and the gaps between the critical sections are
\* invisible in the conversation logs (session/mod.rs:34-47).
ImplementsTenantLog == Log!LogSpec

-----------------------------------------------------------------------------
(* What the documentation says of the host and its steps do not keep.      *)

\* "Each tenant gets an isolated session with its own context"
\* (session/mod.rs:38): a session holds answers to its own questions only.
AnswersStayInTheirSession ==
    \A t \in Live : \A i \in DOMAIN sessions[t].messages :
        bornIn[sessions[t].messages[i].call] = sessions[t].gen
=============================================================================
