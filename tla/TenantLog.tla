----------------------------- MODULE TenantLog ------------------------------
(***************************************************************************)
(* What a session host promises its tenants: one conversation log for each *)
(* registered tenant, in which a call's question is entered at most once,  *)
(* and its answer at most once, later, as the last entry, into whatever    *)
(* log the tenant has by then.  Nothing else is ever entered, moved or     *)
(* taken out, and a log vanishes only with its tenant.  How requests are   *)
(* built and who else is being answered meanwhile does not show.           *)
(***************************************************************************)
EXTENDS Sequences

CONSTANTS Tenants, Calls

VARIABLES
    logs,       \* the log of each registered tenant
    asker,      \* the tenant each call speaks for
    status      \* "new", "asked", "answered" or "failed"

logVars == <<logs, asker, status>>

Question(c) == [kind |-> "question", call |-> c]
Answer(c) == [kind |-> "answer", call |-> c]

Registered == DOMAIN logs

LogInit ==
    /\ logs = <<>>
    /\ asker \in [Calls -> Tenants]
    /\ status = [c \in Calls |-> "new"]

Open(t) ==
    /\ t \notin Registered
    /\ logs' = [u \in Registered \cup {t} |-> IF u = t THEN <<>> ELSE logs[u]]
    /\ UNCHANGED <<asker, status>>

Close(t) ==
    /\ t \in Registered
    /\ logs' = [u \in Registered \ {t} |-> logs[u]]
    /\ UNCHANGED <<asker, status>>

Enter(t, entry) == logs' = [logs EXCEPT ![t] = Append(@, entry)]

Ask(c) ==
    /\ status[c] = "new"
    /\ asker[c] \in Registered
    /\ Enter(asker[c], Question(c))
    /\ status' = [status EXCEPT ![c] = "asked"]
    /\ UNCHANGED asker

Conclude(c) ==
    /\ status[c] = "asked"
    /\ \/ /\ asker[c] \in Registered
          /\ Enter(asker[c], Answer(c))
       \/ /\ asker[c] \notin Registered
          /\ UNCHANGED logs
    /\ status' = [status EXCEPT ![c] = "answered"]
    /\ UNCHANGED asker

\* A call may fail before or after its question was entered, and leaves it.
Fail(c) ==
    /\ \/ status[c] = "asked"
       \/ status[c] = "new" /\ asker[c] \notin Registered
    /\ status' = [status EXCEPT ![c] = "failed"]
    /\ UNCHANGED <<logs, asker>>

LogNext ==
    \/ \E t \in Tenants : Open(t) \/ Close(t)
    \/ \E c \in Calls : Ask(c) \/ Conclude(c) \/ Fail(c)

LogSpec == LogInit /\ [][LogNext]_logVars
=============================================================================
