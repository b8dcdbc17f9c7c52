-------------------------- MODULE AnthropicRequest --------------------------
(***************************************************************************)
(* build_api_request (src/provider/anthropic.rs): the loop that turns the  *)
(* ChatMessages of a CompletionRequest into the system parameter and the   *)
(* messages of an API request, merging neighbours of one API role, and     *)
(* its early returns.                                                      *)
(*                                                                         *)
(* The request is not fixed in advance: each turn of the loop takes any    *)
(* ChatMessage, and read is what it took so far.  A text is told apart by  *)
(* the position of the message it comes from.  A MessageContent::Text is   *)
(* its one text block, as into_blocks makes it.                            *)
(***************************************************************************)
EXTENDS Integers, Sequences, SequencesExt

Roles == {"System", "User", "Assistant", "Tool"}

\* Whether from_str::<Value> accepts the arguments of a ToolCall, or the
\* input_schema of a ToolDefinition.
Arguments == {"json", "malformed"}

\* Option: no element or one.
None == <<>>
Option(S) == {None} \cup [1..1 -> S]

\* ChatMessage; empty is content.is_empty(), has_id is tool_call_id.is_some().
ChatMessage == [role : Roles, empty : BOOLEAN, has_id : BOOLEAN,
                tool_calls : Option(Seq(Arguments))]

CONSTANTS
    Inputs,         \* the ChatMessages considered
    ToolLists,      \* the tools of a request considered, by input_schema
    MaxMessages     \* bound: ChatMessages of a request

ASSUME InputsAreMessages == \A m \in Inputs :
    /\ m = [role |-> m.role, empty |-> m.empty, has_id |-> m.has_id,
            tool_calls |-> m.tool_calls]
    /\ m.role \in Roles
    /\ m.empty \in BOOLEAN
    /\ m.has_id \in BOOLEAN
    /\ m.tool_calls = None \/ m.tool_calls[1] \in Seq(Arguments)

ASSUME ToolListsAreTools == ToolLists \subseteq Option(Seq(Arguments))

VARIABLES
    read,       \* the ChatMessages the loop has taken
    system,     \* positions of the texts joined into system, None if empty
    messages,   \* the ApiMessages so far
    tools,      \* the request's tools
    pc          \* "building", "ok", "sent" or the kind of ProviderError::Request

vars == <<read, system, messages, tools, pc>>

\* ContentBlock: the position of its message, and of its call in it.
Block == [kind : {"text", "tool_use", "tool_result"}, msg : Nat, call : Nat]
ApiRole == {"user", "assistant"}
ApiMessage == [role : ApiRole, blocks : Seq(Block)]

Errors == {"misplaced_calls", "bad_arguments", "no_tool_call_id",
           "no_messages", "bad_schema"}

-----------------------------------------------------------------------------
Text(i) == [kind |-> "text", msg |-> i, call |-> 0]
ToolUse(i, n) == [kind |-> "tool_use", msg |-> i, call |-> n]
ToolResult(i) == [kind |-> "tool_result", msg |-> i, call |-> 0]

\* Some(calls) if !calls.is_empty()
HasCalls(m) == m.tool_calls # None /\ m.tool_calls[1] # <<>>

\* The content of the assistant's message m at position i.
AssistantBlocks(m, i) ==
    IF HasCalls(m)
    THEN (IF m.empty THEN <<>> ELSE <<Text(i)>>)
         \o [n \in DOMAIN m.tool_calls[1] |-> ToolUse(i, n)]
    ELSE <<Text(i)>>

\* Faulty PushOrMerge, for RolesAlternate.
PushOnly(ms, role, blocks) ==
    Append(ms, [role |-> role, blocks |-> blocks])

\* Faulty PushOrMerge, for MessagesAreRuns.
MergeWhateverRole(ms, role, blocks) ==
    IF ms # <<>>
    THEN [ms EXCEPT ![Len(ms)].blocks = @ \o blocks]
    ELSE Append(ms, [role |-> role, blocks |-> blocks])

\* push_or_merge and into_blocks
PushOrMerge(ms, role, blocks) ==
    IF ms # <<>> /\ ms[Len(ms)].role = role
    THEN [ms EXCEPT ![Len(ms)].blocks = @ \o blocks]
    ELSE Append(ms, [role |-> role, blocks |-> blocks])

\* Some(tools) if map_tool_definition accepts each
ToolsAreMapped == tools # None => ~Contains(tools[1], "malformed")

-----------------------------------------------------------------------------
Init ==
    /\ read = <<>>
    /\ system = None
    /\ messages = <<>>
    /\ tools \in ToolLists
    /\ pc = "building"

\* The loop takes m.
Take(m) ==
    /\ pc = "building"
    /\ Len(read) < MaxMessages
    /\ read' = Append(read, m)
    /\ UNCHANGED tools

Position == Len(read) + 1

\* return Err(ProviderError::Request(..))
Fail(error) == pc' = error /\ UNCHANGED <<system, messages>>

\* The first test of the loop, before the match on the role.
Misplaced(m) == m.tool_calls # None /\ m.role # "Assistant"

TakeMisplacedCalls(m) == Take(m) /\ Misplaced(m) /\ Fail("misplaced_calls")

\* Faulty TakeSystem, for NothingIsLost.
TakeSystemReplacing(m) ==
    /\ Take(m)
    /\ ~Misplaced(m)
    /\ m.role = "System"
    /\ system' = <<Position>>
    /\ UNCHANGED <<messages, pc>>

TakeSystem(m) ==
    /\ Take(m)
    /\ ~Misplaced(m)
    /\ m.role = "System"
    /\ system' = Append(system, Position)
    /\ UNCHANGED <<messages, pc>>

TakeUser(m) ==
    /\ Take(m)
    /\ ~Misplaced(m)
    /\ m.role = "User"
    /\ messages' = PushOrMerge(messages, "user", <<Text(Position)>>)
    /\ UNCHANGED <<system, pc>>

TakeAssistant(m) ==
    /\ Take(m)
    /\ m.role = "Assistant"
    /\ IF HasCalls(m) /\ \E n \in DOMAIN m.tool_calls[1] :
                            m.tool_calls[1][n] = "malformed"
       THEN Fail("bad_arguments")
       ELSE /\ messages' = PushOrMerge(messages, "assistant",
                                       AssistantBlocks(m, Position))
            /\ UNCHANGED <<system, pc>>

\* Faulty TakeTool, for ProviderTypeOK.
TakeToolAsTool(m) ==
    /\ Take(m)
    /\ ~Misplaced(m)
    /\ m.role = "Tool"
    /\ m.has_id
    /\ messages' = PushOrMerge(messages, "tool", <<ToolResult(Position)>>)
    /\ UNCHANGED <<system, pc>>

\* Faulty TakeTool, for VerdictIsTheFirstError.
TakeToolWithoutId(m) ==
    /\ Take(m)
    /\ ~Misplaced(m)
    /\ m.role = "Tool"
    /\ messages' = PushOrMerge(messages, "user", <<ToolResult(Position)>>)
    /\ UNCHANGED <<system, pc>>

TakeTool(m) ==
    /\ Take(m)
    /\ ~Misplaced(m)
    /\ m.role = "Tool"
    /\ IF m.has_id
       THEN /\ messages' = PushOrMerge(messages, "user", <<ToolResult(Position)>>)
            /\ UNCHANGED <<system, pc>>
       ELSE Fail("no_tool_call_id")

\* After the loop: no messages, then the tools, then the request.
Finish ==
    /\ pc = "building"
    /\ pc' = IF messages = <<>> THEN "no_messages"
             ELSE IF ToolsAreMapped THEN "ok" ELSE "bad_schema"
    /\ UNCHANGED <<read, system, messages, tools>>

\* complete hands the request to the client; nothing but its model is used
\* again.
Send ==
    /\ pc = "ok"
    /\ pc' = "sent"
    /\ read' = <<>>
    /\ system' = None
    /\ messages' = <<>>
    /\ tools' = None

Next ==
    \/ \E m \in Inputs : \/ TakeMisplacedCalls(m)
                         \/ TakeSystem(m)
                         \/ TakeUser(m)
                         \/ TakeAssistant(m)
                         \/ TakeTool(m)
    \/ Finish
    \/ Send

Spec == Init /\ [][Next]_vars

-----------------------------------------------------------------------------
TypeOK ==
    /\ read \in Seq(Inputs)
    /\ system \in Seq(Nat)
    /\ messages \in Seq(ApiMessage)
    /\ tools \in Option(Seq(Arguments))
    /\ pc \in {"building", "ok", "sent"} \cup Errors

\* Neighbouring API messages have different roles, whatever the request: "the
\* API rejects them" (anthropic.rs:236, 339-341).
RolesAlternate ==
    \A k \in 1..(Len(messages) - 1) : messages[k].role # messages[k + 1].role

\* The messages that became blocks: all the loop took, but the one it failed at.
Kept == IF pc \in {"misplaced_calls", "bad_arguments", "no_tool_call_id"}
        THEN 1..(Len(read) - 1) ELSE DOMAIN read

Spoken == {i \in Kept : read[i].role # "System"}

Side(i) == IF read[i].role = "Assistant" THEN "assistant" ELSE "user"

\* All content blocks, in the order the API sees them.
AllBlocks == FlattenSeq([k \in DOMAIN messages |-> messages[k].blocks])

\* Merging loses, doubles and reorders nothing: the blocks are those of the
\* messages in the order of the request, a message's text before its calls
\* and these in their order, and every text, call and result is among them
\* except an empty text beside calls; the system parameter is the texts of the
\* system messages, wherever they stood, in their order
\* (anthropic.rs:249-309, 342-364).
NothingIsLost ==
    LET all == AllBlocks IN
    /\ \A k, l \in DOMAIN all : k < l =>
         \/ all[k].msg < all[l].msg
         \/ all[k].msg = all[l].msg /\ all[k].call < all[l].call
    /\ \A i \in Spoken :
         LET m == read[i] IN
         /\ m.role = "Tool" <=> Contains(all, ToolResult(i))
         /\ m.role # "Tool" /\ ~(m.empty /\ HasCalls(m)) <=> Contains(all, Text(i))
         /\ HasCalls(m) =>
              \A n \in DOMAIN m.tool_calls[1] : Contains(all, ToolUse(i, n))
    /\ \A k \in DOMAIN all : all[k].msg \in Spoken
    /\ \A k, l \in DOMAIN system : k < l => system[k] < system[l]
    /\ {system[k] : k \in DOMAIN system} = Kept \ Spoken

\* Two messages share an API message exactly if no message of the other side
\* stands between them: a system message does not separate its neighbours.
\* And each sits on its side: a tool's results are the user's, its calls the
\* assistant's (anthropic.rs:231-236, 342-356).
MessagesAreRuns ==
    LET Sits(i, k) == \E b \in DOMAIN messages[k].blocks :
                          messages[k].blocks[b].msg = i IN
    /\ \A i, j \in Spoken : i < j =>
        ((\E k \in DOMAIN messages : Sits(i, k) /\ Sits(j, k))
         <=> \A h \in Spoken \cap i..j : Side(h) = Side(i))
    /\ \A i \in Spoken : \A k \in DOMAIN messages :
           Sits(i, k) => messages[k].role = Side(i)

\* A request is accepted exactly if nothing in it is wrong, and an error names
\* the first thing wrong: the calls of a message before its role, a message
\* before those after it, the messages before the tools
\* (anthropic.rs:242-247, 273-279, 293-302, 313-327).
Wrong(m) ==
    \/ m.tool_calls # None /\ m.role # "Assistant"
    \/ HasCalls(m) /\ Contains(m.tool_calls[1], "malformed")
    \/ m.role = "Tool" /\ ~m.has_id

VerdictIsTheFirstError ==
    /\ \A i \in Kept : ~Wrong(read[i])
    /\ pc = "ok" => ToolsAreMapped /\ Spoken # {}
    /\ pc = "bad_schema" => ~ToolsAreMapped /\ Spoken # {}
    /\ pc = "no_messages" => Spoken = {}
    /\ pc \in {"misplaced_calls", "bad_arguments", "no_tool_call_id"} =>
         LET m == read[Len(read)] IN
         /\ Wrong(m)
         /\ pc = "misplaced_calls" <=> m.tool_calls # None /\ m.role # "Assistant"
         /\ pc = "bad_arguments" => m.role = "Assistant"
=============================================================================
