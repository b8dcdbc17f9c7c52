-------------------------- MODULE AnthropicProofs ---------------------------
(* Proofs about AnthropicRequest and AnthropicProvider, for every set of    *)
(* inputs and requests and answers of every length.                         *)
EXTENDS AnthropicProvider, ListLemmas

IInv == TypeOK /\ RolesAlternate

\* The content of an assistant's message is a sequence of blocks
\* (anthropic.rs:264-289).
LEMMA AssistantBlocksType ==
    ASSUME NEW m \in Inputs, NEW i \in Nat
    PROVE  AssistantBlocks(m, i) \in Seq(Block)
<1>1. <<Text(i)>> \in Seq(Block)
  BY DEF Text, Block
<1>2. ASSUME HasCalls(m)
      PROVE  [n \in DOMAIN m.tool_calls[1] |-> ToolUse(i, n)] \in Seq(Block)
  <2>1. m.tool_calls[1] \in Seq(Arguments)
    BY <1>2, InputsAreMessages DEF HasCalls
  <2>2. DOMAIN m.tool_calls[1] = 1..Len(m.tool_calls[1])
        /\ Len(m.tool_calls[1]) \in Nat
    BY <2>1
  <2>3. \A n \in DOMAIN m.tool_calls[1] : ToolUse(i, n) \in Block
    BY <2>2 DEF ToolUse, Block
  <2> QED
    BY <2>2, <2>3
<1>3. <<>> \in Seq(Block)
  OBVIOUS
<1> QED
  BY <1>1, <1>2, <1>3 DEF AssistantBlocks

\* push_or_merge keeps a sequence of messages whose roles alternate, and
\* leaves at least one (anthropic.rs:342-356).
LEMMA PushOrMergeAlternates ==
    ASSUME messages \in Seq(ApiMessage), RolesAlternate,
           NEW role \in ApiRole, NEW blocks \in Seq(Block),
           messages' = PushOrMerge(messages, role, blocks)
    PROVE  messages' \in Seq(ApiMessage) /\ RolesAlternate'
<1> DEFINE n == Len(messages)
<1>0. n \in Nat /\ DOMAIN messages = 1..n
  OBVIOUS
<1>1. CASE messages # <<>> /\ messages[n].role = role
  <2>1. n \in 1..n
    BY <1>0, <1>1
  <2>2. messages' = [messages EXCEPT ![n].blocks = @ \o blocks]
    BY <1>1 DEF PushOrMerge
  <2>3. messages[n] \in ApiMessage
    BY <2>1
  <2> DEFINE last == [messages[n] EXCEPT !.blocks = @ \o blocks]
  <2>4. last \in ApiMessage /\ last.role = messages[n].role
    <3>1. messages[n].blocks \o blocks \in Seq(Block)
      BY <2>3 DEF ApiMessage
    <3> QED
      BY <2>3, <3>1 DEF ApiMessage
  <2>5. messages' = [messages EXCEPT ![n] = last]
    BY <2>2
  <2> HIDE DEF last
  <2>6. messages' \in Seq(ApiMessage) /\ Len(messages') = n
    BY <2>1, <2>4, <2>5
  <2>7. \A k \in 1..n : messages'[k].role = messages[k].role
    BY <2>1, <2>4, <2>5
  <2>8. ASSUME NEW k \in 1..(Len(messages') - 1)
        PROVE  messages'[k].role # messages'[k + 1].role
    <3>1. k \in 1..(n - 1) /\ k \in 1..n /\ k + 1 \in 1..n
      BY <1>0, <2>6
    <3> QED
      BY <2>7, <3>1 DEF RolesAlternate
  <2> QED
    BY <2>6, <2>8 DEF RolesAlternate
<1>2. CASE ~(messages # <<>> /\ messages[n].role = role)
  <2> DEFINE new == [role |-> role, blocks |-> blocks]
  <2>1. new \in ApiMessage /\ new.role = role
    BY DEF ApiMessage
  <2>2. messages' = Append(messages, new)
    BY <1>2 DEF PushOrMerge
  <2> HIDE DEF new
  <2>3. messages' \in Seq(ApiMessage) /\ Len(messages') = n + 1
    BY <2>1, <2>2
  <2>4. \A k \in 1..n : messages'[k] = messages[k]
    BY <2>2
  <2>5. messages'[n + 1] = new
    BY <2>2
  <2>6. ASSUME NEW k \in 1..n
        PROVE  messages'[k].role # messages'[k + 1].role
    <3>1. CASE k < n
      <4>1. k \in 1..(n - 1) /\ k + 1 \in 1..n
        BY <1>0, <3>1
      <4> QED
        BY <2>4, <4>1 DEF RolesAlternate
    <3>2. CASE k = n
      BY <1>0, <1>2, <2>1, <2>4, <2>5, <3>2
    <3>3. k < n \/ k = n
      <4> HIDE DEF n
      <4>1. n \in Nat
        BY <1>0
      <4> QED
        BY <4>1
    <3> QED
      BY <3>1, <3>2, <3>3
  <2>7. 1..(Len(messages') - 1) = 1..n
    BY <1>0, <2>3
  <2> QED
    BY <2>3, <2>6, <2>7 DEF RolesAlternate
<1> QED
  BY <1>1, <1>2

\* An empty request satisfies the invariant (anthropic.rs:238-239).
LEMMA IInvInit == Init => IInv
<1>1. Init => TypeOK
  BY ToolListsAreTools DEF Init, TypeOK, None
<1>2. Init => RolesAlternate
  BY DEF Init, RolesAlternate
<1> QED
  BY <1>1, <1>2 DEF IInv

\* Every turn of the loop, and what follows it, keeps the invariant: one case
\* for each action.
LEMMA IInvNext == IInv /\ [Next]_vars => IInv'
<1> SUFFICES ASSUME IInv, [Next]_vars PROVE IInv'
  OBVIOUS
<1> USE DEF IInv
<1>0. Len(read) \in Nat /\ Position \in Nat
  BY DEF TypeOK, Position
<1>1. ASSUME NEW m \in Inputs, Take(m)
      PROVE  read' \in Seq(Inputs) /\ tools' \in Option(Seq(Arguments))
  BY <1>1 DEF TypeOK, Take
<1>2. ASSUME NEW error \in Errors, Fail(error)
      PROVE  /\ system' \in Seq(Nat) /\ messages' \in Seq(ApiMessage)
             /\ pc' \in {"building", "ok", "sent"} \cup Errors
             /\ RolesAlternate'
  BY <1>2 DEF TypeOK, Fail, RolesAlternate
<1>3. ASSUME NEW m \in Inputs, TakeMisplacedCalls(m) PROVE IInv'
  BY <1>1, <1>2, <1>3 DEF TakeMisplacedCalls, Errors, TypeOK
<1>4. ASSUME NEW m \in Inputs, TakeSystem(m) PROVE IInv'
  <2>1. system' \in Seq(Nat)
    BY <1>0, <1>4 DEF TakeSystem, TypeOK
  <2> QED
    BY <1>1, <1>4, <2>1 DEF TakeSystem, TypeOK, RolesAlternate
<1>5. ASSUME NEW role \in ApiRole, NEW blocks \in Seq(Block),
             messages' = PushOrMerge(messages, role, blocks),
             UNCHANGED <<system, pc>>
      PROVE  /\ system' \in Seq(Nat) /\ messages' \in Seq(ApiMessage)
             /\ pc' \in {"building", "ok", "sent"} \cup Errors
             /\ RolesAlternate'
  BY <1>5, PushOrMergeAlternates DEF TypeOK
<1>6. ASSUME NEW m \in Inputs, TakeUser(m) PROVE IInv'
  <2>1. <<Text(Position)>> \in Seq(Block)
    BY <1>0 DEF Text, Block
  <2> QED
    BY <1>1, <1>5, <1>6, <2>1 DEF TakeUser, TypeOK, ApiRole
<1>7. ASSUME NEW m \in Inputs, TakeAssistant(m) PROVE IInv'
  <2>1. AssistantBlocks(m, Position) \in Seq(Block)
    BY <1>0, AssistantBlocksType
  <2>2. CASE Fail("bad_arguments")
    BY <1>1, <1>2, <1>7, <2>2 DEF TakeAssistant, TypeOK, Errors
  <2>3. CASE /\ messages' = PushOrMerge(messages, "assistant",
                                        AssistantBlocks(m, Position))
             /\ UNCHANGED <<system, pc>>
    BY <1>1, <1>5, <1>7, <2>1, <2>3 DEF TakeAssistant, TypeOK, ApiRole
  <2> QED
    BY <1>7, <2>2, <2>3 DEF TakeAssistant
<1>8. ASSUME NEW m \in Inputs, TakeTool(m) PROVE IInv'
  <2>1. <<ToolResult(Position)>> \in Seq(Block)
    BY <1>0 DEF ToolResult, Block
  <2>2. CASE m.has_id
    BY <1>1, <1>5, <1>8, <2>1, <2>2 DEF TakeTool, TypeOK, ApiRole
  <2>3. CASE ~m.has_id
    BY <1>1, <1>2, <1>8, <2>3 DEF TakeTool, TypeOK, Errors
  <2> QED
    BY <2>2, <2>3
<1>9. CASE Finish
  BY <1>9 DEF Finish, TypeOK, Errors, RolesAlternate
<1>10. CASE Send
  <2>1. read' \in Seq(Inputs) /\ system' \in Seq(Nat)
        /\ messages' \in Seq(ApiMessage) /\ Len(messages') = 0
    BY <1>10 DEF Send, None
  <2>2. tools' \in Option(Seq(Arguments))
    BY <1>10 DEF Send, Option
  <2>3. pc' \in {"building", "ok", "sent"} \cup Errors
    BY <1>10 DEF Send
  <2>4. RolesAlternate'
    BY <2>1 DEF RolesAlternate
  <2> QED
    BY <2>1, <2>2, <2>3, <2>4 DEF TypeOK
<1>11. CASE UNCHANGED vars
  BY <1>11 DEF vars, TypeOK, RolesAlternate
<1> QED
  BY <1>3, <1>4, <1>6, <1>7, <1>8, <1>9, <1>10, <1>11 DEF Next

\* A request under construction keeps its type, for every set of inputs and
\* every length (anthropic.rs:237-337).
THEOREM TypeCorrect == Spec => []TypeOK
<1>1. IInv => TypeOK
  BY DEF IInv
<1> QED
  BY IInvInit, IInvNext, <1>1, PTL DEF Spec

\* Whatever the messages of a request, no two neighbours of the API request
\* have one role, at any turn of the loop (anthropic.rs:236, 339-341).
THEOREM RolesAlwaysAlternate == Spec => []RolesAlternate
<1>1. IInv => RolesAlternate
  BY DEF IInv
<1> QED
  BY IInvInit, IInvNext, <1>1, PTL DEF Spec

-----------------------------------------------------------------------------
(* The verdict.  An error is the first one because the loop stops at it: so   *)
(* far nothing was wrong, and while the loop runs there are messages exactly *)
(* if one of those taken was not a system message.                          *)

VInv ==
    /\ VerdictIsTheFirstError
    /\ pc = "building" => (messages = <<>> <=> Spoken = {})

\* push_or_merge leaves a message (anthropic.rs:342-356).
LEMMA PushOrMergeLeavesOne ==
    ASSUME messages \in Seq(ApiMessage), NEW role, NEW blocks
    PROVE  PushOrMerge(messages, role, blocks) # <<>>
<1>1. CASE messages # <<>> /\ messages[Len(messages)].role = role
  <2>1. Len(messages) \in Nat \ {0} /\ DOMAIN messages = 1..Len(messages)
    BY <1>1
  <2>2. DOMAIN PushOrMerge(messages, role, blocks) = 1..Len(messages)
    BY <1>1, <2>1 DEF PushOrMerge
  <2>3. 1 \in DOMAIN PushOrMerge(messages, role, blocks)
    BY <2>1, <2>2
  <2> QED
    BY <2>3
<1>2. CASE ~(messages # <<>> /\ messages[Len(messages)].role = role)
  <2> DEFINE new == [role |-> role, blocks |-> blocks]
  <2>1. PushOrMerge(messages, role, blocks) = Append(messages, new)
    BY <1>2 DEF PushOrMerge
  <2> QED
    BY <2>1
<1> QED
  BY <1>1, <1>2

\* A turn that fails leaves what it took before; the message it took is wrong
\* (anthropic.rs:242-247, 273-279, 293-302).
LEMMA FailingTurn ==
    ASSUME TypeOK, VInv, NEW m \in Inputs, Take(m), Wrong(m),
           NEW error \in {"misplaced_calls", "bad_arguments", "no_tool_call_id"},
           Fail(error),
           error = "misplaced_calls" <=> m.tool_calls # None /\ m.role # "Assistant",
           error = "bad_arguments" => m.role = "Assistant"
    PROVE  VInv'
<1>1. read' = Append(read, m) /\ pc = "building" /\ pc' = error
  BY DEF Take, Fail
<1>2. read \in Seq(Inputs) /\ Len(read) \in Nat
  BY DEF TypeOK
<1>3. Len(read') = Len(read) + 1 /\ read'[Len(read')] = m
  BY <1>1, <1>2
<1>4. \A i \in 1..Len(read) : read'[i] = read[i]
  BY <1>1, <1>2
<1>5. Kept' = 1..Len(read)
  BY <1>1, <1>2, <1>3 DEF Kept
<1>6. Kept = 1..Len(read)
  BY <1>1, <1>2 DEF Kept
<1>7. \A i \in Kept' : ~Wrong(read'[i])
  BY <1>4, <1>5, <1>6 DEF VInv, VerdictIsTheFirstError
<1> QED
  BY <1>1, <1>3, <1>7 DEF VInv, VerdictIsTheFirstError

\* A turn that goes on takes a message that is not wrong, and adds a message
\* unless it is a system message (anthropic.rs:249-309).
LEMMA GoodTurn ==
    ASSUME TypeOK, VInv, NEW m \in Inputs, Take(m), ~Wrong(m), pc' = pc,
           IF m.role = "System" THEN messages' = messages ELSE messages' # <<>>
    PROVE  VInv'
<1>1. read' = Append(read, m) /\ pc = "building" /\ pc' = "building"
  BY DEF Take
<1>2. read \in Seq(Inputs) /\ Len(read) \in Nat
  BY DEF TypeOK
<1>3. Len(read') = Len(read) + 1 /\ read'[Len(read) + 1] = m
  BY <1>1, <1>2
<1>4. \A i \in 1..Len(read) : read'[i] = read[i]
  BY <1>1, <1>2
<1>5. Kept' = 1..(Len(read) + 1)
  <2>1. read' \in Seq(Inputs)
    BY <1>1, <1>2
  <2> QED
    BY <1>1, <1>3, <2>1 DEF Kept
<1>6. Kept = 1..Len(read)
  BY <1>1, <1>2 DEF Kept
<1>7. Kept' = Kept \cup {Len(read) + 1}
  BY <1>2, <1>5, <1>6
<1>8. \A i \in Kept' : ~Wrong(read'[i])
  BY <1>3, <1>4, <1>6, <1>7 DEF VInv, VerdictIsTheFirstError
<1>9. messages' = <<>> <=> Spoken' = {}
  <2>1. \A i \in Kept : read'[i].role = read[i].role
    BY <1>4, <1>6
  <2>2. Spoken' = {} <=> Spoken = {} /\ m.role = "System"
    BY <1>3, <1>7, <2>1 DEF Spoken
  <2> QED
    BY <1>1, <2>2 DEF VInv
<1> QED
  BY <1>1, <1>8, <1>9 DEF VInv, VerdictIsTheFirstError

LEMMA VInvNext == IInv /\ VInv /\ [Next]_vars => VInv'
<1> SUFFICES ASSUME TypeOK, VInv, [Next]_vars PROVE VInv'
  BY DEF IInv
<1>1. ASSUME NEW m \in Inputs, TakeMisplacedCalls(m) PROVE VInv'
  BY <1>1, FailingTurn DEF TakeMisplacedCalls, Misplaced, Wrong
<1>2. ASSUME NEW m \in Inputs, TakeSystem(m) PROVE VInv'
  <2>1. ~Wrong(m)
    BY <1>2 DEF TakeSystem, Misplaced, Wrong, HasCalls
  <2> QED
    BY <1>2, <2>1, GoodTurn DEF TakeSystem
<1>3. ASSUME NEW m \in Inputs, TakeUser(m) PROVE VInv'
  <2>1. ~Wrong(m)
    BY <1>3 DEF TakeUser, Misplaced, Wrong, HasCalls
  <2>2. messages' # <<>>
    BY <1>3, PushOrMergeLeavesOne DEF TakeUser, TypeOK
  <2> QED
    BY <1>3, <2>1, <2>2, GoodTurn DEF TakeUser
<1>4. ASSUME NEW m \in Inputs, TakeAssistant(m) PROVE VInv'
  <2> DEFINE Bad == HasCalls(m) /\ \E n \in DOMAIN m.tool_calls[1] :
                                      m.tool_calls[1][n] = "malformed"
  <2>1. Wrong(m) <=> Bad
    <3>1. m.role = "Assistant"
      BY <1>4 DEF TakeAssistant
    <3>2. ASSUME HasCalls(m)
          PROVE  Contains(m.tool_calls[1], "malformed")
                 <=> \E n \in DOMAIN m.tool_calls[1] :
                        m.tool_calls[1][n] = "malformed"
      <4>1. m.tool_calls[1] \in Seq(Arguments)
        BY <3>2, InputsAreMessages DEF HasCalls
      <4>2. DOMAIN m.tool_calls[1] = 1..Len(m.tool_calls[1])
        BY <4>1
      <4> QED
        BY <4>2 DEF Contains
    <3> QED
      BY <3>1, <3>2 DEF Wrong
  <2>2. CASE Bad
    <3>1. Take(m) /\ m.role = "Assistant" /\ Fail("bad_arguments")
      BY <1>4, <2>2 DEF TakeAssistant
    <3> QED
      BY <2>1, <2>2, <3>1, FailingTurn
  <2>3. CASE ~Bad
    <3>1. /\ Take(m) /\ m.role = "Assistant" /\ pc' = pc
          /\ messages' = PushOrMerge(messages, "assistant",
                                     AssistantBlocks(m, Position))
      BY <1>4, <2>3 DEF TakeAssistant
    <3>2. messages' # <<>>
      BY <3>1, PushOrMergeLeavesOne DEF TypeOK
    <3> QED
      BY <2>1, <2>3, <3>1, <3>2, GoodTurn
  <2> QED
    BY <2>2, <2>3
<1>5. ASSUME NEW m \in Inputs, TakeTool(m) PROVE VInv'
  <2>1. m.role = "Tool" /\ m.tool_calls = None /\ Take(m) /\ ~HasCalls(m)
    BY <1>5 DEF TakeTool, Misplaced, HasCalls
  <2>2. CASE m.has_id
    <3>1. messages' # <<>> /\ pc' = pc
      BY <1>5, <2>2, PushOrMergeLeavesOne DEF TakeTool, TypeOK
    <3> QED
      BY <2>1, <2>2, <3>1, GoodTurn DEF Wrong
  <2>3. CASE ~m.has_id
    <3>1. Fail("no_tool_call_id")
      BY <1>5, <2>3 DEF TakeTool
    <3> QED
      BY <2>1, <2>3, <3>1, FailingTurn DEF Wrong
  <2> QED
    BY <2>2, <2>3
<1>6. CASE Finish
  <2>1. Kept' = Kept /\ Spoken' = Spoken /\ read' = read /\ tools' = tools
    BY <1>6 DEF Finish, Kept, Spoken
  <2> QED
    BY <1>6, <2>1 DEF Finish, VInv, VerdictIsTheFirstError, ToolsAreMapped
<1>7. CASE Send
  <2>1. Kept' = {}
    BY <1>7 DEF Send, Kept
  <2> QED
    BY <1>7, <2>1 DEF Send, VInv, VerdictIsTheFirstError
<1>8. CASE UNCHANGED vars
  BY <1>8 DEF vars, VInv, VerdictIsTheFirstError, Kept, Spoken, ToolsAreMapped
<1> QED
  BY <1>1, <1>2, <1>3, <1>4, <1>5, <1>6, <1>7, <1>8 DEF Next

\* Whatever a request holds, it is accepted exactly if nothing in it is wrong,
\* and refused for the first thing that is (anthropic.rs:242-327).
THEOREM VerdictIsAlwaysTheFirstError == Spec => []VerdictIsTheFirstError
<1>1. Init => VInv
  BY DEF Init, VInv, VerdictIsTheFirstError, Kept, Spoken
<1>2. VInv => VerdictIsTheFirstError
  BY DEF VInv
<1> QED
  BY <1>1, <1>2, IInvInit, IInvNext, VInvNext, PTL DEF Spec

-----------------------------------------------------------------------------
(* Where the blocks of a message sit.  In the API messages, the positions   *)
(* of the messages read grow from one API message to the next, and none of  *)
(* the API messages is empty.                                               *)

SitsIn(ms, i, k) == \E b \in DOMAIN ms[k].blocks : ms[k].blocks[b].msg = i

RInv ==
    /\ \A i \in Spoken : \E k \in DOMAIN messages : SitsIn(messages, i, k)
    /\ \A k \in DOMAIN messages : \E i \in Spoken : SitsIn(messages, i, k)
    /\ \A k \in DOMAIN messages : \A i : SitsIn(messages, i, k) =>
           i \in Spoken /\ messages[k].role = Side(i)
    /\ \A i, j \in Spoken : \A k, l \in DOMAIN messages :
           i <= j /\ SitsIn(messages, i, k) /\ SitsIn(messages, j, l) => k <= l

\* new is ms with the message at p added to its last, and on its side.
Adds(new, ms, role, p) ==
    /\ new \in Seq(ApiMessage)
    /\ Len(new) >= 1 /\ Len(new) \in {Len(ms), Len(ms) + 1}
    /\ new[Len(new)].role = role
    /\ \A k \in DOMAIN ms : new[k].role = ms[k].role
    /\ \A k \in DOMAIN new : \A i :
         SitsIn(new, i, k) <=> \/ k \in DOMAIN ms /\ SitsIn(ms, i, k)
                               \/ i = p /\ k = Len(new)

\* What push_or_merge does to where messages sit: the new message is in the
\* last one, which has its role, and the others stay (anthropic.rs:342-356).
LEMMA PushOrMergeSits ==
    ASSUME NEW ms \in Seq(ApiMessage), NEW role \in ApiRole,
           NEW blocks \in Seq(Block), blocks # <<>>,
           NEW p, \A b \in DOMAIN blocks : blocks[b].msg = p,
           NEW new, new = PushOrMerge(ms, role, blocks)
    PROVE  Adds(new, ms, role, p)
<1> USE DEF Adds
<1> DEFINE n == Len(ms)
<1>0. n \in Nat /\ DOMAIN ms = 1..n /\ \A k \in 1..n : ms[k] \in ApiMessage
  OBVIOUS
<1>b. Len(blocks) \in Nat /\ Len(blocks) >= 1 /\ DOMAIN blocks = 1..Len(blocks)
  OBVIOUS
<1>1. CASE ms # <<>> /\ ms[n].role = role
  <2>1. n \in 1..n
    BY <1>0, <1>1
  <2> DEFINE old == ms[n].blocks
             last == [ms[n] EXCEPT !.blocks = @ \o blocks]
  <2>2. new = [ms EXCEPT ![n] = last]
    BY <1>1 DEF PushOrMerge
  <2>3. ms[n] \in ApiMessage /\ old \in Seq(Block)
    BY <1>0, <2>1 DEF ApiMessage
  <2>4. /\ old \o blocks \in Seq(Block)
        /\ Len(old) \in Nat /\ DOMAIN old = 1..Len(old)
        /\ DOMAIN (old \o blocks) = 1..(Len(old) + Len(blocks))
        /\ \A b \in 1..(Len(old) + Len(blocks)) :
              (old \o blocks)[b] = IF b <= Len(old) THEN old[b] ELSE blocks[b - Len(old)]
    BY <2>3
  <2>5. last \in ApiMessage /\ last.role = role /\ last.blocks = old \o blocks
    BY <1>1, <2>3, <2>4 DEF ApiMessage
  <2>6. \A i : (\E b \in DOMAIN (old \o blocks) : (old \o blocks)[b].msg = i)
               <=> (\E b \in DOMAIN old : old[b].msg = i) \/ i = p
    <3> SUFFICES ASSUME NEW i
                 PROVE  (\E b \in DOMAIN (old \o blocks) : (old \o blocks)[b].msg = i)
                        <=> (\E b \in DOMAIN old : old[b].msg = i) \/ i = p
      OBVIOUS
    <3> DEFINE joined == old \o blocks
               q == Len(old)
    <3> HIDE DEF old, joined
    <3>1. ASSUME NEW b \in DOMAIN joined, joined[b].msg = i
          PROVE  (\E c \in DOMAIN old : old[c].msg = i) \/ i = p
      <4>1. b \in 1..(q + Len(blocks))
        BY <2>4 DEF joined
      <4>2. CASE b <= q
        BY <2>4, <3>1, <4>1, <4>2 DEF joined
      <4>3. CASE b > q
        <5>1. b - q \in DOMAIN blocks
          BY <1>b, <2>4, <4>1, <4>3
        <5>2. joined[b] = blocks[b - q]
          BY <2>4, <4>1, <4>3 DEF joined
        <5> QED
          BY <3>1, <5>1, <5>2
      <4> QED
        BY <2>4, <4>1, <4>2, <4>3
    <3>2. ASSUME NEW c \in DOMAIN old, old[c].msg = i
          PROVE  \E b \in DOMAIN joined : joined[b].msg = i
      <4>1. c \in 1..(q + Len(blocks)) /\ c <= q
        BY <1>b, <2>4
      <4>2. joined[c] = old[c] /\ c \in DOMAIN joined
        BY <2>4, <4>1 DEF joined
      <4> QED
        BY <3>2, <4>2
    <3>3. ASSUME i = p PROVE \E b \in DOMAIN joined : joined[b].msg = i
      <4>1. q + 1 \in 1..(q + Len(blocks)) /\ ~(q + 1 <= q) /\ (q + 1) - q = 1
        BY <1>b, <2>4
      <4>2. joined[q + 1] = blocks[1] /\ q + 1 \in DOMAIN joined
        BY <2>4, <4>1 DEF joined
      <4>3. blocks[1].msg = p
        BY <1>b
      <4> QED
        BY <3>3, <4>2, <4>3
    <3> QED
      BY <3>1, <3>2, <3>3 DEF joined
  <2> HIDE DEF last
  <2>7. /\ new \in Seq(ApiMessage) /\ Len(new) = n /\ DOMAIN new = 1..n
        /\ new[n] = last /\ \A k \in 1..n : k # n => new[k] = ms[k]
    BY <2>1, <2>2, <2>5, ReplaceFacts
  <2>8. \A k \in 1..n : new[k].role = ms[k].role
    BY <1>1, <2>5, <2>7
  <2>9. ASSUME NEW k \in 1..n, NEW i
        PROVE  SitsIn(new, i, k) <=> SitsIn(ms, i, k) \/ (i = p /\ k = n)
    <3>1. CASE k = n
      <4>1. SitsIn(new, i, k) <=> \E b \in DOMAIN (old \o blocks) : (old \o blocks)[b].msg = i
        BY <2>5, <2>7, <3>1 DEF SitsIn
      <4>2. SitsIn(ms, i, k) <=> \E b \in DOMAIN old : old[b].msg = i
        BY <3>1 DEF SitsIn
      <4> HIDE DEF old
      <4> QED
        BY <2>6, <3>1, <4>1, <4>2
    <3>2. CASE k # n
      BY <2>7, <3>2 DEF SitsIn
    <3> QED
      BY <3>1, <3>2
  <2>10. Len(new) >= 1 /\ Len(new) \in {Len(ms), Len(ms) + 1}
         /\ new[Len(new)].role = role
    <3>1. new[n].role = role
      BY <1>1, <2>1, <2>8
    <3>2. Len(new) = n /\ n >= 1
      <4>1. Len(new) = n
        BY <2>7
      <4>2. n >= 1
        BY <1>0, <2>1
      <4> QED
        BY <4>1, <4>2
    <3> QED
      BY <3>1, <3>2
  <2>11. \A k \in DOMAIN new : \A i :
            SitsIn(new, i, k) <=> \/ k \in DOMAIN ms /\ SitsIn(ms, i, k)
                                  \/ i = p /\ k = Len(new)
    <3>1. DOMAIN ms = 1..n /\ DOMAIN new = 1..n /\ Len(new) = n
      BY <1>0, <2>7
    <3> SUFFICES ASSUME NEW k \in DOMAIN new, NEW i
                 PROVE  SitsIn(new, i, k) <=> \/ k \in DOMAIN ms /\ SitsIn(ms, i, k)
                                              \/ i = p /\ k = Len(new)
      BY Zenon
    <3>2. k \in 1..n /\ k \in DOMAIN ms /\ (k = Len(new) <=> k = n)
      BY <3>1
    <3>3. SitsIn(new, i, k) <=> SitsIn(ms, i, k) \/ (i = p /\ k = n)
      BY <2>9, <3>2 DEF SitsIn
    <3>4. CASE k = n
      <4>1. k = Len(new)
        BY <3>2, <3>4
      <4> QED
        BY <3>2, <3>3, <3>4, <4>1, Zenon
    <3>5. CASE k # n
      <4>1. k # Len(new)
        BY <3>2, <3>5
      <4> QED
        BY <3>2, <3>3, <3>5, <4>1, Zenon
    <3> QED
      BY <3>4, <3>5, Zenon
  <2> QED
    BY <1>0, <2>7, <2>8, <2>10, <2>11
<1>2. CASE ~(ms # <<>> /\ ms[n].role = role)
  <2> DEFINE added == [role |-> role, blocks |-> blocks]
  <2>1. added \in ApiMessage /\ added.role = role /\ added.blocks = blocks
    BY DEF ApiMessage
  <2>2. new = Append(ms, added)
    BY <1>2 DEF PushOrMerge
  <2> HIDE DEF added
  <2>3. /\ new \in Seq(ApiMessage) /\ Len(new) = n + 1 /\ DOMAIN new = 1..(n + 1)
        /\ new[n + 1] = added /\ \A k \in 1..n : new[k] = ms[k]
    BY <2>1, <2>2
  <2>4. \A i : (\E b \in DOMAIN blocks : blocks[b].msg = i) <=> i = p
    BY <1>b
  <2>5. ASSUME NEW k \in 1..(n + 1), NEW i
        PROVE  SitsIn(new, i, k) <=> \/ k \in 1..n /\ SitsIn(ms, i, k)
                                     \/ i = p /\ k = n + 1
    <3>1. CASE k = n + 1
      BY <1>0, <2>1, <2>3, <2>4, <3>1 DEF SitsIn
    <3>2. CASE k # n + 1
      <4>1. k \in 1..n /\ new[k] = ms[k]
        BY <1>0, <2>3, <3>2
      <4>2. SitsIn(new, i, k) <=> SitsIn(ms, i, k)
        BY <4>1 DEF SitsIn
      <4> QED
        BY <3>2, <4>1, <4>2, Zenon
    <3> QED
      BY <3>1, <3>2
  <2>6. Len(new) >= 1 /\ Len(new) \in {Len(ms), Len(ms) + 1}
        /\ new[Len(new)].role = role /\ \A k \in 1..n : new[k].role = ms[k].role
    BY <1>0, <2>1, <2>3
  <2> QED
    BY <1>0, <2>3, <2>5, <2>6
<1> QED
  BY <1>1, <1>2

\* What a turn of the loop takes: one more message, after those taken before.
LEMMA TurnTakes ==
    ASSUME TypeOK, NEW m \in Inputs, Take(m)
    PROVE  /\ pc = "building" /\ Len(read) \in Nat /\ Position = Len(read) + 1
           /\ DOMAIN read = 1..Len(read) /\ Kept = 1..Len(read)
           /\ read' \in Seq(Inputs) /\ DOMAIN read' = 1..(Len(read) + 1)
           /\ Len(read') = Len(read) + 1
           /\ read'[Len(read) + 1] = m
           /\ \A i \in 1..Len(read) : read'[i] = read[i]
<1>1. read \in Seq(Inputs) /\ read' = Append(read, m) /\ pc = "building"
  BY DEF TypeOK, Take
<1>2. Kept = DOMAIN read
  BY <1>1 DEF Kept
<1> QED
  BY <1>1, <1>2, AppendFacts DEF Position

\* A turn that goes on: a message that is not the system's is spoken, and the
\* side of every other stays.
LEMMA SpokenGrows ==
    ASSUME TypeOK, NEW m \in Inputs, Take(m), pc' = pc
    PROVE  /\ Kept' = 1..(Len(read) + 1)
           /\ Spoken \subseteq 1..Len(read)
           /\ m.role = "System" => Spoken' = Spoken
           /\ m.role # "System" => Spoken' = Spoken \cup {Len(read) + 1}
           /\ \A i \in Spoken : Side(i)' = Side(i)
           /\ \A i : i = Len(read) + 1 =>
                Side(i)' = IF m.role = "Assistant" THEN "assistant" ELSE "user"
<1> DEFINE n == Len(read)
<1>1. /\ pc = "building" /\ n \in Nat
      /\ DOMAIN read' = 1..(n + 1) /\ Kept = 1..n
      /\ read'[n + 1] = m /\ \A i \in 1..n : read'[i] = read[i]
  BY TurnTakes
<1> HIDE DEF n
<1>2. Kept' = 1..(n + 1)
  BY <1>1 DEF Kept
<1>3. Kept' = Kept \cup {n + 1} /\ n + 1 \notin Kept
  BY <1>1, <1>2
<1>4. Spoken \subseteq 1..n
  BY <1>1 DEF Spoken
<1>5. \A i \in Kept : read'[i] = read[i]
  BY <1>1
<1>6. \A i : i \in Spoken' <=> i \in Spoken \/ (i = n + 1 /\ m.role # "System")
  BY <1>1, <1>3, <1>5 DEF Spoken
<1>7. \A i \in Spoken : Side(i)' = Side(i)
  BY <1>1, <1>4 DEF Side
<1>8. \A i : i = n + 1 =>
         Side(i)' = IF m.role = "Assistant" THEN "assistant" ELSE "user"
  BY <1>1 DEF Side
<1> QED
  BY <1>2, <1>4, <1>6, <1>7, <1>8 DEF n

\* A turn that fails: what was spoken stays.
LEMMA SpokenStays ==
    ASSUME TypeOK, NEW m \in Inputs, Take(m),
           pc' \in {"misplaced_calls", "bad_arguments", "no_tool_call_id"}
    PROVE  /\ Kept' = Kept /\ Spoken' = Spoken
           /\ \A i \in Spoken : Side(i)' = Side(i)
<1> DEFINE n == Len(read)
<1>1. /\ n \in Nat /\ Kept = 1..n /\ Len(read') = n + 1
      /\ \A i \in 1..n : read'[i] = read[i]
  BY TurnTakes
<1> HIDE DEF n
<1>2. Kept' = 1..n
  BY <1>1 DEF Kept
<1>3. \A i \in Kept : read'[i] = read[i]
  BY <1>1
<1>4. Kept' = Kept
  BY <1>1, <1>2
<1>5. Spoken' = Spoken
  BY <1>3, <1>4 DEF Spoken
<1>6. Spoken \subseteq Kept
  BY DEF Spoken
<1> QED
  BY <1>3, <1>4, <1>5, <1>6 DEF Side

\* A turn that adds blocks of the message taken, on its side, keeps RInv.
LEMMA RInvGrows ==
    ASSUME TypeOK, RInv, NEW m \in Inputs, Take(m), m.role # "System", pc' = pc,
           NEW role \in ApiRole,
           role = IF m.role = "Assistant" THEN "assistant" ELSE "user",
           NEW blocks \in Seq(Block), blocks # <<>>,
           \A b \in DOMAIN blocks : blocks[b].msg = Position,
           messages' = PushOrMerge(messages, role, blocks)
    PROVE  RInv'
<1> DEFINE last == Len(messages')
<1>0. PICK p : p = Len(read) + 1
  OBVIOUS
<1>1. Len(read) \in Nat /\ Position = p /\ p \in Nat
  BY <1>0, TurnTakes
<1>2. /\ Spoken \subseteq 1..Len(read)
      /\ Spoken' = Spoken \cup {p}
      /\ \A i \in Spoken : Side(i)' = Side(i)
      /\ Side(p)' = role
  BY <1>0, SpokenGrows
<1>3. p \notin Spoken /\ \A i \in Spoken : i < p /\ i \in Nat
  BY <1>0, <1>1, <1>2
<1>4. messages \in Seq(ApiMessage) /\ DOMAIN messages = 1..Len(messages)
      /\ Len(messages) \in Nat
  BY DEF TypeOK
<1>a. Adds(messages', messages, role, Position)
  BY <1>4, PushOrMergeSits
<1>5. /\ messages' \in Seq(ApiMessage)
      /\ last >= 1 /\ last \in {Len(messages), Len(messages) + 1}
      /\ messages'[last].role = role
      /\ \A k \in DOMAIN messages : messages'[k].role = messages[k].role
      /\ \A k \in DOMAIN messages' : \A i :
           SitsIn(messages', i, k) <=> \/ k \in DOMAIN messages /\ SitsIn(messages, i, k)
                                       \/ i = Position /\ k = last
  BY <1>a, Zenon DEF Adds
<1>6. /\ DOMAIN messages' = 1..last /\ last \in Nat
      /\ \A k \in 1..last : k \in DOMAIN messages \/ k = last
      /\ \A k \in DOMAIN messages : k \in 1..last
  BY <1>4, <1>5
<1>7. \A k \in 1..last : \A i :
         SitsIn(messages', i, k) <=> \/ k \in DOMAIN messages /\ SitsIn(messages, i, k)
                                     \/ i = p /\ k = last
  BY <1>1, <1>5, <1>6
<1> HIDE DEF last
<1>8. last \in 1..last
  BY <1>5, <1>6
<1>9. \A i \in Spoken' : \E k \in 1..last : SitsIn(messages', i, k)
  <2> SUFFICES ASSUME NEW i \in Spoken'
               PROVE  \E k \in 1..last : SitsIn(messages', i, k)
    OBVIOUS
  <2>1. CASE i = p
    BY <1>7, <1>8, <2>1, Zenon
  <2>2. CASE i \in Spoken
    <3>1. PICK k \in DOMAIN messages : SitsIn(messages, i, k)
      BY <2>2 DEF RInv
    <3> QED
      BY <1>6, <1>7, <3>1, Zenon
  <2> QED
    BY <1>2, <2>1, <2>2
<1>10. \A k \in 1..last : \E i \in Spoken' : SitsIn(messages', i, k)
  <2> SUFFICES ASSUME NEW k \in 1..last
               PROVE  \E i \in Spoken' : SitsIn(messages', i, k)
    OBVIOUS
  <2>1. CASE k = last
    <3>1. p \in Spoken'
      BY <1>2
    <3> QED
      BY <1>7, <2>1, <3>1, Zenon
  <2>2. CASE k \in DOMAIN messages
    <3>1. PICK i \in Spoken : SitsIn(messages, i, k)
      BY <2>2 DEF RInv
    <3>2. SitsIn(messages', i, k) /\ i \in Spoken'
      BY <1>2, <1>7, <2>2, <3>1, Zenon
    <3> QED
      BY <3>2
  <2> QED
    BY <1>6, <2>1, <2>2
<1>11. \A k \in 1..last : \A i : SitsIn(messages', i, k) =>
          i \in Spoken' /\ messages'[k].role = Side(i)'
  <2> SUFFICES ASSUME NEW k \in 1..last, NEW i, SitsIn(messages', i, k)
               PROVE  i \in Spoken' /\ messages'[k].role = Side(i)'
    OBVIOUS
  <2>1. CASE k \in DOMAIN messages /\ SitsIn(messages, i, k)
    <3>1. i \in Spoken /\ messages[k].role = Side(i)
      BY <2>1 DEF RInv
    <3> QED
      <4>1. messages'[k].role = messages[k].role
        BY <1>5, <2>1
      <4> QED
        BY <1>2, <3>1, <4>1
  <2>2. CASE i = p /\ k = last
    BY <1>2, <1>5, <2>2
  <2> QED
    BY <1>7, <2>1, <2>2, Zenon
<1>12. \A i, j \in Spoken' : \A k, l \in 1..last :
          i <= j /\ SitsIn(messages', i, k) /\ SitsIn(messages', j, l) => k <= l
  <2> SUFFICES ASSUME NEW i \in Spoken', NEW j \in Spoken',
                      NEW k \in 1..last, NEW l \in 1..last, i <= j,
                      SitsIn(messages', i, k), SitsIn(messages', j, l)
               PROVE  k <= l
    OBVIOUS
  <2>1. CASE j = p /\ l = last
    BY <1>6, <2>1
  <2>2. CASE l \in DOMAIN messages /\ SitsIn(messages, j, l)
    <3>1. j \in Spoken
      BY <2>2 DEF RInv
    <3>2. i # p /\ i \in Spoken
      BY <1>2, <1>3, <3>1
    <3>3. k \in DOMAIN messages /\ SitsIn(messages, i, k)
      BY <1>7, <3>2, Zenon
    <3>4. i <= j /\ SitsIn(messages, i, k) /\ SitsIn(messages, j, l)
      BY <2>2, <3>3, Zenon
    <3>5. \A x, y \in Spoken : \A a, b \in DOMAIN messages :
             x <= y /\ SitsIn(messages, x, a) /\ SitsIn(messages, y, b) => a <= b
      BY Zenon DEF RInv
    <3> QED
      BY <2>2, <3>1, <3>2, <3>3, <3>4, <3>5
  <2>3. \/ l \in DOMAIN messages /\ SitsIn(messages, j, l)
        \/ j = p /\ l = last
    BY <1>7, Zenon
  <2> QED
    BY <2>1, <2>2, <2>3
<1>13. DOMAIN messages' = 1..last
  BY <1>6
<1> QED
  BY <1>9, <1>10, <1>11, <1>12, <1>13 DEF RInv

-----------------------------------------------------------------------------
(* The content of one message: its blocks, in order, and which they are.    *)

InOrderOfCalls(blocks) ==
    \A k, l \in DOMAIN blocks : k < l => blocks[k].call < blocks[l].call

\* The blocks among all that message m at position i must have left.
HasAllOf(all, m, i) ==
    /\ m.role = "Tool" <=> Contains(all, ToolResult(i))
    /\ m.role # "Tool" /\ ~(m.empty /\ HasCalls(m)) <=> Contains(all, Text(i))
    /\ HasCalls(m) => \A n \in DOMAIN m.tool_calls[1] : Contains(all, ToolUse(i, n))

IsContentOf(blocks, m, i) ==
    /\ blocks \in Seq(Block)
    /\ blocks # <<>>
    /\ \A b \in DOMAIN blocks : blocks[b].msg = i
    /\ InOrderOfCalls(blocks)
    /\ HasAllOf(blocks, m, i)

\* The content of a message without calls is one block
\* (anthropic.rs:254-262, 289-308).
LEMMA OneBlockIsContent ==
    ASSUME NEW m \in Inputs, NEW i \in Nat, ~HasCalls(m)
    PROVE  /\ m.role # "Tool" => IsContentOf(<<Text(i)>>, m, i)
           /\ m.role = "Tool" => IsContentOf(<<ToolResult(i)>>, m, i)
<1>1. ASSUME NEW b \in Block, b.msg = i,
             m.role = "Tool" <=> b = ToolResult(i),
             m.role # "Tool" <=> b = Text(i)
      PROVE  IsContentOf(<<b>>, m, i)
  <2> DEFINE blocks == <<b>>
  <2>1. /\ blocks \in Seq(Block) /\ Len(blocks) = 1 /\ DOMAIN blocks = 1..1
        /\ blocks # <<>> /\ blocks[1] = b
    OBVIOUS
  <2> HIDE DEF blocks
  <2>2. \A e : Contains(blocks, e) <=> b = e
    BY <2>1 DEF Contains
  <2>3. InOrderOfCalls(blocks) /\ \A c \in DOMAIN blocks : blocks[c].msg = i
    BY <1>1, <2>1 DEF InOrderOfCalls
  <2>4. HasAllOf(blocks, m, i)
    BY <1>1, <2>2 DEF HasAllOf
  <2> QED
    BY <2>1, <2>3, <2>4 DEF IsContentOf, blocks
<1>2. Text(i) \in Block /\ ToolResult(i) \in Block /\ Text(i) # ToolResult(i)
      /\ Text(i).msg = i /\ ToolResult(i).msg = i
  BY DEF Text, ToolResult, Block
<1>3. ASSUME m.role # "Tool" PROVE IsContentOf(<<Text(i)>>, m, i)
  <2> DEFINE b == Text(i)
  <2>1. /\ b \in Block /\ b.msg = i
        /\ m.role = "Tool" <=> b = ToolResult(i)
        /\ m.role # "Tool" <=> b = Text(i)
    BY <1>2, <1>3
  <2> QED
    BY <1>1, <2>1
<1>4. ASSUME m.role = "Tool" PROVE IsContentOf(<<ToolResult(i)>>, m, i)
  <2> DEFINE b == ToolResult(i)
  <2>1. /\ b \in Block /\ b.msg = i
        /\ m.role = "Tool" <=> b = ToolResult(i)
        /\ m.role # "Tool" <=> b = Text(i)
    BY <1>2, <1>4
  <2> QED
    BY <1>1, <2>1
<1> QED
  BY <1>3, <1>4

\* The content of an assistant's message with calls: its text first, if there
\* is one, and the calls in their order (anthropic.rs:264-289).
LEMMA AssistantBlocksAre ==
    ASSUME NEW m, NEW i \in Nat, HasCalls(m), m.tool_calls[1] \in Seq(Arguments),
           NEW first \in {0, 1}, first = IF m.empty THEN 0 ELSE 1
    PROVE  LET blocks == AssistantBlocks(m, i)
               n == Len(m.tool_calls[1]) IN
           /\ n \in Nat /\ n >= 1 /\ DOMAIN m.tool_calls[1] = 1..n
           /\ blocks \in Seq(Block)
           /\ Len(blocks) = first + n /\ DOMAIN blocks = 1..(first + n)
           /\ \A b \in 1..(first + n) :
                blocks[b] = IF b <= first THEN Text(i) ELSE ToolUse(i, b - first)
<1> DEFINE calls == m.tool_calls[1]
           n == Len(calls)
           text == IF m.empty THEN <<>> ELSE <<Text(i)>>
           uses == [k \in DOMAIN calls |-> ToolUse(i, k)]
<1>1. n \in Nat /\ n >= 1 /\ DOMAIN calls = 1..n
  BY DEF HasCalls
<1>2. text \in Seq(Block) /\ Len(text) = first /\ \A b \in 1..first : text[b] = Text(i)
  <2>1. Text(i) \in Block
    BY DEF Text, Block
  <2>2. CASE m.empty
    <3>1. text = <<>> /\ first = 0
      BY <2>2
    <3>2. <<>> \in Seq(Block) /\ Len(<<>>) = 0
      OBVIOUS
    <3> QED
      BY <3>1, <3>2
  <2>3. CASE ~m.empty
    <3>1. text = <<Text(i)>> /\ first = 1
      BY <2>3
    <3> HIDE DEF text
    <3> QED
      BY <2>1, <3>1
  <2> QED
    BY <2>2, <2>3
<1>3. uses \in Seq(Block) /\ Len(uses) = n /\ \A k \in 1..n : uses[k] = ToolUse(i, k)
  <2>1. \A k \in 1..n : ToolUse(i, k) \in Block
    BY <1>1 DEF ToolUse, Block
  <2>2. uses = [k \in 1..n |-> ToolUse(i, k)]
    BY <1>1
  <2> HIDE DEF uses, n
  <2> QED
    BY <1>1, <2>1, <2>2
<1>4. AssistantBlocks(m, i) = text \o uses
  BY DEF AssistantBlocks
<1> HIDE DEF text, uses, n
<1> DEFINE blocks == text \o uses
<1>5. /\ blocks \in Seq(Block) /\ Len(blocks) = first + n /\ DOMAIN blocks = 1..(first + n)
      /\ \A b \in 1..first : blocks[b] = text[b]
      /\ \A b \in 1..n : blocks[first + b] = uses[b]
  <2>1. text \in Seq(Block) /\ uses \in Seq(Block)
    BY <1>2, <1>3
  <2>2. /\ text \o uses \in Seq(Block)
        /\ Len(text \o uses) = Len(text) + Len(uses)
        /\ DOMAIN (text \o uses) = 1..(Len(text) + Len(uses))
        /\ \A b \in 1..Len(text) : (text \o uses)[b] = text[b]
        /\ \A b \in 1..Len(uses) : (text \o uses)[Len(text) + b] = uses[b]
    BY <2>1, ConcatFacts
  <2>3. Len(text) = first /\ Len(uses) = n
    BY <1>2, <1>3
  <2> QED
    BY <2>2, <2>3
<1>6. ASSUME NEW b \in 1..(first + n)
      PROVE  blocks[b] = IF b <= first THEN Text(i) ELSE ToolUse(i, b - first)
  <2>1. CASE b <= first
    BY <1>1, <1>2, <1>5, <2>1
  <2>2. CASE ~(b <= first)
    <3>1. b - first \in 1..n /\ first + (b - first) = b
      BY <1>1, <2>2
    <3>2. blocks[b] = uses[b - first]
      BY <1>5, <3>1, SMTT(30), ZenonT(60)
    <3> QED
      BY <1>3, <2>2, <3>1, <3>2
  <2> QED
    BY <2>1, <2>2
<1> QED
  BY <1>1, <1>4, <1>5, <1>6 DEF n

LEMMA AssistantBlocksAreContent ==
    ASSUME NEW m \in Inputs, NEW i \in Nat, m.role = "Assistant"
    PROVE  IsContentOf(AssistantBlocks(m, i), m, i)
<1>1. CASE ~HasCalls(m)
  <2>1. AssistantBlocks(m, i) = <<Text(i)>>
    BY <1>1 DEF AssistantBlocks
  <2> QED
    BY <1>1, <2>1, OneBlockIsContent
<1>2. CASE HasCalls(m)
  <2> DEFINE blocks == AssistantBlocks(m, i)
             n == Len(m.tool_calls[1])
  <2>1. m.tool_calls[1] \in Seq(Arguments)
    BY <1>2, InputsAreMessages DEF HasCalls
  <2>2. PICK first \in {0, 1} : first = IF m.empty THEN 0 ELSE 1
    OBVIOUS
  <2>3. /\ n \in Nat /\ n >= 1 /\ DOMAIN m.tool_calls[1] = 1..n
        /\ blocks \in Seq(Block)
        /\ Len(blocks) = first + n /\ DOMAIN blocks = 1..(first + n)
        /\ \A b \in 1..(first + n) :
             blocks[b] = IF b <= first THEN Text(i) ELSE ToolUse(i, b - first)
    BY <1>2, <2>1, <2>2, AssistantBlocksAre
  <2> HIDE DEF blocks, n
  <2>4. \A b \in 1..(first + n) :
           /\ blocks[b].msg = i
           /\ blocks[b].call = IF b <= first THEN 0 ELSE b - first
           /\ blocks[b].kind = IF b <= first THEN "text" ELSE "tool_use"
    BY <2>3 DEF Text, ToolUse
  <2>5. blocks # <<>>
    BY <2>3
  <2>6. InOrderOfCalls(blocks)
    BY <2>3, <2>4 DEF InOrderOfCalls
  <2>7. ~Contains(blocks, ToolResult(i))
    <3>1. ToolResult(i).kind = "tool_result"
      BY DEF ToolResult
    <3> QED
      BY <2>3, <2>4, <3>1 DEF Contains
  <2>8. Contains(blocks, Text(i)) <=> ~m.empty
    <3>1. ASSUME ~m.empty PROVE Contains(blocks, Text(i))
      <4>1. 1 \in 1..(first + n) /\ 1 <= first
        BY <2>2, <2>3, <3>1
      <4> QED
        BY <2>3, <4>1 DEF Contains
    <3>2. ASSUME Contains(blocks, Text(i)) PROVE ~m.empty
      <4>1. Text(i).kind = "text"
        BY DEF Text
      <4>2. PICK b \in 1..(first + n) : blocks[b] = Text(i)
        BY <2>3, <3>2 DEF Contains
      <4>3. b <= first
        BY <2>4, <4>1, <4>2
      <4> QED
        BY <2>2, <4>3
    <3> QED
      BY <3>1, <3>2
  <2>9. ASSUME NEW k \in 1..n PROVE Contains(blocks, ToolUse(i, k))
    <3>1. first + k \in 1..(first + n) /\ ~(first + k <= first) /\ (first + k) - first = k
      BY <2>2, <2>3
    <3>2. blocks[first + k] = ToolUse(i, k)
      BY <2>3, <3>1
    <3> QED
      BY <2>3, <3>1, <3>2 DEF Contains
  <2>10. HasAllOf(blocks, m, i)
    BY <1>2, <2>3, <2>7, <2>8, <2>9 DEF HasAllOf
  <2> QED
    BY <2>3, <2>4, <2>5, <2>6, <2>10 DEF IsContentOf, blocks
<1> QED
  BY <1>1, <1>2

-----------------------------------------------------------------------------
(* All blocks.                                                             *)

\* The blocks of each API message
ContentOf(ms) == [k \in DOMAIN ms |-> ms[k].blocks]

\* push_or_merge puts the new blocks after all others (anthropic.rs:342-356).
LEMMA PushOrMergeFlattens ==
    ASSUME NEW ms \in Seq(ApiMessage), NEW role \in ApiRole,
           NEW blocks \in Seq(Block),
           NEW new, new = PushOrMerge(ms, role, blocks)
    PROVE  /\ FlattenSeq(ContentOf(ms)) \in Seq(Block)
           /\ FlattenSeq(ContentOf(new)) = FlattenSeq(ContentOf(ms)) \o blocks
<1> DEFINE n == Len(ms)
           V == Seq(Block)
<1>a. /\ n \in Nat /\ DOMAIN ms = 1..n
      /\ \A k \in 1..n : ms[k] \in ApiMessage
  OBVIOUS
<1>b. \A a \in ApiMessage : a.blocks \in V
  BY DEF ApiMessage
<1>0. /\ n \in Nat /\ DOMAIN ms = 1..n
      /\ \A k \in 1..n : ms[k] \in ApiMessage /\ ms[k].blocks \in V
  <2> HIDE DEF V, n
  <2> QED
    BY <1>a, <1>b
<1>1. /\ ContentOf(ms) \in Seq(V) /\ Len(ContentOf(ms)) = n
      /\ DOMAIN ContentOf(ms) = 1..n
      /\ \A k \in 1..n : ContentOf(ms)[k] = ms[k].blocks
  <2>1. ContentOf(ms) = [k \in 1..n |-> ms[k].blocks]
    BY <1>0 DEF ContentOf
  <2> HIDE DEF n, V
  <2> QED
    BY <1>0, <2>1
<1>2. FlattenSeq(ContentOf(ms)) \in Seq(Block)
  <2>1. <<>> \in Seq(Block)
    OBVIOUS
  <2> QED
    BY <1>1, <2>1, FlattenAppend
<1>3. CASE ms # <<>> /\ ms[n].role = role
  <2> DEFINE old == ms[n].blocks
             last == [ms[n] EXCEPT !.blocks = @ \o blocks]
             front == [k \in 1..(n - 1) |-> ms[k].blocks]
  <2>1. n \in 1..n /\ n - 1 \in Nat /\ 1..(n - 1) \subseteq 1..n
    BY <1>0, <1>3
  <2>2. old \in V /\ old \o blocks \in V
    BY <1>0, <2>1, ConcatFacts
  <2>3. last \in ApiMessage /\ last.blocks = old \o blocks
    BY <1>0, <2>1, <2>2 DEF ApiMessage
  <2>4. new = [ms EXCEPT ![n] = last]
    BY <1>3 DEF PushOrMerge
  <2> HIDE DEF last
  <2>5. /\ new \in Seq(ApiMessage) /\ Len(new) = n /\ DOMAIN new = 1..n
        /\ new[n] = last /\ \A k \in 1..n : k # n => new[k] = ms[k]
    BY <2>1, <2>3, <2>4, ReplaceFacts
  <2>6. front \in Seq(V) /\ Len(front) = n - 1
        /\ \A k \in 1..(n - 1) : front[k] = ms[k].blocks
    <3>1. \A k \in 1..(n - 1) : ms[k].blocks \in V
      BY <1>0, <2>1
    <3> HIDE DEF V, n
    <3> QED
      BY <2>1, <3>1
  <2> HIDE DEF front
  <2>7. ContentOf(ms) = Append(front, old)
    <3>1. /\ Append(front, old) \in Seq(V) /\ Len(Append(front, old)) = n
          /\ Append(front, old)[n] = old
          /\ \A k \in 1..(n - 1) : Append(front, old)[k] = front[k]
      <4> HIDE DEF V, old, n
      <4> QED
        BY <2>1, <2>2, <2>6, AppendFacts
    <3>2. \A k \in 1..n : ContentOf(ms)[k] = Append(front, old)[k]
      <4>1. \A k \in 1..n : k = n \/ k \in 1..(n - 1)
        BY <2>1
      <4> QED
        BY <1>1, <2>6, <3>1, <4>1
    <3> HIDE DEF V, old, n
    <3> QED
      BY <1>1, <3>1, <3>2, SameSequence
  <2>8. ContentOf(new) = Append(front, old \o blocks)
    <3> DEFINE x == old \o blocks
    <3>1. /\ Append(front, x) \in Seq(V) /\ Len(Append(front, x)) = n
          /\ Append(front, x)[n] = x
          /\ \A k \in 1..(n - 1) : Append(front, x)[k] = front[k]
      <4>1. x \in V
        BY <2>2
      <4> HIDE DEF V, x, n
      <4> QED
        BY <2>1, <2>6, <4>1, AppendFacts
    <3>2. /\ DOMAIN ContentOf(new) = 1..n
          /\ \A k \in 1..n : ContentOf(new)[k] = new[k].blocks
      BY <2>5 DEF ContentOf
    <3>3. \A k \in 1..n : ContentOf(new)[k] = Append(front, x)[k]
      <4>1. \A k \in 1..n : k = n \/ (k \in 1..(n - 1) /\ k # n)
        BY <2>1
      <4>2. new[n].blocks = x
        BY <2>3, <2>5
      <4>3. ASSUME NEW k \in 1..(n - 1) PROVE new[k].blocks = front[k]
        <5>1. k \in 1..n /\ k # n
          BY <2>1
        <5>2. new[k] = ms[k]
          BY <2>5, <5>1
        <5>3. front[k] = ms[k].blocks
          BY <2>6
        <5> QED
          BY <5>2, <5>3
      <4> QED
        BY <3>1, <3>2, <4>1, <4>2, <4>3
    <3>4. ContentOf(new) \in Seq(V) /\ Len(ContentOf(new)) = n
      <4>1. ContentOf(new) = [k \in 1..n |-> new[k].blocks]
        BY <2>5 DEF ContentOf
      <4>2. \A k \in 1..n : new[k].blocks \in V
        <5>1. \A k \in 1..n : new[k] \in ApiMessage
          <6>1. new \in Seq(ApiMessage) /\ DOMAIN new = 1..n
            BY <2>5
          <6>2. \A k \in DOMAIN new : new[k] \in ApiMessage
            BY <6>1
          <6> QED
            BY <6>1, <6>2
        <5> HIDE DEF V, n
        <5> QED
          BY <1>b, <5>1
      <4> HIDE DEF V, n
      <4> QED
        BY <1>0, <4>1, <4>2
    <3> HIDE DEF V, x, n
    <3>5. ContentOf(new) = Append(front, x)
      BY <3>1, <3>3, <3>4, SameSequence
    <3> QED
      BY <3>5 DEF x
  <2> HIDE DEF old
  <2>9. /\ FlattenSeq(front) \in Seq(Block)
        /\ FlattenSeq(ContentOf(ms)) = FlattenSeq(front) \o old
        /\ FlattenSeq(ContentOf(new)) = FlattenSeq(front) \o (old \o blocks)
    BY <2>2, <2>6, <2>7, <2>8, FlattenAppend
  <2>10. \A x, y, z \in Seq(Block) : x \o (y \o z) = (x \o y) \o z
    OBVIOUS
  <2> QED
    BY <1>2, <2>2, <2>9, <2>10
<1>4. CASE ~(ms # <<>> /\ ms[n].role = role)
  <2> DEFINE added == [role |-> role, blocks |-> blocks]
  <2>1. added \in ApiMessage /\ added.blocks = blocks
    BY DEF ApiMessage
  <2>2. new = Append(ms, added)
    BY <1>4 DEF PushOrMerge
  <2> HIDE DEF added
  <2>3. /\ new \in Seq(ApiMessage) /\ Len(new) = n + 1 /\ DOMAIN new = 1..(n + 1)
        /\ new[n + 1] = added /\ \A k \in 1..n : new[k] = ms[k]
    BY <2>1, <2>2, AppendFacts
  <2>4. ContentOf(new) = Append(ContentOf(ms), blocks)
    <3> DEFINE bs == ContentOf(ms)
               cs == ContentOf(new)
    <3>1. /\ cs = [k \in 1..(n + 1) |-> new[k].blocks]
      BY <2>3 DEF ContentOf
    <3>2. \A k \in 1..(n + 1) : new[k].blocks \in V
      <4>1. \A k \in 1..(n + 1) : new[k] \in ApiMessage
        BY <2>3
      <4> HIDE DEF V, n
      <4> QED
        BY <1>b, <4>1
    <3>3. cs \in Seq(V) /\ Len(cs) = n + 1 /\ \A k \in 1..(n + 1) : cs[k] = new[k].blocks
      <4> HIDE DEF V, n, cs
      <4> QED
        BY <1>0, <3>1, <3>2
    <3>4. blocks \in V /\ bs \in Seq(V) /\ Len(bs) = n
      BY <1>1
    <3>5. /\ Append(bs, blocks) \in Seq(V) /\ Len(Append(bs, blocks)) = n + 1
          /\ Append(bs, blocks)[n + 1] = blocks
          /\ \A k \in 1..n : Append(bs, blocks)[k] = bs[k]
      <4> HIDE DEF V, n, bs
      <4> QED
        BY <3>4, AppendFacts
    <3>6. \A k \in 1..(n + 1) : cs[k] = Append(bs, blocks)[k]
      <4>1. \A k \in 1..(n + 1) : k = n + 1 \/ k \in 1..n
        BY <1>0
      <4>2. cs[n + 1] = blocks
        BY <1>0, <2>1, <2>3, <3>3
      <4>3. ASSUME NEW k \in 1..n PROVE cs[k] = bs[k]
        <5>1. k \in 1..(n + 1)
          BY <1>0
        <5>2. cs[k] = new[k].blocks
          <6> HIDE DEF cs, n
          <6> QED
            BY <3>3, <5>1
        <5>3. new[k] = ms[k]
          BY <2>3
        <5>4. bs[k] = ms[k].blocks
          BY <1>1
        <5> QED
          BY <5>2, <5>3, <5>4
      <4> HIDE DEF cs, bs, n
      <4> QED
        BY <3>5, <4>1, <4>2, <4>3
    <3> HIDE DEF V, n, cs, bs
    <3>7. cs = Append(bs, blocks)
      BY <3>3, <3>5, <3>6, SameSequence
    <3> QED
      BY <3>7 DEF cs, bs
  <2> QED
    BY <1>1, <1>2, <2>4, FlattenAppend
<1> QED
  BY <1>2, <1>3, <1>4

InOrderOfMessages(all) ==
    \A k, l \in DOMAIN all : k < l =>
        \/ all[k].msg < all[l].msg
        \/ all[k].msg = all[l].msg /\ all[k].call < all[l].call

Ascends(s) == \A k, l \in DOMAIN s : k < l => s[k] < s[l]

\* NothingIsLost by its parts
LEMMA NothingIsLostParts ==
    NothingIsLost <=>
        /\ InOrderOfMessages(AllBlocks)
        /\ \A i \in Spoken : HasAllOf(AllBlocks, read[i], i)
        /\ \A k \in DOMAIN AllBlocks : AllBlocks[k].msg \in Spoken
        /\ Ascends(system)
        /\ {system[k] : k \in DOMAIN system} = Kept \ Spoken
<1> DEFINE all == AllBlocks
<1> HIDE DEF all
<1>1. NothingIsLost <=>
        /\ InOrderOfMessages(all)
        /\ \A i \in Spoken : HasAllOf(all, read[i], i)
        /\ \A k \in DOMAIN all : all[k].msg \in Spoken
        /\ Ascends(system)
        /\ {system[k] : k \in DOMAIN system} = Kept \ Spoken
  BY Zenon DEF NothingIsLost, InOrderOfMessages, HasAllOf, Ascends, all
<1> QED
  BY <1>1 DEF all

\* Whether an element is in two sequences one after the other
LEMMA ConcatContains ==
    ASSUME NEW S, NEW s \in Seq(S), NEW t \in Seq(S), NEW e
    PROVE  Contains(s \o t, e) <=> Contains(s, e) \/ Contains(t, e)
<1> DEFINE st == s \o t
           n == Len(s)
           m == Len(t)
<1>1. /\ n \in Nat /\ m \in Nat /\ Len(st) = n + m
      /\ \A k \in 1..n : st[k] = s[k]
      /\ \A k \in 1..m : st[n + k] = t[k]
      /\ \A k \in 1..(n + m) :
           k \in 1..n \/ (k - n \in 1..m /\ n + (k - n) = k)
  BY ConcatFacts
<1> HIDE DEF st, n, m
<1>2. /\ \A k \in 1..n : k \in 1..(n + m)
      /\ \A k \in 1..m : n + k \in 1..(n + m)
  BY <1>1
<1>3. /\ Contains(st, e) <=> \E k \in 1..(n + m) : st[k] = e
      /\ Contains(s, e) <=> \E k \in 1..n : s[k] = e
      /\ Contains(t, e) <=> \E k \in 1..m : t[k] = e
  BY <1>1 DEF Contains, n, m
<1>4. ASSUME NEW k \in 1..(n + m), st[k] = e
      PROVE  (\E j \in 1..n : s[j] = e) \/ (\E j \in 1..m : t[j] = e)
  <2>1. CASE k \in 1..n
    BY <1>1, <1>4, <2>1
  <2>2. CASE k - n \in 1..m /\ n + (k - n) = k
    <3>1. st[n + (k - n)] = t[k - n]
      BY <1>1, <2>2
    <3> QED
      BY <1>4, <2>2, <3>1
  <2> QED
    BY <1>1, <2>1, <2>2
<1>5. ASSUME NEW j \in 1..n, s[j] = e PROVE \E k \in 1..(n + m) : st[k] = e
  BY <1>1, <1>2, <1>5
<1>6. ASSUME NEW j \in 1..m, t[j] = e PROVE \E k \in 1..(n + m) : st[k] = e
  BY <1>1, <1>2, <1>6
<1> QED
  BY <1>3, <1>4, <1>5, <1>6 DEF st

\* Blocks of a later message after all others are in order.
LEMMA ConcatIsInOrder ==
    ASSUME NEW all \in Seq(Block), NEW blocks \in Seq(Block), NEW p \in Nat,
           InOrderOfMessages(all), InOrderOfCalls(blocks),
           \A k \in DOMAIN all : all[k].msg < p,
           \A b \in DOMAIN blocks : blocks[b].msg = p
    PROVE  /\ InOrderOfMessages(all \o blocks)
           /\ \A k \in DOMAIN (all \o blocks) :
                \/ k \in DOMAIN all /\ (all \o blocks)[k] = all[k]
                \/ (all \o blocks)[k].msg = p
<1> DEFINE both == all \o blocks
           n == Len(all)
           m == Len(blocks)
<1>1. /\ n \in Nat /\ m \in Nat
      /\ DOMAIN all = 1..n /\ DOMAIN blocks = 1..m /\ DOMAIN both = 1..(n + m)
      /\ \A k \in 1..n : both[k] = all[k]
      /\ \A k \in 1..m : both[n + k] = blocks[k]
      /\ \A k \in 1..(n + m) :
           k \in 1..n \/ (k - n \in 1..m /\ n + (k - n) = k)
  BY ConcatFacts
<1> HIDE DEF both, n, m
<1>2. \A k \in 1..(n + m) : k - n \in 1..m /\ n + (k - n) = k => both[k] = blocks[k - n]
  BY <1>1
<1>3. ASSUME NEW k \in 1..(n + m), NEW l \in 1..(n + m), k < l
      PROVE  \/ both[k].msg < both[l].msg
             \/ both[k].msg = both[l].msg /\ both[k].call < both[l].call
  <2>1. CASE k \in 1..n /\ l \in 1..n
    BY <1>1, <1>3, <2>1 DEF InOrderOfMessages
  <2>2. CASE k \in 1..n /\ l - n \in 1..m /\ n + (l - n) = l
    <3>1. both[k].msg < p /\ both[l].msg = p
      BY <1>1, <1>2, <2>2
    <3> QED
      BY <3>1
  <2>3. CASE /\ k - n \in 1..m /\ n + (k - n) = k
             /\ l - n \in 1..m /\ n + (l - n) = l
    <3>1. both[k] = blocks[k - n] /\ both[l] = blocks[l - n]
      BY <1>2, <2>3
    <3>2. k - n < l - n
      BY <1>1, <1>3
    <3>3. blocks[k - n].call < blocks[l - n].call
      BY <1>1, <2>3, <3>2 DEF InOrderOfCalls
    <3>4. blocks[k - n].msg = p /\ blocks[l - n].msg = p
      BY <1>1, <2>3
    <3> QED
      BY <3>1, <3>3, <3>4
  <2>4. CASE k - n \in 1..m /\ n + (k - n) = k /\ l \in 1..n
    BY <1>1, <1>3, <2>4
  <2> QED
    BY <1>1, <2>1, <2>2, <2>3, <2>4
<1>4. ASSUME NEW k \in 1..(n + m)
      PROVE  (k \in 1..n /\ both[k] = all[k]) \/ both[k].msg = p
  <2>1. CASE k \in 1..n
    BY <1>1, <2>1
  <2>2. CASE k - n \in 1..m /\ n + (k - n) = k
    BY <1>1, <1>2, <2>2
  <2> QED
    BY <1>1, <2>1, <2>2
<1> QED
  BY <1>1, <1>3, <1>4 DEF InOrderOfMessages, both

\* What a message leaves depends on its own blocks.
LEMMA HasAllOfItsOwn ==
    ASSUME NEW all, NEW more, NEW m, NEW i,
           \A e : e.msg = i => (Contains(more, e) <=> Contains(all, e)),
           HasAllOf(all, m, i)
    PROVE  HasAllOf(more, m, i)
<1>1. ToolResult(i).msg = i /\ Text(i).msg = i /\ \A n : ToolUse(i, n).msg = i
  BY DEF ToolResult, Text, ToolUse
<1>2. /\ Contains(more, ToolResult(i)) <=> Contains(all, ToolResult(i))
      /\ Contains(more, Text(i)) <=> Contains(all, Text(i))
      /\ \A n : Contains(more, ToolUse(i, n)) <=> Contains(all, ToolUse(i, n))
  BY <1>1, Zenon
<1> QED
  BY <1>2, Zenon DEF HasAllOf

\* A turn that adds all blocks of the message taken loses nothing.
LEMMA LosesNothingSpoken ==
    ASSUME TypeOK, NothingIsLost, NEW m \in Inputs, Take(m), m.role # "System",
           pc' = pc, system' = system,
           NEW role \in ApiRole, NEW blocks, IsContentOf(blocks, m, Position),
           messages' = PushOrMerge(messages, role, blocks)
    PROVE  NothingIsLost'
<1> DEFINE all == AllBlocks
           both == all \o blocks
<1>0. PICK p : p = Len(read) + 1
  OBVIOUS
<1>1. /\ Len(read) \in Nat /\ Position = p /\ p \in Nat
      /\ Kept = 1..Len(read) /\ read'[p] = m
      /\ \A i \in 1..Len(read) : read'[i] = read[i]
  BY <1>0, TurnTakes
<1>2. /\ Kept' = 1..p /\ Spoken \subseteq 1..Len(read)
      /\ Spoken' = Spoken \cup {p}
  BY <1>0, SpokenGrows
<1>3. p \notin Spoken /\ Kept' = Kept \cup {p} /\ \A i \in Spoken : i < p
  BY <1>0, <1>1, <1>2
<1>4. /\ blocks \in Seq(Block) /\ InOrderOfCalls(blocks)
      /\ HasAllOf(blocks, m, p)
      /\ \A b \in DOMAIN blocks : blocks[b].msg = p
  BY <1>1 DEF IsContentOf
<1>5. all \in Seq(Block) /\ AllBlocks' = both
  <2>1. messages \in Seq(ApiMessage)
    BY DEF TypeOK
  <2>2. /\ FlattenSeq(ContentOf(messages)) \in Seq(Block)
        /\ FlattenSeq(ContentOf(messages')) = FlattenSeq(ContentOf(messages)) \o blocks
    BY <1>4, <2>1, PushOrMergeFlattens
  <2>3. all = FlattenSeq(ContentOf(messages)) /\ AllBlocks' = FlattenSeq(ContentOf(messages'))
    BY DEF AllBlocks, ContentOf
  <2> QED
    BY <2>2, <2>3
<1>6. /\ InOrderOfMessages(all)
      /\ \A i \in Spoken : HasAllOf(all, read[i], i)
      /\ \A k \in DOMAIN all : all[k].msg \in Spoken
      /\ Ascends(system)
      /\ {system[k] : k \in DOMAIN system} = Kept \ Spoken
  BY NothingIsLostParts
<1> HIDE DEF all
<1>7. \A k \in DOMAIN all : all[k].msg < p
  BY <1>3, <1>6
<1>8. /\ InOrderOfMessages(both)
      /\ \A k \in DOMAIN both : \/ k \in DOMAIN all /\ both[k] = all[k]
                                \/ both[k].msg = p
  BY <1>1, <1>4, <1>5, <1>6, <1>7, ConcatIsInOrder
<1>9. \A e : Contains(both, e) <=> Contains(all, e) \/ Contains(blocks, e)
  BY <1>4, <1>5, ConcatContains
<1>10. \A e : e.msg # p => ~Contains(blocks, e)
  BY <1>4 DEF Contains
<1>11. \A e : e.msg = p => ~Contains(all, e)
  <2>1. \A k \in DOMAIN all : all[k].msg # p
    BY <1>3, <1>6
  <2> QED
    BY <1>5, <2>1 DEF Contains
<1> HIDE DEF both
<1>12. ASSUME NEW i \in Spoken' PROVE HasAllOf(both, read'[i], i)
  <2>1. CASE i \in Spoken
    <3>1. i # p /\ read'[i] = read[i] /\ HasAllOf(all, read[i], i)
      BY <1>1, <1>2, <1>3, <1>6, <2>1
    <3>2. \A e : e.msg = i => (Contains(both, e) <=> Contains(all, e))
      BY <1>9, <1>10, <3>1, Zenon
    <3>3. HasAllOf(both, read[i], i)
      BY <3>1, <3>2, HasAllOfItsOwn
    <3> QED
      BY <3>1, <3>3
  <2>2. CASE i = p
    <3>1. \A e : e.msg = p => (Contains(both, e) <=> Contains(blocks, e))
      BY <1>9, <1>11, Zenon
    <3>2. HasAllOf(both, m, p)
      BY <1>4, <3>1, HasAllOfItsOwn
    <3> QED
      BY <1>1, <2>2, <3>2
  <2> QED
    BY <1>2, <2>1, <2>2
<1>13. \A k \in DOMAIN both : both[k].msg \in Spoken'
  BY <1>2, <1>6, <1>8
<1>14. {system'[k] : k \in DOMAIN system'} = Kept' \ Spoken'
  <2>a. p \notin Kept
    BY <1>0, <1>1
  <2>1. Kept' \ Spoken' = Kept \ Spoken
    BY <1>2, <1>3, <2>a
  <2>2. {system'[k] : k \in DOMAIN system'} = {system[k] : k \in DOMAIN system}
    OBVIOUS
  <2> QED
    BY <1>6, <2>1, <2>2
<1>15. Ascends(system)'
  BY <1>6 DEF Ascends
<1>16. /\ InOrderOfMessages(AllBlocks)'
       /\ \A i \in Spoken' : HasAllOf(AllBlocks, read[i], i)'
       /\ \A k \in DOMAIN AllBlocks' : AllBlocks'[k].msg \in Spoken'
  <2>1. InOrderOfMessages(AllBlocks)'
    BY <1>5, <1>8 DEF InOrderOfMessages
  <2>2. \A i \in Spoken' : HasAllOf(AllBlocks, read[i], i)'
    BY <1>5, <1>12 DEF HasAllOf
  <2>3. \A k \in DOMAIN AllBlocks' : AllBlocks'[k].msg \in Spoken'
    BY <1>5, <1>13
  <2> QED
    BY <2>1, <2>2, <2>3
<1>17. NothingIsLost' <=>
        /\ InOrderOfMessages(AllBlocks)'
        /\ \A i \in Spoken' : HasAllOf(AllBlocks, read[i], i)'
        /\ \A k \in DOMAIN AllBlocks' : AllBlocks'[k].msg \in Spoken'
        /\ Ascends(system)'
        /\ {system'[k] : k \in DOMAIN system'} = Kept' \ Spoken'
  BY Zenon DEF NothingIsLost, InOrderOfMessages, HasAllOf, Ascends
<1> QED
  BY <1>14, <1>15, <1>16, <1>17

\* Nothing is lost while the API messages stay.
LEMMA LosesNothingQuietly ==
    ASSUME NothingIsLost, messages' = messages, Spoken' = Spoken,
           \A i \in Spoken : read'[i] = read[i],
           Ascends(system'),
           {system'[k] : k \in DOMAIN system'} = Kept' \ Spoken'
    PROVE  NothingIsLost'
<1>1. AllBlocks' = AllBlocks
  BY DEF AllBlocks
<1>2. /\ InOrderOfMessages(AllBlocks)
      /\ \A i \in Spoken : HasAllOf(AllBlocks, read[i], i)
      /\ \A k \in DOMAIN AllBlocks : AllBlocks[k].msg \in Spoken
  BY NothingIsLostParts
<1>3. \A i \in Spoken' : HasAllOf(AllBlocks, read'[i], i)
  BY <1>2
<1>4. /\ InOrderOfMessages(AllBlocks')
      /\ \A i \in Spoken' : HasAllOf(AllBlocks', read'[i], i)
      /\ \A k \in DOMAIN AllBlocks' : AllBlocks'[k].msg \in Spoken'
  BY <1>1, <1>2, <1>3
<1>5. NothingIsLost' <=>
        /\ InOrderOfMessages(AllBlocks')
        /\ \A i \in Spoken' : HasAllOf(AllBlocks', read'[i], i)
        /\ \A k \in DOMAIN AllBlocks' : AllBlocks'[k].msg \in Spoken'
        /\ Ascends(system')
        /\ {system'[k] : k \in DOMAIN system'} = Kept' \ Spoken'
  BY Zenon DEF NothingIsLost, InOrderOfMessages, HasAllOf, Ascends
<1> QED
  BY <1>4, <1>5

\* A system message goes to the system parameter, after the others.
LEMMA LosesNothingSystem ==
    ASSUME TypeOK, NothingIsLost, NEW m \in Inputs, TakeSystem(m)
    PROVE  NothingIsLost'
<1> DEFINE n == Len(system)
<1>0. PICK p : p = Len(read) + 1
  OBVIOUS
<1>1. /\ Len(read) \in Nat /\ Position = p /\ p \in Nat
      /\ Kept = 1..Len(read)
      /\ \A i \in 1..Len(read) : read'[i] = read[i]
  BY <1>0, TurnTakes DEF TakeSystem
<1>2. /\ Kept' = 1..p /\ Spoken \subseteq 1..Len(read) /\ Spoken' = Spoken
  BY <1>0, SpokenGrows DEF TakeSystem
<1>3. /\ Ascends(system)
      /\ {system[k] : k \in DOMAIN system} = Kept \ Spoken
  BY NothingIsLostParts
<1>4. system' = Append(system, p) /\ messages' = messages
  BY <1>1 DEF TakeSystem
<1>5. /\ n \in Nat /\ DOMAIN system = 1..n /\ DOMAIN system' = 1..(n + 1)
      /\ system'[n + 1] = p /\ \A k \in 1..n : system'[k] = system[k]
  BY <1>1, <1>4, AppendFacts DEF TypeOK
<1> HIDE DEF n
<1>6. \A k \in 1..n : system[k] \in Kept /\ system[k] < p
  <2>1. \A k \in 1..n : system[k] \in Kept
    BY <1>3, <1>5
  <2>2. \A i \in Kept : i < p
    BY <1>0, <1>1
  <2> QED
    BY <2>1, <2>2
<1>7. \A k \in 1..(n + 1) : k \in 1..n \/ k = n + 1
  BY <1>5
<1>8. Ascends(system')
  <2> SUFFICES ASSUME NEW k \in 1..(n + 1), NEW l \in 1..(n + 1), k < l
               PROVE  system'[k] < system'[l]
    BY <1>5 DEF Ascends
  <2>1. k \in 1..n
    BY <1>5, <1>7
  <2>2. CASE l \in 1..n
    BY <1>3, <1>5, <2>1, <2>2 DEF Ascends
  <2>3. CASE l = n + 1
    BY <1>5, <1>6, <2>1, <2>3
  <2> QED
    BY <1>7, <2>2, <2>3
<1>9. {system'[k] : k \in DOMAIN system'} = Kept' \ Spoken'
  <2>1. Kept' = Kept \cup {p} /\ p \notin Spoken
    BY <1>0, <1>1, <1>2
  <2>2. \A x : x \in {system'[k] : k \in DOMAIN system'}
               <=> x \in {system[k] : k \in DOMAIN system} \/ x = p
    <3>1. \A k \in 1..n : k \in 1..(n + 1)
      BY <1>5
    <3>2. n + 1 \in 1..(n + 1)
      BY <1>5
    <3> QED
      BY <1>5, <1>7, <3>1, <3>2
  <2> QED
    BY <1>2, <1>3, <2>1, <2>2
<1>10. \A i \in Spoken : read'[i] = read[i]
  BY <1>1, <1>2
<1> QED
  BY <1>2, <1>4, <1>8, <1>9, <1>10, LosesNothingQuietly

\* A turn that fails keeps what was there.
LEMMA LosesNothingFailing ==
    ASSUME TypeOK, NothingIsLost, NEW m \in Inputs, Take(m),
           NEW error \in {"misplaced_calls", "bad_arguments", "no_tool_call_id"},
           Fail(error)
    PROVE  NothingIsLost'
<1>1. pc' = error /\ system' = system /\ messages' = messages
  BY DEF Fail
<1>2. Kept' = Kept /\ Spoken' = Spoken
  BY <1>1, SpokenStays
<1>3. Kept = 1..Len(read) /\ \A i \in 1..Len(read) : read'[i] = read[i]
  BY TurnTakes
<1>4. \A i \in Spoken : read'[i] = read[i]
  BY <1>3 DEF Spoken
<1>5. Ascends(system) /\ {system[k] : k \in DOMAIN system} = Kept \ Spoken
  BY NothingIsLostParts
<1> QED
  BY <1>1, <1>2, <1>4, <1>5, LosesNothingQuietly

-----------------------------------------------------------------------------
(* Both invariants, through every action.                                  *)

FInv == RInv /\ NothingIsLost

\* Where messages sit stays while the API messages stay.
LEMMA RInvQuietly ==
    ASSUME RInv, messages' = messages, Spoken' = Spoken,
           \A i \in Spoken : Side(i)' = Side(i)
    PROVE  RInv'
<1>1. \A k \in DOMAIN messages : \A i : SitsIn(messages, i, k) =>
          i \in Spoken' /\ messages'[k].role = Side(i)'
  <2> SUFFICES ASSUME NEW k \in DOMAIN messages, NEW i, SitsIn(messages, i, k)
               PROVE  i \in Spoken' /\ messages'[k].role = Side(i)'
    OBVIOUS
  <2>1. i \in Spoken /\ messages[k].role = Side(i)
    BY DEF RInv
  <2> QED
    BY <2>1
<1> QED
  BY <1>1, Zenon DEF RInv

\* A turn that adds the blocks of the message taken keeps both.
LEMMA FInvGrows ==
    ASSUME TypeOK, FInv, NEW m \in Inputs, Take(m), m.role # "System",
           UNCHANGED <<system, pc>>,
           NEW role \in ApiRole,
           role = IF m.role = "Assistant" THEN "assistant" ELSE "user",
           NEW blocks, IsContentOf(blocks, m, Position),
           messages' = PushOrMerge(messages, role, blocks)
    PROVE  FInv'
<1>1. /\ blocks \in Seq(Block) /\ blocks # <<>>
      /\ \A b \in DOMAIN blocks : blocks[b].msg = Position
  BY DEF IsContentOf
<1>2. RInv'
  BY <1>1, RInvGrows DEF FInv
<1>3. NothingIsLost'
  BY LosesNothingSpoken DEF FInv
<1> QED
  BY <1>2, <1>3 DEF FInv

LEMMA FInvFails ==
    ASSUME TypeOK, FInv, NEW m \in Inputs, Take(m),
           NEW error \in {"misplaced_calls", "bad_arguments", "no_tool_call_id"},
           Fail(error)
    PROVE  FInv'
<1>1. pc' = error /\ messages' = messages
  BY DEF Fail
<1>2. Spoken' = Spoken /\ \A i \in Spoken : Side(i)' = Side(i)
  BY <1>1, SpokenStays
<1>3. RInv'
  BY <1>1, <1>2, RInvQuietly DEF FInv
<1>4. NothingIsLost'
  BY LosesNothingFailing DEF FInv
<1> QED
  BY <1>3, <1>4 DEF FInv

\* A request of no message, at the start and once it is sent, has nothing to
\* lose (anthropic.rs:238-239).
Empty == read = <<>> /\ system = None /\ messages = <<>> /\ pc \in {"building", "sent"}

LEMMA FInvEmpty == Empty => FInv
<1> SUFFICES ASSUME Empty PROVE FInv
  OBVIOUS
<1> USE DEF Empty
<1>1. Kept = {} /\ Spoken = {}
  BY DEF Kept, Spoken
<1>2. DOMAIN messages = {} /\ DOMAIN system = {}
  BY DEF None
<1>3. AllBlocks = <<>>
  <2>1. [k \in DOMAIN messages |-> messages[k].blocks] = <<>>
    BY <1>2
  <2> QED
    BY <2>1 DEF AllBlocks, FlattenSeq
<1>4. RInv
  BY <1>1, <1>2 DEF RInv
<1>5. InOrderOfMessages(AllBlocks) /\ \A k \in DOMAIN AllBlocks : AllBlocks[k].msg \in Spoken
  BY <1>3 DEF InOrderOfMessages
<1>6. Ascends(system) /\ {system[k] : k \in DOMAIN system} = Kept \ Spoken
  BY <1>1, <1>2 DEF Ascends
<1>7. NothingIsLost
  BY <1>1, <1>5, <1>6, NothingIsLostParts
<1> QED
  BY <1>4, <1>7 DEF FInv

LEMMA FInvNext == IInv /\ FInv /\ [Next]_vars => FInv'
<1> SUFFICES ASSUME TypeOK, FInv, [Next]_vars PROVE FInv'
  BY DEF IInv
<1>0. Position \in Nat
  BY DEF TypeOK, Position
<1>1. ASSUME NEW m \in Inputs, TakeMisplacedCalls(m) PROVE FInv'
  BY <1>1, FInvFails DEF TakeMisplacedCalls
<1>2. ASSUME NEW m \in Inputs, TakeSystem(m) PROVE FInv'
  <2>1. Take(m) /\ pc' = pc /\ messages' = messages /\ m.role = "System"
    BY <1>2 DEF TakeSystem
  <2>2. Spoken' = Spoken /\ \A i \in Spoken : Side(i)' = Side(i)
    BY <2>1, SpokenGrows
  <2>3. RInv'
    BY <2>1, <2>2, RInvQuietly DEF FInv
  <2>4. NothingIsLost'
    BY <1>2, LosesNothingSystem DEF FInv
  <2> QED
    BY <2>3, <2>4 DEF FInv
<1>3. ASSUME NEW m \in Inputs, TakeUser(m) PROVE FInv'
  <2>1. /\ Take(m) /\ m.role = "User" /\ UNCHANGED <<system, pc>>
        /\ messages' = PushOrMerge(messages, "user", <<Text(Position)>>)
        /\ ~HasCalls(m)
    BY <1>3 DEF TakeUser, Misplaced, HasCalls
  <2>2. IsContentOf(<<Text(Position)>>, m, Position)
    BY <1>0, <2>1, OneBlockIsContent
  <2> QED
    BY <2>1, <2>2, FInvGrows DEF ApiRole
<1>4. ASSUME NEW m \in Inputs, TakeAssistant(m) PROVE FInv'
  <2>1. Take(m) /\ m.role = "Assistant"
    BY <1>4 DEF TakeAssistant
  <2>2. CASE Fail("bad_arguments")
    BY <2>1, <2>2, FInvFails
  <2>3. CASE /\ messages' = PushOrMerge(messages, "assistant",
                                        AssistantBlocks(m, Position))
             /\ UNCHANGED <<system, pc>>
    <3>1. IsContentOf(AssistantBlocks(m, Position), m, Position)
      BY <1>0, <2>1, AssistantBlocksAreContent
    <3> QED
      BY <2>1, <2>3, <3>1, FInvGrows DEF ApiRole
  <2> QED
    BY <1>4, <2>2, <2>3 DEF TakeAssistant
<1>5. ASSUME NEW m \in Inputs, TakeTool(m) PROVE FInv'
  <2>1. Take(m) /\ m.role = "Tool" /\ ~HasCalls(m)
    BY <1>5 DEF TakeTool, Misplaced, HasCalls
  <2>2. CASE m.has_id
    <3>1. /\ UNCHANGED <<system, pc>>
          /\ messages' = PushOrMerge(messages, "user", <<ToolResult(Position)>>)
      BY <1>5, <2>2 DEF TakeTool
    <3>2. IsContentOf(<<ToolResult(Position)>>, m, Position)
      BY <1>0, <2>1, OneBlockIsContent
    <3> QED
      BY <2>1, <3>1, <3>2, FInvGrows DEF ApiRole
  <2>3. CASE ~m.has_id
    BY <1>5, <2>1, <2>3, FInvFails DEF TakeTool
  <2> QED
    BY <2>2, <2>3
<1>6. CASE Finish \/ UNCHANGED vars
  <2>1. read' = read /\ system' = system /\ messages' = messages /\ Kept' = Kept
    BY <1>6 DEF Finish, vars, Kept
  <2>2. Spoken' = Spoken
    BY <2>1 DEF Spoken
  <2>3. \A i \in Spoken : Side(i)' = Side(i) /\ read'[i] = read[i]
    BY <2>1 DEF Side
  <2>4. Ascends(system) /\ {system[k] : k \in DOMAIN system} = Kept \ Spoken
    BY NothingIsLostParts DEF FInv
  <2>5. RInv'
    BY <2>1, <2>2, <2>3, RInvQuietly DEF FInv
  <2>6. NothingIsLost'
    BY <2>1, <2>2, <2>3, <2>4, LosesNothingQuietly DEF FInv
  <2> QED
    BY <2>5, <2>6 DEF FInv
<1>7. CASE Send
  <2>1. Empty'
    BY <1>7 DEF Send, Empty
  <2> QED
    BY <2>1, FInvEmpty, PTL
<1> QED
  BY <1>1, <1>2, <1>3, <1>4, <1>5, <1>6, <1>7 DEF Next

\* Messages whose positions grow along the API messages, of alternating roles,
\* are the runs of the sides.
LEMMA RInvMeansRuns == TypeOK /\ RolesAlternate /\ RInv => MessagesAreRuns
<1> SUFFICES ASSUME TypeOK, RolesAlternate, RInv PROVE MessagesAreRuns
  OBVIOUS
<1> DEFINE D == DOMAIN messages
<1>1. /\ D = 1..Len(messages) /\ Len(messages) \in Nat
      /\ D \subseteq Nat /\ Spoken \subseteq Nat
  BY DEF TypeOK, Spoken, Kept
<1>2. \A i \in Spoken : \E k \in D : SitsIn(messages, i, k)
  BY DEF RInv
<1>3. \A k \in D : \E i \in Spoken : SitsIn(messages, i, k)
  BY DEF RInv
<1>4. \A k \in D : \A i : SitsIn(messages, i, k) =>
           i \in Spoken /\ messages[k].role = Side(i)
  BY DEF RInv
<1>5. \A i, j \in Spoken : \A k, l \in D :
           i <= j /\ SitsIn(messages, i, k) /\ SitsIn(messages, j, l) => k <= l
  BY Zenon DEF RInv
<1>6. ASSUME NEW i \in Spoken, NEW j \in Spoken, i < j, NEW k \in D,
             SitsIn(messages, i, k), SitsIn(messages, j, k),
             NEW h \in Spoken \cap i..j
      PROVE  Side(h) = Side(i)
  <2>1. PICK l \in D : SitsIn(messages, h, l)
    BY <1>2
  <2>2. i <= h /\ h <= j
    BY <1>1
  <2>3. k <= l
    BY <1>5, <1>6, <2>1, <2>2
  <2>4. l <= k
    BY <1>5, <1>6, <2>1, <2>2
  <2>5. k = l
    BY <1>1, <2>3, <2>4
  <2> QED
    BY <1>4, <1>6, <2>1, <2>5
<1>7. ASSUME NEW i \in Spoken, NEW j \in Spoken, i < j,
             \A h \in Spoken \cap i..j : Side(h) = Side(i)
      PROVE  \E k \in D : SitsIn(messages, i, k) /\ SitsIn(messages, j, k)
  <2>1. PICK k \in D : SitsIn(messages, i, k)
    BY <1>2
  <2>2. PICK l \in D : SitsIn(messages, j, l)
    BY <1>2
  <2>3. k <= l
    <3>1. i <= j
      BY <1>1, <1>7
    <3> QED
      BY <1>5, <2>1, <2>2, <3>1
  <2>4. CASE k = l
    BY <2>1, <2>2, <2>4
  <2>5. CASE k < l
    <3>1. k + 1 \in D /\ k \in 1..(Len(messages) - 1)
      BY <1>1, <2>5
    <3>2. messages[k + 1].role # messages[k].role
      BY <3>1 DEF RolesAlternate
    <3>3. PICK h \in Spoken : SitsIn(messages, h, k + 1)
      BY <1>3, <3>1
    <3>4. Side(h) = messages[k + 1].role /\ Side(i) = messages[k].role
      BY <1>4, <2>1, <3>1, <3>3
    <3>5. ~(h <= i)
      <4>1. ~(k + 1 <= k)
        BY <1>1
      <4> QED
        BY <1>5, <2>1, <3>1, <3>3, <4>1
    <3>6. ~(h <= j)
      <4> SUFFICES ASSUME h <= j PROVE FALSE
        OBVIOUS
      <4>1. h \in Spoken \cap i..j
        BY <1>1, <3>5
      <4> QED
        BY <1>7, <3>2, <3>4, <4>1
    <3>7. l <= k + 1
      <4>1. j <= h
        BY <1>1, <3>6
      <4> QED
        BY <1>5, <2>2, <3>1, <3>3, <4>1
    <3>8. l = k + 1
      BY <1>1, <2>5, <3>7
    <3>9. Side(j) = messages[k + 1].role
      BY <1>4, <2>2, <3>8
    <3>10. j \in Spoken \cap i..j
      BY <1>1, <1>7
    <3> QED
      BY <1>7, <3>2, <3>4, <3>9, <3>10
  <2> QED
    BY <1>1, <2>3, <2>4, <2>5
<1>8. \A i, j \in Spoken : i < j =>
        ((\E k \in D : SitsIn(messages, i, k) /\ SitsIn(messages, j, k))
         <=> \A h \in Spoken \cap i..j : Side(h) = Side(i))
  <2> HIDE DEF D
  <2> QED
    BY <1>6, <1>7, Zenon
<1>9. \A i \in Spoken : \A k \in D :
        SitsIn(messages, i, k) => messages[k].role = Side(i)
  BY <1>4
<1> QED
  BY <1>8, <1>9, Zenon DEF MessagesAreRuns, SitsIn

LEMMA FInvInit == Init => FInv
BY FInvEmpty DEF Init, Empty

\* Whatever messages a request has, however many of a role follow one another
\* and wherever system messages stand, each text, call and result is in the
\* API request once and in order (anthropic.rs:249-309, 342-364).
THEOREM NothingIsEverLost == Spec => []NothingIsLost
<1>1. FInv => NothingIsLost
  BY DEF FInv
<1> QED
  BY <1>1, IInvInit, IInvNext, FInvInit, FInvNext, PTL DEF Spec

\* The API messages are the runs of one side, for requests of any length
\* (anthropic.rs:231-236, 342-356).
THEOREM MessagesAreAlwaysRuns == Spec => []MessagesAreRuns
<1>1. IInv /\ FInv => MessagesAreRuns
  BY RInvMeansRuns DEF IInv, FInv
<1> QED
  BY <1>1, IInvInit, IInvNext, FInvInit, FInvNext, PTL DEF Spec

-----------------------------------------------------------------------------
(* complete.  Every step of the provider is a step of its request or leaves *)
(* the request alone.                                                       *)

LEMMA ProviderStepsAreRequestSteps ==
    ProviderNext \/ UNCHANGED allVars => [Next]_vars
<1>1. ASSUME NEW value, Return(value) PROVE UNCHANGED vars
  BY <1>1 DEF Return
<1>2. ASSUME Complete PROVE UNCHANGED vars
  <2>1. ASSUME NEW status, NEW header, NEW body, ServerAnswers(status, header, body)
        PROVE  UNCHANGED vars
    BY <2>1 DEF ServerAnswers
  <2>2. ASSUME NEW b, TakeText(b) \/ TakeToolUse(b) \/ TakeToolUseDefect(b)
                        \/ TakeOther(b)
        PROVE  UNCHANGED vars
    BY <1>1, <2>2 DEF TakeText, TakeToolUse, TakeToolUseDefect, TakeOther
  <2>3. ASSUME FinishResponse PROVE UNCHANGED vars
    BY <1>1, <2>3 DEF FinishResponse
  <2>4. ASSUME RefuseRequest \/ PostFails PROVE UNCHANGED vars
    BY <1>1, <2>4 DEF RefuseRequest, PostFails
  <2> QED
    BY <1>2, <2>1, <2>2, <2>3, <2>4 DEF Complete
<1>3. Building => Next
  BY DEF Building
<1>4. UNCHANGED allVars => UNCHANGED vars
  BY DEF allVars
<1> QED
  BY <1>2, <1>3, <1>4 DEF ProviderNext

\* An answer is read only for a request that was sent; nothing is built
\* without a key.
Phases ==
    /\ answer = None => content = <<>> /\ text_parts = <<>> /\ tool_calls = <<>>
    /\ answer # None => pc = "sent" /\ api_key # ""
    /\ answer # None /\ result = None => Success(answer[1].status)
    /\ api_key = "" => pc = "building" /\ result = <<Error("Auth")>>

\* What the loop kept of the blocks it has taken
Parsed ==
    /\ \A k \in DOMAIN content : ~Defective(content[k])
    /\ text_parts = Texts
    /\ DOMAIN tool_calls = DOMAIN Kind("tool_use")
    /\ \A n \in DOMAIN tool_calls : tool_calls[n].block = Kind("tool_use")[n]

AllButLastSound ==
    \A k \in DOMAIN content : Defective(content[k]) =>
        k = Len(content) /\ result = <<Error("Request")>>

ResponseOf(reason) ==
    [calls |-> tool_calls,
     text |-> IF tool_calls # <<>> /\ text_parts = <<>> THEN None ELSE <<text_parts>>,
     stop_reason |-> reason]

\* What complete may have returned, and why: the client, the request or the POST
\* failed; there was no key; the server refused; its answer is not in order; or
\* it is.
Unanswered == api_key # "" /\ answer = None /\ result = <<Error("Request")>>
Unauthorized == api_key = "" /\ result = <<Error("Auth")>>
Refused ==
    /\ answer # None /\ ~Success(answer[1].status) /\ content = <<>>
    /\ result = <<MapError(answer[1].status, answer[1].retry_after)>>
Spoiled ==
    /\ answer # None /\ Success(answer[1].status)
    /\ \/ answer[1].body \notin StopReasons
       \/ \E k \in DOMAIN content : Defective(content[k])
    /\ result = <<Error("Request")>>
Sound ==
    /\ answer # None /\ Success(answer[1].status)
    /\ answer[1].body \in StopReasons
    /\ result = <<ResponseOf(answer[1].body)>>

Results == result = None \/ Unanswered \/ Unauthorized \/ Refused \/ Spoiled \/ Sound

PInv ==
    /\ Phases
    /\ \/ result = <<Error("Request")>>
       \/ Parsed
    /\ AllButLastSound
    /\ \A n \in DOMAIN tool_calls : tool_calls[n].arguments = "json"
    /\ Results

LEMMA OptionHas == ASSUME NEW S, NEW x \in S
                   PROVE  <<x>> \in Option(S) /\ <<x>>[1] = x /\ <<x>> # None
BY DEF Option, None

\* parse_retry_after gives a delay to the millisecond, or u64::MAX of them
\* (anthropic.rs:498-511).
LEMMA DelayIsExact ==
    ASSUME NEW header \in RetryAfter, IsDelay(header)
    PROVE  \E d \in 0..MaxMs : /\ ParseRetryAfter(header) = <<d>>
                               /\ 1000 * d <= header.us
                               /\ d < MaxMs => header.us < 1000 * (d + 1)
<1> DEFINE us == header.us
           ms == us \div 1000
           d == IF ms > MaxMs THEN MaxMs ELSE ms
<1>1. us \in Int /\ us >= 0
  BY DEF RetryAfter, IsDelay
<1>2. ParseRetryAfter(header) = <<d>>
  BY DEF ParseRetryAfter
<1> HIDE DEF us
<1>3. ms \in Nat /\ 1000 * ms <= us /\ us < 1000 * (ms + 1)
  BY <1>1
<1> HIDE DEF ms
<1>4. d \in 0..MaxMs /\ 1000 * d <= us /\ (d < MaxMs => us < 1000 * (d + 1))
  BY <1>1, <1>3, ProviderAssumption
<1> QED
  BY <1>2, <1>4 DEF us

\* map_error and parse_retry_after make a ProviderError of every status and
\* header (anthropic.rs:484-538).
LEMMA MapErrorType ==
    ASSUME NEW status, NEW header \in RetryAfter
    PROVE  MapError(status, header) \in ProviderError
<1>1. ParseRetryAfter(header) \in Option(Nat)
  <2>1. CASE IsDelay(header)
    <3>1. PICK d \in 0..MaxMs : ParseRetryAfter(header) = <<d>>
      BY <2>1, DelayIsExact
    <3>2. d \in Nat
      BY <3>1, ProviderAssumption
    <3> QED
      BY <3>1, <3>2, OptionHas
  <2>2. CASE ~IsDelay(header)
    BY <2>2 DEF ParseRetryAfter, Option
  <2> QED
    BY <2>1, <2>2
<1>2. [error |-> "RateLimited", retry_after_ms |-> ParseRetryAfter(header)] \in ProviderError
  BY <1>1 DEF ProviderError
<1>3. \A kind \in {"Auth", "ModelNotFound", "Unavailable", "Request"} :
        Error(kind) \in ProviderError
  BY DEF Error, ProviderError
<1> QED
  BY <1>2, <1>3 DEF MapError

LEMMA PInvInit == ProviderInit => ProviderTypeOK /\ PInv
<1> SUFFICES ASSUME ProviderInit PROVE ProviderTypeOK /\ PInv
  OBVIOUS
<1>1. /\ api_key \in Keys /\ answer = None /\ content = <<>>
      /\ text_parts = <<>> /\ tool_calls = <<>> /\ pc = "building"
  BY DEF ProviderInit, Init
<1>2. TypeOK
  BY IInvInit DEF ProviderInit, IInv
<1>3. \/ api_key = "" /\ result = <<Error("Auth")>>
      \/ api_key # "" /\ result = None
      \/ api_key # "" /\ result = <<Error("Request")>>
  BY DEF ProviderInit, ApiKey
<1>4. ProviderTypeOK
  <2>1. Error("Auth") \in ProviderError /\ Error("Request") \in ProviderError
    BY DEF Error, ProviderError
  <2>2. result # None => result[1] \in ProviderError \cup Response
    <3>1. \A x : <<x>>[1] = x
      OBVIOUS
    <3>2. result = None \/ result[1] = Error("Auth") \/ result[1] = Error("Request")
      BY <1>3, <3>1, Zenon
    <3> QED
      BY <2>1, <3>2, Zenon
  <2>3. answer \in Option([status : Statuses, retry_after : RetryAfters,
                           body : Bodies])
    BY <1>1 DEF Option
  <2>4. content \in Seq(Blocks) /\ text_parts \in Seq(Nat) /\ tool_calls \in Seq(ToolCall)
    BY <1>1
  <2> QED
    BY <1>1, <1>2, <2>2, <2>3, <2>4 DEF ProviderTypeOK
<1>5. Parsed
  <2>1. Len(content) = 0 /\ DOMAIN content = {} /\ DOMAIN tool_calls = {}
    BY <1>1
  <2>2. \A S : InOrder(S, 0) = <<>>
    BY InOrderDef
  <2>3. Texts = <<>> /\ Kind("tool_use") = <<>>
    BY <2>1, <2>2 DEF Texts, Kind
  <2> QED
    BY <1>1, <2>1, <2>3 DEF Parsed
<1>6. Phases
  BY <1>1, <1>3 DEF Phases
<1>7. Results
  BY <1>1, <1>3 DEF Results, Unanswered, Unauthorized
<1> QED
  BY <1>1, <1>4, <1>5, <1>6, <1>7 DEF PInv, AllButLastSound

\* A block that is not defective is kept as Parsed says: a text with its
\* position, a call, or nothing (anthropic.rs:364-417).
LEMMA ParsedGrows ==
    ASSUME ProviderTypeOK, Parsed, NEW b \in Blocks, ~Defective(b),
           content' = Append(content, b),
           text_parts' = IF b.type = "text" /\ b.text # "missing"
                         THEN Append(text_parts, Here) ELSE text_parts,
           tool_calls' = IF b.type = "tool_use"
                         THEN Append(tool_calls, Call(b)) ELSE tool_calls,
           \A n \in DOMAIN tool_calls : tool_calls[n].arguments = "json"
    PROVE  /\ Parsed'
           /\ content' \in Seq(Blocks) /\ text_parts' \in Seq(Nat)
           /\ tool_calls' \in Seq(ToolCall)
           /\ \A n \in DOMAIN tool_calls' : tool_calls'[n].arguments = "json"
           /\ \A k \in DOMAIN content' : ~Defective(content'[k])
<1> DEFINE n == Len(content)
           text == b.type = "text" /\ b.text # "missing"
           TextsOf(c) == {k \in DOMAIN c : /\ c[k].type = "text"
                                           /\ c[k].text # "missing"}
           CallsOf(c) == {k \in DOMAIN c : c[k].type = "tool_use"}
           calls == InOrder(CallsOf(content), n)
           calls2 == InOrder(CallsOf(content'), n + 1)
           t == Len(tool_calls)
<1>1. content \in Seq(Blocks) /\ text_parts \in Seq(Nat) /\ tool_calls \in Seq(ToolCall)
  BY DEF ProviderTypeOK
<1>2. /\ n \in Nat /\ DOMAIN content = 1..n
      /\ content' \in Seq(Blocks) /\ Len(content') = n + 1
      /\ DOMAIN content' = 1..(n + 1) /\ content'[n + 1] = b
      /\ \A k \in 1..n : content'[k] = content[k]
  BY <1>1, AppendFacts
<1>3. n + 1 \in 1..(n + 1) /\ \A k \in 1..n : k \in 1..(n + 1)
  BY <1>2
<1>4. /\ \A k \in 1..n : k \in TextsOf(content) <=> k \in TextsOf(content')
      /\ n + 1 \in TextsOf(content') <=> text
      /\ \A k \in 1..n : k \in CallsOf(content) <=> k \in CallsOf(content')
      /\ n + 1 \in CallsOf(content') <=> b.type = "tool_use"
  BY <1>2, <1>3
<1> HIDE DEF n
<1>5. /\ Texts = InOrder(TextsOf(content), n)
      /\ Texts' = InOrder(TextsOf(content'), n + 1)
      /\ Kind("tool_use") = calls
      /\ Kind("tool_use")' = calls2
  BY <1>2 DEF Texts, Kind, n
<1> HIDE DEF TextsOf, CallsOf
<1>6. Texts' = IF text THEN Append(Texts, n + 1) ELSE Texts
  <2>1. InOrder(TextsOf(content'), n + 1)
          = IF n + 1 \in TextsOf(content')
            THEN Append(InOrder(TextsOf(content), n), n + 1)
            ELSE InOrder(TextsOf(content), n)
    BY <1>2, <1>4, InOrderGrows, SMTT(30), ZenonT(60)
  <2> QED
    BY <1>4, <1>5, <2>1
<1>7. calls \in Seq(Nat)
      /\ calls2 = IF b.type = "tool_use" THEN Append(calls, n + 1) ELSE calls
  BY <1>2, <1>4, InOrderGrows, SMTT(30), ZenonT(60)
<1> HIDE DEF calls, calls2, text
<1>8. Here = n + 1 /\ Here \in Nat
  BY <1>2 DEF Here, n
<1>9. text_parts' = Texts' /\ text_parts' \in Seq(Nat)
  <2>1. text_parts' = IF text THEN Append(text_parts, Here) ELSE text_parts
    BY DEF text
  <2> QED
    BY <1>1, <1>6, <1>8, <2>1 DEF Parsed
<1>10. Call(b) \in ToolCall /\ Call(b).block = n + 1 /\ Call(b).arguments = "json"
  BY <1>8 DEF Call, ToolCall, Arguments
<1>11. DOMAIN tool_calls = DOMAIN calls /\ \A k \in DOMAIN tool_calls : tool_calls[k].block = calls[k]
  BY <1>5 DEF Parsed
<1>12. /\ tool_calls' \in Seq(ToolCall)
       /\ DOMAIN tool_calls' = DOMAIN calls2
       /\ \A k \in DOMAIN tool_calls' : tool_calls'[k].block = calls2[k]
       /\ \A k \in DOMAIN tool_calls' : tool_calls'[k].arguments = "json"
  <2>1. CASE b.type = "tool_use"
    <3>1. tool_calls' = Append(tool_calls, Call(b)) /\ calls2 = Append(calls, n + 1)
      BY <1>7, <2>1
    <3>2. /\ t \in Nat /\ DOMAIN tool_calls = 1..t /\ tool_calls' \in Seq(ToolCall)
          /\ DOMAIN tool_calls' = 1..(t + 1) /\ tool_calls'[t + 1] = Call(b)
          /\ \A k \in 1..t : tool_calls'[k] = tool_calls[k]
      BY <1>1, <1>10, <3>1, AppendFacts
    <3>3. /\ Len(calls) \in Nat /\ DOMAIN calls = 1..Len(calls)
          /\ DOMAIN calls2 = 1..(Len(calls) + 1) /\ calls2[Len(calls) + 1] = n + 1
          /\ \A k \in 1..Len(calls) : calls2[k] = calls[k]
      BY <1>2, <1>7, <3>1, AppendFacts
    <3> HIDE DEF t
    <3>4. Len(calls) = t
      <4>1. 1..t = 1..Len(calls)
        BY <1>11, <3>2, <3>3
      <4> QED
        BY <3>2, <3>3, <4>1, SameLength
    <3>5. \A k \in 1..(t + 1) : k \in 1..t \/ k = t + 1
      BY <3>2
    <3>6. ASSUME NEW k \in 1..(t + 1)
          PROVE  tool_calls'[k].block = calls2[k] /\ tool_calls'[k].arguments = "json"
      <4>1. CASE k \in 1..t
        BY <1>11, <3>2, <3>3, <3>4, <4>1
      <4>2. CASE k = t + 1
        BY <1>10, <3>2, <3>3, <3>4, <4>2
      <4> QED
        BY <3>5, <4>1, <4>2
    <3> QED
      BY <3>2, <3>3, <3>4, <3>6
  <2>2. CASE b.type # "tool_use"
    <3>1. tool_calls' = tool_calls /\ calls2 = calls
      BY <1>7, <2>2
    <3> QED
      BY <1>1, <1>11, <3>1
  <2> QED
    BY <2>1, <2>2
<1>13. \A k \in DOMAIN content' : ~Defective(content'[k])
  <2>1. \A k \in 1..(n + 1) : k \in 1..n \/ k = n + 1
    BY <1>2
  <2>2. \A k \in 1..n : ~Defective(content[k])
    BY <1>2 DEF Parsed
  <2> QED
    BY <1>2, <2>1, <2>2
<1>14. Parsed' <=> /\ \A k \in DOMAIN content' : ~Defective(content'[k])
                   /\ text_parts' = Texts'
                   /\ DOMAIN tool_calls' = DOMAIN Kind("tool_use")'
                   /\ \A k \in DOMAIN tool_calls' :
                        tool_calls'[k].block = Kind("tool_use")'[k]
  BY Zenon DEF Parsed, Defective
<1>15. Parsed'
  BY <1>5, <1>9, <1>12, <1>13, <1>14
<1> QED
  BY <1>2, <1>9, <1>12, <1>13, <1>15

\* While complete reads an answer, it has found nothing wrong.
LEMMA Reading ==
    ASSUME PInv, answer # None, result = None
    PROVE  /\ Parsed /\ pc = "sent" /\ api_key # ""
           /\ Success(answer[1].status)
           /\ result # <<Error("Request")>>
           /\ \A k \in DOMAIN content : ~Defective(content[k])
<1>1. result # <<Error("Request")>>
  BY DEF None
<1> QED
  BY <1>1 DEF PInv, Phases, Parsed

\* The loop keeps a block.
LEMMA PInvGrows ==
    ASSUME ProviderTypeOK, PInv, NEW b \in Blocks, TakeBlock(b), ~Defective(b),
           text_parts' = IF b.type = "text" /\ b.text # "missing"
                         THEN Append(text_parts, Here) ELSE text_parts,
           tool_calls' = IF b.type = "tool_use"
                         THEN Append(tool_calls, Call(b)) ELSE tool_calls,
           UNCHANGED <<vars, api_key, answer, result>>
    PROVE  ProviderTypeOK' /\ PInv'
<1>1. answer # None /\ result = None /\ content' = Append(content, b)
  BY DEF TakeBlock
<1>2. \A n \in DOMAIN tool_calls : tool_calls[n].arguments = "json"
  BY DEF PInv
<1>3. Parsed /\ pc = "sent" /\ api_key # "" /\ Success(answer[1].status)
  BY <1>1, Reading
<1>4. /\ Parsed'
      /\ content' \in Seq(Blocks) /\ text_parts' \in Seq(Nat)
      /\ tool_calls' \in Seq(ToolCall)
      /\ \A n \in DOMAIN tool_calls' : tool_calls'[n].arguments = "json"
      /\ \A k \in DOMAIN content' : ~Defective(content'[k])
  BY <1>1, <1>2, <1>3, ParsedGrows
<1>5. TypeOK'
  BY DEF ProviderTypeOK, TypeOK, vars
<1>6. ProviderTypeOK'
  BY <1>1, <1>4, <1>5 DEF ProviderTypeOK
<1>7. pc' = pc /\ api_key' = api_key /\ answer' = answer /\ result' = result
  BY DEF vars
<1>8. Phases'
  BY <1>1, <1>3, <1>7 DEF Phases
<1>9. AllButLastSound'
  BY <1>4 DEF AllButLastSound, Defective
<1>10. Results'
  BY <1>1, <1>7 DEF Results
<1> QED
  BY <1>4, <1>6, <1>8, <1>9, <1>10 DEF PInv

\* complete returns its error for the request, before an answer or at a block.
LEMMA PInvFails ==
    ASSUME ProviderTypeOK, PInv, result = None, Return(Error("Request")),
           content' \in Seq(Blocks),
           \/ content' = content /\ answer = None
           \/ content' = content /\ answer # None /\ answer[1].body \notin StopReasons
           \/ /\ answer # None
              /\ \E b \in Blocks : content' = Append(content, b) /\ Defective(b)
    PROVE  ProviderTypeOK' /\ PInv'
<1>1. /\ result' = <<Error("Request")>> /\ pc' = pc /\ api_key' = api_key
      /\ answer' = answer /\ text_parts' = text_parts /\ tool_calls' = tool_calls
      /\ UNCHANGED vars
  BY DEF Return, vars
<1>2. TypeOK'
  BY <1>1 DEF ProviderTypeOK, TypeOK, vars
<1>3. Error("Request") \in ProviderError
  BY DEF Error, ProviderError
<1>4. ProviderTypeOK'
  BY <1>1, <1>2, <1>3 DEF ProviderTypeOK
<1>5. api_key # ""
  BY DEF PInv, Phases, None
<1>6. Phases'
  BY <1>1, <1>5 DEF PInv, Phases, None
<1>7. AllButLastSound'
  <2>1. \A k \in DOMAIN content : ~Defective(content[k])
    BY DEF PInv, Parsed, None
  <2>2. CASE content' = content
    BY <2>1, <2>2 DEF AllButLastSound, Defective
  <2>3. ASSUME NEW b \in Blocks, content' = Append(content, b) PROVE AllButLastSound'
    <3>1. /\ Len(content) \in Nat /\ DOMAIN content = 1..Len(content)
          /\ DOMAIN content' = 1..(Len(content) + 1)
          /\ Len(content') = Len(content) + 1
          /\ \A k \in 1..Len(content) : content'[k] = content[k]
      BY <2>3, AppendFacts DEF ProviderTypeOK
    <3>2. ASSUME NEW k \in DOMAIN content', Defective(content'[k])
          PROVE  k = Len(content')
      <4>1. k \in 1..Len(content) \/ k = Len(content) + 1
        BY <3>1
      <4>2. k \notin 1..Len(content)
        <5>1. ASSUME k \in 1..Len(content) PROVE FALSE
          <6>1. content'[k] = content[k] /\ ~Defective(content[k])
            BY <2>1, <3>1, <5>1
          <6> QED
            BY <3>2, <6>1
        <5> QED
          BY <5>1
      <4> QED
        BY <3>1, <4>1, <4>2
    <3> QED
      BY <1>1, <3>2 DEF AllButLastSound, Defective
  <2> QED
    BY <2>2, <2>3
<1>8. \A n \in DOMAIN tool_calls' : tool_calls'[n].arguments = "json"
  BY <1>1 DEF PInv
<1>9. Results'
  <2>1. CASE answer = None
    BY <1>1, <1>5, <2>1 DEF Results, Unanswered
  <2>2. CASE answer # None
    <3>1. Success(answer[1].status)
      BY <2>2, Reading
    <3>2. \/ answer[1].body \notin StopReasons
          \/ \E k \in DOMAIN content' : Defective(content'[k])
      <4>1. ASSUME NEW b \in Blocks, content' = Append(content, b), Defective(b)
            PROVE  \E k \in DOMAIN content' : Defective(content'[k])
        <5>1. /\ Len(content) + 1 \in DOMAIN content'
              /\ content'[Len(content) + 1] = b
          BY <4>1, AppendFacts DEF ProviderTypeOK
        <5> QED
          BY <4>1, <5>1
      <4> QED
        BY <2>2, <4>1
    <3>3. Spoiled'
      BY <1>1, <2>2, <3>1, <3>2 DEF Spoiled, Success, Defective
    <3> QED
      BY <3>3 DEF Results
  <2> QED
    BY <2>1, <2>2
<1> QED
  BY <1>1, <1>4, <1>6, <1>7, <1>8, <1>9 DEF PInv

\* complete returns a response.
LEMMA PInvSucceeds ==
    ASSUME ProviderTypeOK, PInv, answer # None, result = None,
           NEW reason \in StopReasons, answer[1].body = reason,
           Return(ResponseOf(reason)), content' = content
    PROVE  ProviderTypeOK' /\ PInv'
<1>1. /\ result' = <<ResponseOf(reason)>> /\ pc' = pc /\ api_key' = api_key
      /\ answer' = answer /\ text_parts' = text_parts /\ tool_calls' = tool_calls
      /\ UNCHANGED vars
  BY DEF Return, vars
<1>2. TypeOK'
  BY <1>1 DEF ProviderTypeOK, TypeOK, vars
<1>3. ResponseOf(reason) \in Response
  <2>1. tool_calls \in Seq(ToolCall) /\ text_parts \in Seq(Nat)
    BY DEF ProviderTypeOK
  <2>2. <<text_parts>> \in Option(Seq(Nat))
    BY <2>1, OptionHas
  <2>3. None \in Option(Seq(Nat))
    BY DEF Option
  <2> QED
    BY <2>1, <2>2, <2>3 DEF ResponseOf, Response
<1>4. ProviderTypeOK'
  BY <1>1, <1>2, <1>3 DEF ProviderTypeOK
<1>5. /\ Parsed /\ pc = "sent" /\ api_key # "" /\ Success(answer[1].status)
      /\ \A k \in DOMAIN content : ~Defective(content[k])
  BY Reading
<1>6. Phases'
  BY <1>1, <1>5 DEF Phases, None
<1>7. AllButLastSound'
  BY <1>5 DEF AllButLastSound, Defective
<1>8. Parsed'
  <2>1. Texts' = Texts /\ Kind("tool_use")' = Kind("tool_use")
    BY DEF Texts, Kind
  <2> QED
    BY <1>1, <1>5, <2>1 DEF Parsed, Defective
<1>9. \A n \in DOMAIN tool_calls' : tool_calls'[n].arguments = "json"
  BY <1>1 DEF PInv
<1>10. Results'
  <2>1. ResponseOf(reason)' = ResponseOf(reason)
    BY <1>1 DEF ResponseOf
  <2>2. result' = <<ResponseOf(reason)'>>
    BY <1>1, <2>1
  <2>3. /\ answer' # None /\ Success(answer'[1].status)
        /\ answer'[1].body = reason
    BY <1>1, <1>5
  <2>4. Sound'
    BY <2>2, <2>3 DEF Sound, Success, ResponseOf
  <2> QED
    BY <2>4 DEF Results
<1> QED
  BY <1>4, <1>6, <1>7, <1>8, <1>9, <1>10 DEF PInv

\* The server's answer is an error at once, or about to be read.
LEMMA PInvAnswers ==
    ASSUME ProviderTypeOK, PInv, NEW status \in Statuses, NEW header \in RetryAfters,
           NEW body \in Bodies, ServerAnswers(status, header, body)
    PROVE  ProviderTypeOK' /\ PInv'
<1> DEFINE a == [status |-> status, retry_after |-> header, body |-> body]
<1>1. /\ pc = "sent" /\ answer = None /\ result = None
      /\ answer' = <<a>> /\ answer' # None /\ answer'[1].status = status
      /\ answer'[1].retry_after = header /\ answer'[1].body = body
      /\ UNCHANGED <<vars, api_key, content, text_parts, tool_calls>>
      /\ pc' = "sent" /\ api_key' = api_key /\ content' = content
      /\ text_parts' = text_parts /\ tool_calls' = tool_calls
  BY DEF ServerAnswers, vars, None
<1>2. TypeOK'
  BY <1>1 DEF ProviderTypeOK, TypeOK, vars
<1>3. answer' \in Option([status : Statuses, retry_after : RetryAfters, body : Bodies])
  <2>1. a \in [status : Statuses, retry_after : RetryAfters, body : Bodies]
    OBVIOUS
  <2> HIDE DEF a
  <2> QED
    BY <1>1, <2>1, OptionHas
<1>4. \/ Success(status) /\ result' = None
      \/ Success(status) /\ body = "garbage" /\ result' = <<Error("Request")>>
      \/ ~Success(status) /\ result' = <<MapError(status, header)>>
  BY DEF ServerAnswers
<1>5. Error("Request") \in ProviderError /\ MapError(status, header) \in ProviderError
  <2>1. header \in RetryAfter
    BY ProviderAssumption
  <2> QED
    BY <2>1, MapErrorType DEF Error, ProviderError
<1>6. ProviderTypeOK'
  BY <1>1, <1>2, <1>3, <1>4, <1>5 DEF ProviderTypeOK, None
<1>7. api_key # "" /\ Parsed /\ content = <<>>
  BY <1>1 DEF PInv, Phases, None
<1>8. Phases'
  <2>1. result' = None => Success(answer'[1].status)
    <3>1. ASSUME ~Success(status) PROVE result' # None
      BY <1>4, <3>1, SMTT(30) DEF None
    <3> QED
      BY <1>1, <3>1
  <2>2. /\ answer' # None /\ pc' = "sent" /\ api_key' # ""
    BY <1>1, <1>7
  <2> QED
    BY <2>1, <2>2 DEF Phases, Success
<1>9. Parsed'
  <2>1. Texts' = Texts /\ Kind("tool_use")' = Kind("tool_use")
    BY <1>1 DEF Texts, Kind
  <2> QED
    BY <1>1, <1>7, <2>1 DEF Parsed, Defective
<1>10. AllButLastSound'
  <2>1. content' = <<>>
    BY <1>1, <1>7
  <2> QED
    BY <2>1 DEF AllButLastSound
<1>11. \A n \in DOMAIN tool_calls' : tool_calls'[n].arguments = "json"
  BY <1>1 DEF PInv
<1>12. Results'
  <2>1. "garbage" \notin StopReasons
    BY DEF StopReasons
  <2>2. CASE Success(status) /\ body = "garbage" /\ result' = <<Error("Request")>>
    <3>1. Spoiled'
      BY <1>1, <2>1, <2>2 DEF Spoiled, Success, StopReasons
    <3> QED
      BY <3>1 DEF Results
  <2>3. CASE ~Success(status) /\ result' = <<MapError(status, header)>>
    <3>1. Refused'
      BY <1>1, <1>7, <2>3 DEF Refused, Success
    <3> QED
      BY <3>1 DEF Results
  <2> QED
    BY <1>4, <2>2, <2>3 DEF Results
<1> QED
  BY <1>6, <1>8, <1>9, <1>10, <1>11, <1>12 DEF PInv

\* A step of the request
LEMMA PInvBuilds ==
    ASSUME ProviderTypeOK, PInv, TypeOK', Building
    PROVE  ProviderTypeOK' /\ PInv'
<1>1. result = None /\ UNCHANGED replyVars /\ Next
  BY DEF Building
<1>2. /\ api_key' = api_key /\ answer' = answer /\ content' = content
      /\ text_parts' = text_parts /\ tool_calls' = tool_calls /\ result' = result
  BY <1>1 DEF replyVars
<1>3. pc # "sent"
  BY <1>1 DEF Next, TakeMisplacedCalls, TakeSystem, TakeUser, TakeAssistant,
              TakeTool, Take, Finish, Send
<1>4. answer = None /\ api_key # ""
  BY <1>1, <1>3 DEF PInv, Phases, None
<1>5. ProviderTypeOK'
  BY <1>2 DEF ProviderTypeOK
<1>6. Phases'
  <2>1. content = <<>> /\ text_parts = <<>> /\ tool_calls = <<>>
    BY <1>4 DEF PInv, Phases
  <2>2. /\ answer' = None /\ api_key' # ""
        /\ content' = <<>> /\ text_parts' = <<>> /\ tool_calls' = <<>>
    BY <1>2, <1>4, <2>1
  <2> QED
    BY <2>2 DEF Phases
<1>7. Parsed'
  <2>1. Parsed
    BY <1>1 DEF PInv, None
  <2>2. Texts' = Texts /\ Kind("tool_use")' = Kind("tool_use")
    BY <1>2 DEF Texts, Kind
  <2> QED
    BY <1>2, <2>1, <2>2 DEF Parsed, Defective
<1>8. AllButLastSound'
  <2>1. content' = <<>>
    BY <1>2, <1>4 DEF PInv, Phases
  <2> QED
    BY <2>1 DEF AllButLastSound
<1>9. \A n \in DOMAIN tool_calls' : tool_calls'[n].arguments = "json"
  BY <1>2 DEF PInv
<1>10. Results'
  BY <1>1, <1>2 DEF Results
<1> QED
  BY <1>5, <1>6, <1>7, <1>8, <1>9, <1>10 DEF PInv

LEMMA PInvNext ==
    IInv /\ ProviderTypeOK /\ PInv /\ [ProviderNext]_allVars => ProviderTypeOK' /\ PInv'
<1> SUFFICES ASSUME IInv, ProviderTypeOK, PInv, [ProviderNext]_allVars
             PROVE  ProviderTypeOK' /\ PInv'
  OBVIOUS
<1>0. TypeOK'
  BY ProviderStepsAreRequestSteps, IInvNext DEF IInv
<1>c. content \in Seq(Blocks)
  BY DEF ProviderTypeOK
<1>1. CASE Building
  BY <1>0, <1>1, PInvBuilds
<1>2. CASE RefuseRequest \/ PostFails
  <2>1. result = None /\ Return(Error("Request")) /\ content' = content
    BY <1>2 DEF RefuseRequest, PostFails
  <2>2. answer = None
    <3>1. "sent" \notin Errors
      BY DEF Errors
    <3> QED
      BY <1>2, <3>1 DEF RefuseRequest, PostFails, PInv, Phases
  <2> QED
    BY <1>c, <2>1, <2>2, PInvFails
<1>3. ASSUME NEW status \in Statuses, NEW header \in RetryAfters, NEW body \in Bodies,
             ServerAnswers(status, header, body)
      PROVE  ProviderTypeOK' /\ PInv'
  BY <1>3, PInvAnswers
<1>4. ASSUME NEW b \in Blocks, TakeText(b) PROVE ProviderTypeOK' /\ PInv'
  <2>1. ~Defective(b) /\ TakeBlock(b)
    BY <1>4 DEF TakeText, Defective
  <2>2. /\ text_parts' = IF b.type = "text" /\ b.text # "missing"
                         THEN Append(text_parts, Here) ELSE text_parts
        /\ tool_calls' = IF b.type = "tool_use"
                         THEN Append(tool_calls, Call(b)) ELSE tool_calls
        /\ UNCHANGED <<vars, api_key, answer, result>>
    BY <1>4 DEF TakeText
  <2> QED
    BY <2>1, <2>2, PInvGrows
<1>5. ASSUME NEW b \in Blocks, TakeToolUse(b) PROVE ProviderTypeOK' /\ PInv'
  <2>1. ~Defective(b) /\ TakeBlock(b)
    BY <1>5 DEF TakeToolUse, Defective
  <2>2. /\ text_parts' = IF b.type = "text" /\ b.text # "missing"
                         THEN Append(text_parts, Here) ELSE text_parts
        /\ tool_calls' = IF b.type = "tool_use"
                         THEN Append(tool_calls, Call(b)) ELSE tool_calls
        /\ UNCHANGED <<vars, api_key, answer, result>>
    BY <1>5 DEF TakeToolUse
  <2> QED
    BY <2>1, <2>2, PInvGrows
<1>6. ASSUME NEW b \in Blocks, TakeOther(b) PROVE ProviderTypeOK' /\ PInv'
  <2>1. ~Defective(b) /\ TakeBlock(b)
    BY <1>6 DEF TakeOther, Defective
  <2>2. /\ text_parts' = IF b.type = "text" /\ b.text # "missing"
                         THEN Append(text_parts, Here) ELSE text_parts
        /\ tool_calls' = IF b.type = "tool_use"
                         THEN Append(tool_calls, Call(b)) ELSE tool_calls
        /\ UNCHANGED <<vars, api_key, answer, result>>
    BY <1>6 DEF TakeOther
  <2> QED
    BY <2>1, <2>2, PInvGrows
<1>7. ASSUME NEW b \in Blocks, TakeToolUseDefect(b) PROVE ProviderTypeOK' /\ PInv'
  <2>1. /\ answer # None /\ result = None /\ content' = Append(content, b)
        /\ Return(Error("Request")) /\ Defective(b)
    BY <1>7 DEF TakeToolUseDefect, TakeBlock, Defective
  <2>2. content' \in Seq(Blocks)
    BY <1>c, <2>1
  <2> QED
    BY <2>1, <2>2, PInvFails
<1>8. ASSUME FinishResponse PROVE ProviderTypeOK' /\ PInv'
  <2> DEFINE reason == answer[1].body
  <2>1. answer # None /\ result = None /\ content' = content
    BY <1>8 DEF FinishResponse
  <2>2. CASE reason \in StopReasons
    <3>1. Return(ResponseOf(reason))
      BY <1>8, <2>2 DEF FinishResponse, ResponseOf
    <3> QED
      BY <2>1, <2>2, <3>1, PInvSucceeds
  <2>3. CASE reason \notin StopReasons
    <3>1. Return(Error("Request"))
      BY <1>8, <2>3 DEF FinishResponse
    <3>2. content' \in Seq(Blocks)
      BY <1>c, <2>1
    <3>3. content' = content /\ answer # None /\ answer[1].body \notin StopReasons
      BY <2>1, <2>3
    <3> QED
      BY <2>1, <3>1, <3>2, <3>3, PInvFails, Zenon
  <2> QED
    BY <2>2, <2>3
<1>9. CASE UNCHANGED allVars
  <2>1. /\ api_key' = api_key /\ answer' = answer /\ content' = content
        /\ text_parts' = text_parts /\ tool_calls' = tool_calls
        /\ result' = result /\ pc' = pc
    BY <1>9 DEF allVars, replyVars, vars
  <2>2. ProviderTypeOK'
    BY <1>0, <2>1 DEF ProviderTypeOK
  <2>3. Texts' = Texts /\ Kind("tool_use")' = Kind("tool_use")
    BY <2>1 DEF Texts, Kind
  <2>4. Parsed => Parsed'
    BY <2>1, <2>3 DEF Parsed, Defective
  <2>5. Phases' /\ AllButLastSound' /\ Results'
    <3>1. Phases'
      BY <2>1 DEF PInv, Phases
    <3>2. AllButLastSound'
      BY <2>1 DEF PInv, AllButLastSound, Defective
    <3>3. Results'
      <4>1. /\ Unanswered' <=> Unanswered
            /\ Unauthorized' <=> Unauthorized
        BY <2>1 DEF Unanswered, Unauthorized, Error
      <4>2. Refused' <=> Refused
        BY <2>1 DEF Refused
      <4>3. Spoiled' <=> Spoiled
        BY <2>1 DEF Spoiled, Defective
      <4>4. Sound' <=> Sound
        BY <2>1 DEF Sound, ResponseOf
      <4> QED
        BY <2>1, <4>1, <4>2, <4>3, <4>4 DEF PInv, Results
    <3> QED
      BY <3>1, <3>2, <3>3
  <2> QED
    BY <2>1, <2>2, <2>4, <2>5 DEF PInv
<1> QED
  BY <1>1, <1>2, <1>3, <1>4, <1>5, <1>6, <1>7, <1>8, <1>9 DEF ProviderNext, Complete

-----------------------------------------------------------------------------
(* What the invariant says of what complete returned.                      *)

\* Errors, and the response, told apart by their fields.
LEMMA ReturnedIs ==
    ASSUME PInv, result # None
    PROVE  /\ Returned = result[1]
           /\ \/ Unanswered /\ ~Succeeded /\ Returned = Error("Request")
              \/ Unauthorized /\ ~Succeeded /\ Returned = Error("Auth")
              \/ /\ Refused /\ ~Succeeded
                 /\ Returned = MapError(answer[1].status, answer[1].retry_after)
              \/ Spoiled /\ ~Succeeded /\ Returned = Error("Request")
              \/ /\ Sound /\ Succeeded /\ Returned = ResponseOf(answer[1].body)
                 /\ result # <<Error("Request")>>
<1>1. Returned = result[1]
  BY DEF Returned
<1>2. \A kind : "calls" \notin DOMAIN Error(kind)
  BY DEF Error
<1>3. \A status, header : "calls" \notin DOMAIN MapError(status, header)
  <2> TAKE status, header
  <2>1. "calls" \notin DOMAIN [error |-> "RateLimited",
                               retry_after_ms |-> ParseRetryAfter(header)]
    OBVIOUS
  <2>2. \/ MapError(status, header) = [error |-> "RateLimited",
                                       retry_after_ms |-> ParseRetryAfter(header)]
        \/ \E kind : MapError(status, header) = Error(kind)
    BY DEF MapError
  <2> QED
    BY <1>2, <2>1, <2>2
<1>4. \A reason : "calls" \in DOMAIN ResponseOf(reason)
  BY DEF ResponseOf
<1>5. Results
  BY DEF PInv
<1>6. CASE Unanswered \/ Spoiled
  <2>1. result = <<Error("Request")>>
    BY <1>6 DEF Unanswered, Spoiled
  <2>2. Returned = Error("Request") /\ ~Succeeded
    BY <1>1, <1>2, <2>1 DEF Succeeded
  <2> QED
    BY <1>1, <1>6, <2>2
<1>7. CASE Unauthorized
  BY <1>1, <1>2, <1>7 DEF Succeeded, Unauthorized
<1>8. CASE Refused
  BY <1>1, <1>3, <1>8 DEF Succeeded, Refused
<1>9. CASE Sound
  <2> DEFINE reason == answer[1].body
  <2>1. result = <<ResponseOf(reason)>>
    BY <1>9 DEF Sound
  <2>2. Returned = ResponseOf(reason) /\ Succeeded
    BY <1>1, <1>4, <2>1 DEF Succeeded
  <2>3. result # <<Error("Request")>>
    <3>1. ResponseOf(reason) # Error("Request")
      BY <1>2, <1>4
    <3> QED
      BY <2>1, <3>1
  <2> QED
    BY <1>1, <1>9, <2>2, <2>3
<1> QED
  BY <1>5, <1>6, <1>7, <1>8, <1>9 DEF Results

\* A success has everything of the answer.
LEMMA SuccessHas ==
    ASSUME ProviderTypeOK, PInv, Succeeded
    PROVE  /\ result # None /\ answer # None /\ Success(answer[1].status)
           /\ pc = "sent" /\ Parsed
           /\ Returned.calls = tool_calls
           /\ Returned.text = IF tool_calls # <<>> /\ text_parts = <<>>
                              THEN None ELSE <<text_parts>>
<1>1. result # None
  <2>1. "calls" \notin DOMAIN [error |-> "none"]
    OBVIOUS
  <2> QED
    BY <2>1 DEF Succeeded, Returned
<1>2. /\ answer # None /\ Success(answer[1].status)
      /\ result # <<Error("Request")>>
      /\ Returned = ResponseOf(answer[1].body)
  BY <1>1, ReturnedIs DEF Sound
<1>3. pc = "sent" /\ Parsed
  BY <1>2 DEF PInv, Phases
<1> QED
  BY <1>1, <1>2, <1>3 DEF ResponseOf

LEMMA SuccessIsComplete == ProviderTypeOK /\ PInv => ReplyIsComplete
<1> SUFFICES ASSUME ProviderTypeOK, PInv, Succeeded PROVE ReplyIsComplete
  BY DEF ReplyIsComplete
<1> DEFINE calls == Kind("tool_use")
<1>1. /\ Parsed /\ Returned.calls = tool_calls
      /\ Returned.text = IF tool_calls # <<>> /\ text_parts = <<>>
                         THEN None ELSE <<text_parts>>
  BY SuccessHas
<1>2. /\ text_parts = Texts
      /\ DOMAIN tool_calls = DOMAIN calls
      /\ \A n \in DOMAIN tool_calls : tool_calls[n].block = calls[n]
  BY <1>1 DEF Parsed
<1>3. calls \in Seq(Nat) /\ tool_calls \in Seq(ToolCall)
  <2>1. Len(content) \in Nat
    BY DEF ProviderTypeOK
  <2> QED
    BY <2>1, InOrderDef DEF Kind, ProviderTypeOK
<1> HIDE DEF calls
<1>4. [n \in DOMAIN Returned.calls |-> Returned.calls[n].block] = calls
  <2>1. [n \in DOMAIN tool_calls |-> tool_calls[n].block]
           = [n \in DOMAIN calls |-> calls[n]]
    BY <1>2
  <2>2. calls = [n \in DOMAIN calls |-> calls[n]]
    BY <1>3
  <2> QED
    BY <1>1, <2>1, <2>2
<1>5. tool_calls = <<>> <=> calls = <<>>
  <2>1. tool_calls = <<>> <=> DOMAIN tool_calls = {}
    BY <1>3
  <2>2. calls = <<>> <=> DOMAIN calls = {}
    BY <1>3
  <2> QED
    BY <1>2, <2>1, <2>2
<1>6. IF Returned.text = None THEN Texts = <<>> ELSE Returned.text[1] = Texts
  BY <1>1, <1>2 DEF None
<1>7. FromResponse(Returned) = IF calls = <<>>
                               THEN [kind |-> "response", parts |-> Texts]
                               ELSE [kind |-> "tool_call", parts |-> <<calls[1]>>]
  <2>1. CASE calls = <<>>
    <3>1. Returned.calls = <<>> /\ Returned.text[1] = Texts
      BY <1>1, <1>2, <1>5, <2>1
    <3> QED
      BY <2>1, <3>1 DEF FromResponse
  <2>2. CASE calls # <<>>
    <3>1. 1 \in DOMAIN calls
      BY <1>3, <2>2
    <3>2. Returned.calls # <<>> /\ Returned.calls[1].block = calls[1]
      BY <1>1, <1>2, <1>5, <2>2, <3>1
    <3> QED
      BY <2>2, <3>2 DEF FromResponse
  <2> QED
    BY <2>1, <2>2
<1> QED
  BY <1>4, <1>6, <1>7 DEF ReplyIsComplete, calls

\* An answer with a success status is a success exactly if it is in order.
LEMMA SuccessesAreDeserved ==
    ASSUME ProviderTypeOK, PInv, answer # None, result # None,
           Success(answer[1].status)
    PROVE  SuccessIsDeserved
<1>1. api_key # ""
  BY DEF PInv, Phases
<1>2. \/ Spoiled /\ ~Succeeded /\ Returned = Error("Request")
      \/ Sound /\ Succeeded
  BY <1>1, ReturnedIs DEF Unanswered, Unauthorized, Refused
<1>3. CASE Spoiled /\ ~Succeeded /\ Returned = Error("Request")
  BY <1>3 DEF SuccessIsDeserved, Spoiled
<1>4. CASE Sound /\ Succeeded
  <2>1. \A k \in DOMAIN content : ~Defective(content[k])
    BY <1>4, SuccessHas DEF Parsed
  <2> QED
    BY <1>4, <2>1 DEF SuccessIsDeserved, Sound
<1> QED
  BY <1>2, <1>3, <1>4

\* What map_error and parse_retry_after tell of a refusal (anthropic.rs:484-538)
LEMMA RefusalsAreExplained ==
    ASSUME ProviderTypeOK, PInv, answer # None, result # None,
           ~Success(answer[1].status)
    PROVE  RefusalIsExplained(answer[1].status, answer[1].retry_after)
<1> DEFINE status == answer[1].status
           header == answer[1].retry_after
<1>1. api_key # ""
  BY DEF PInv, Phases
<1>2. Refused /\ ~Succeeded /\ Returned = MapError(status, header)
  BY <1>1, ReturnedIs DEF Unanswered, Unauthorized, Spoiled, Sound
<1>3. content = <<>>
  BY <1>2 DEF Refused
<1>4. header \in RetryAfter
  <2>1. answer[1] \in [status : Statuses, retry_after : RetryAfters, body : Bodies]
    BY DEF ProviderTypeOK, Option
  <2> QED
    BY <2>1, ProviderAssumption
<1> HIDE DEF status, header
<1>5. \A kind : Error(kind).error = kind
  BY DEF Error
<1>6. /\ Returned.error = "Auth" <=> status = 401
      /\ Returned.error = "ModelNotFound" <=> status = 404
      /\ Returned.error = "Unavailable" <=> status \in {500, 502, 503, 504, 529}
      /\ Returned.error = "RateLimited" <=> status = 429
  <2> DEFINE limited == [error |-> "RateLimited", retry_after_ms |-> ParseRetryAfter(header)]
  <2>1. limited.error = "RateLimited"
    OBVIOUS
  <2>2. /\ status = 401 => Returned = Error("Auth")
        /\ status = 429 => Returned = limited
        /\ status = 404 => Returned = Error("ModelNotFound")
        /\ status \in {500, 502, 503, 504, 529} => Returned = Error("Unavailable")
        /\ status \notin {401, 429, 404, 500, 502, 503, 504, 529} =>
             Returned = Error("Request")
    BY <1>2 DEF MapError
  <2> HIDE DEF limited
  <2> QED
    BY <1>5, <2>1, <2>2
<1>7. ASSUME status = 429
      PROVE  IF header.form \in {"none", "not_finite", "garbage"} \/ header.us < 0
             THEN Returned.retry_after_ms = None
             ELSE \E d \in 0..MaxMs :
                     /\ Returned.retry_after_ms = <<d>>
                     /\ 1000 * d <= header.us
                     /\ d < MaxMs => header.us < 1000 * (d + 1)
  <2>1. Returned.retry_after_ms = ParseRetryAfter(header)
    BY <1>2, <1>7 DEF MapError
  <2>2. ~IsDelay(header) <=> header.form \in {"none", "not_finite", "garbage"} \/ header.us < 0
    BY <1>4 DEF IsDelay, RetryAfter
  <2>3. CASE ~IsDelay(header)
    BY <2>1, <2>2, <2>3 DEF ParseRetryAfter
  <2>4. CASE IsDelay(header)
    BY <1>4, <2>1, <2>2, <2>4, DelayIsExact
  <2> QED
    BY <2>3, <2>4
<1> QED
  BY <1>2, <1>3, <1>6, <1>7 DEF RefusalIsExplained, status, header

LEMMA FailureHasAReason == ProviderTypeOK /\ PInv => CompleteFailsForAReason
<1> SUFFICES ASSUME ProviderTypeOK, PInv PROVE CompleteFailsForAReason
  OBVIOUS
<1>1. api_key = "" => Returned = Error("Auth") /\ pc = "building"
  <2> SUFFICES ASSUME api_key = "" PROVE Returned = Error("Auth") /\ pc = "building"
    OBVIOUS
  <2>1. pc = "building" /\ result = <<Error("Auth")>>
    BY DEF PInv, Phases
  <2>2. result # None
    BY <2>1 DEF None
  <2> QED
    BY <2>1, <2>2 DEF Returned
<1>2. ASSUME api_key # "", result # None, answer = None
      PROVE  Returned = Error("Request")
  BY <1>2, ReturnedIs DEF Unauthorized, Refused, Spoiled, Sound
<1>3. ASSUME answer # None, result # None
      PROVE  IF Success(answer[1].status) THEN SuccessIsDeserved
             ELSE RefusalIsExplained(answer[1].status, answer[1].retry_after)
  BY <1>3, SuccessesAreDeserved, RefusalsAreExplained
<1>4. ASSUME NEW k \in DOMAIN content, Defective(content[k])
      PROVE  k = Len(content) /\ result # None
  <2>1. k = Len(content) /\ result = <<Error("Request")>>
    BY <1>4 DEF PInv, AllButLastSound
  <2> QED
    BY <2>1 DEF None
<1> QED
  BY <1>1, <1>2, <1>3, <1>4, Zenon DEF CompleteFailsForAReason

\* The joined text is empty exactly if no text block of the answer has words
\* (anthropic.rs:371-374, 419-430).
LEMMA NoWords ==
    ASSUME ProviderTypeOK, Parsed
    PROVE  TextIsEmpty(text_parts)
           <=> \A k \in DOMAIN content :
                  content[k].type = "text" => content[k].text # "words"
<1> DEFINE n == Len(content)
           S == {k \in DOMAIN content : /\ content[k].type = "text"
                                        /\ content[k].text # "missing"}
           in == InOrder(S, n)
<1>1. /\ n \in Nat /\ DOMAIN content = 1..n
      /\ \A k \in 1..n : content[k].text \in {"missing", "empty", "words"}
  <2>1. content \in Seq(RawBlock)
    BY ProviderAssumption DEF ProviderTypeOK
  <2>2. \A b \in RawBlock : b.text \in {"missing", "empty", "words"}
    BY DEF RawBlock
  <2> QED
    BY <2>1, <2>2
<1>2. text_parts = in
  BY DEF Parsed, Texts
<1>3. S \subseteq 1..n
  BY <1>1
<1>4. /\ in \in Seq(Nat)
      /\ \A j \in 1..Len(in) : in[j] \in S \cap 1..n
      /\ \A k \in S \cap 1..n : \E j \in 1..Len(in) : in[j] = k
  <2> HIDE DEF S, n
  <2> QED
    BY <1>1, InOrderMembers
<1> HIDE DEF in, n
<1>5. DOMAIN in = 1..Len(in)
  BY <1>4
<1>6. TextIsEmpty(text_parts) <=> \A j \in 1..Len(in) : content[in[j]].text = "empty"
  BY <1>2, <1>5 DEF TextIsEmpty
<1>7. \A k : k \in S <=> /\ k \in 1..n /\ content[k].type = "text"
                         /\ content[k].text # "missing"
  BY <1>1
<1> HIDE DEF S
<1>8. ASSUME \A j \in 1..Len(in) : content[in[j]].text = "empty",
             NEW k \in 1..n, content[k].type = "text"
      PROVE  content[k].text # "words"
  <2>1. CASE k \in S
    <3>1. PICK j \in 1..Len(in) : in[j] = k
      BY <1>4, <2>1
    <3> QED
      BY <1>8, <3>1
  <2>2. CASE k \notin S
    BY <1>7, <1>8, <2>2
  <2> QED
    BY <2>1, <2>2
<1>9. ASSUME \A k \in 1..n : content[k].type = "text" => content[k].text # "words",
             NEW j \in 1..Len(in)
      PROVE  content[in[j]].text = "empty"
  <2>1. in[j] \in S
    BY <1>4
  <2>2. /\ in[j] \in 1..n /\ content[in[j]].type = "text"
        /\ content[in[j]].text # "missing"
    BY <1>7, <2>1
  <2> QED
    BY <1>1, <1>9, <2>2
<1> QED
  BY <1>1, <1>6, <1>8, <1>9

LEMMA ReplayKeepsCalls == ProviderTypeOK /\ PInv => CallsSurviveReplay
<1> SUFFICES ASSUME ProviderTypeOK, PInv, Succeeded, Returned.calls # <<>>
             PROVE  CallsSurviveReplay
  BY DEF CallsSurviveReplay
<1> DEFINE turn == AssistantWithToolCalls(Returned)
           args == [n \in DOMAIN tool_calls |-> tool_calls[n].arguments]
           blocks == AssistantBlocks(turn, 1)
           t == Len(tool_calls)
<1>1. /\ Parsed /\ Returned.calls = tool_calls
      /\ Returned.text = IF tool_calls # <<>> /\ text_parts = <<>>
                         THEN None ELSE <<text_parts>>
  BY SuccessHas
<1>2. tool_calls \in Seq(ToolCall) /\ tool_calls # <<>>
  BY <1>1 DEF ProviderTypeOK
<1>3. t \in Nat /\ DOMAIN tool_calls = 1..t
  BY <1>2
<1>4. \A n \in 1..t : tool_calls[n].arguments = "json"
  BY <1>3 DEF PInv
<1> HIDE DEF t
<1>5. /\ args \in Seq(Arguments) /\ Len(args) = t /\ DOMAIN args = 1..t
      /\ args # <<>> /\ \A n \in 1..t : args[n] = "json"
  <2>1. args = [n \in 1..t |-> tool_calls[n].arguments]
    BY <1>3
  <2>2. \A n \in 1..t : tool_calls[n].arguments \in Arguments
    BY <1>4 DEF Arguments
  <2>3. t # 0
    BY <1>2 DEF t
  <2> HIDE DEF args
  <2>4. args \in Seq(Arguments) /\ Len(args) = t /\ DOMAIN args = 1..t
    BY <1>3, <2>1, <2>2
  <2>5. args # <<>>
    BY <2>3, <2>4
  <2> QED
    BY <1>4, <2>1, <2>4, <2>5
<1>6. /\ turn.role = "Assistant" /\ turn.tool_calls = <<args>>
      /\ turn.empty <=> Returned.text = None \/ TextIsEmpty(Returned.text[1])
  BY <1>1 DEF AssistantWithToolCalls
<1> HIDE DEF turn, args
<1>7. turn.tool_calls[1] = args
  BY <1>6
<1>8. HasCalls(turn)
  BY <1>5, <1>6, <1>7 DEF HasCalls, None
<1>9. ~Misplaced(turn)
  BY <1>6 DEF Misplaced
<1>10. \A n \in DOMAIN turn.tool_calls[1] : turn.tool_calls[1][n] = "json"
  BY <1>5, <1>7
<1>11. PICK first \in {0, 1} : first = IF turn.empty THEN 0 ELSE 1
  OBVIOUS
<1>12. /\ Len(blocks) = first + t /\ DOMAIN blocks = 1..(first + t)
       /\ \A b \in 1..(first + t) :
            blocks[b] = IF b <= first THEN Text(1) ELSE ToolUse(1, b - first)
  <2>1. turn.tool_calls[1] \in Seq(Arguments) /\ Len(turn.tool_calls[1]) = t
    BY <1>5, <1>7
  <2> QED
    BY <1>8, <1>11, <2>1, AssistantBlocksAre
<1>13. turn.empty <=> \A k \in DOMAIN content :
                         content[k].type = "text" => content[k].text # "words"
  <2>1. turn.empty <=> TextIsEmpty(text_parts)
    <3>1. CASE text_parts = <<>>
      <4>1. TextIsEmpty(text_parts)
        BY <3>1 DEF TextIsEmpty
      <4> QED
        BY <1>1, <1>2, <1>6, <3>1, <4>1
    <3>2. CASE text_parts # <<>>
      <4>1. Returned.text = <<text_parts>>
        BY <1>1, <3>2
      <4>2. Returned.text # None /\ Returned.text[1] = text_parts
        BY <4>1 DEF None
      <4> QED
        BY <1>6, <4>2
    <3> QED
      BY <3>1, <3>2
  <2> QED
    BY <1>1, <2>1, NoWords
<1>14. Len(Returned.calls) = t
  BY <1>1 DEF t
<1> HIDE DEF blocks
<1>15. first = IF turn.empty THEN 0 ELSE 1
  BY <1>11
<1> QED
  BY <1>9, <1>10, <1>12, <1>13, <1>14, <1>15 DEF CallsSurviveReplay, turn, blocks

\* The invariant of the provider, with the invariants of its request.
ProviderInv == IInv /\ VInv /\ FInv /\ ProviderTypeOK /\ PInv

LEMMA ProviderInvariant == ProviderSpec => []ProviderInv
<1>1. ProviderInit => ProviderInv
  <2>1. Init => IInv /\ VInv /\ FInv
    BY IInvInit, FInvInit DEF Init, VInv, VerdictIsTheFirstError, Kept, Spoken
  <2> QED
    BY <2>1, PInvInit DEF ProviderInit, ProviderInv
<1>2. ProviderInv /\ [ProviderNext]_allVars => ProviderInv'
  <2>1. [ProviderNext]_allVars => [Next]_vars
    BY ProviderStepsAreRequestSteps
  <2> QED
    BY <2>1, IInvNext, VInvNext, FInvNext, PInvNext DEF ProviderInv
<1> QED
  BY <1>1, <1>2, PTL DEF ProviderSpec

\* What complete keeps of a call has its type, whatever the server answers
\* (anthropic.rs:105-133, 484-538).
THEOREM ProviderTypeCorrect == ProviderSpec => []ProviderTypeOK
<1>1. ProviderInv => ProviderTypeOK
  BY DEF ProviderInv
<1> QED
  BY <1>1, ProviderInvariant, PTL

\* Inside complete a request is what build_api_request promises: nothing lost,
\* runs of one side, and the first error as the verdict
\* (anthropic.rs:105-108, 231-337).
THEOREM ProviderRequestsAreRight ==
    ProviderSpec => [](/\ RolesAlternate /\ NothingIsLost
                       /\ MessagesAreRuns /\ VerdictIsTheFirstError)
<1>1. ProviderInv => /\ RolesAlternate /\ NothingIsLost
                     /\ MessagesAreRuns /\ VerdictIsTheFirstError
  BY RInvMeansRuns DEF ProviderInv, IInv, VInv, FInv
<1> QED
  BY <1>1, ProviderInvariant, PTL

\* Of an answer of any length every text and every call is in the response, in
\* order (anthropic.rs:364-432).
THEOREM RepliesAreComplete == ProviderSpec => []ReplyIsComplete
<1>1. ProviderInv => ReplyIsComplete
  BY SuccessIsComplete DEF ProviderInv
<1> QED
  BY <1>1, ProviderInvariant, PTL

\* complete succeeds exactly if all is in order, and otherwise fails with the
\* error its status calls for, a 429 with the delay of its header, cut to whole
\* milliseconds and to u64; for every key, request, status and header
\* (anthropic.rs:33-39, 78-89, 105-133, 484-538).
THEOREM CompleteAlwaysFailsForAReason == ProviderSpec => []CompleteFailsForAReason
<1>1. ProviderInv => CompleteFailsForAReason
  BY FailureHasAReason DEF ProviderInv
<1> QED
  BY <1>1, ProviderInvariant, PTL

\* A response with calls can be replayed, however many calls it has and
\* whatever stands between them (provider/types.rs:155-175,
\* anthropic.rs:263-289).
THEOREM CallsAlwaysSurviveReplay == ProviderSpec => []CallsSurviveReplay
<1>1. ProviderInv => CallsSurviveReplay
  BY ReplayKeepsCalls DEF ProviderInv
<1> QED
  BY <1>1, ProviderInvariant, PTL
=============================================================================
