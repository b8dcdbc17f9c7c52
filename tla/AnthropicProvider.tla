------------------------- MODULE AnthropicProvider --------------------------
(***************************************************************************)
(* AnthropicProvider::complete (src/provider/anthropic.rs): the request of *)
(* AnthropicRequest is posted, the answer is mapped to an error or parsed, *)
(* and what it says can be replayed in a later request.                    *)
(*                                                                         *)
(* As with the request, the answer's content is not fixed in advance: each *)
(* turn of the loop over resp.content takes any block.  A text or a call   *)
(* is told apart by the position of its block; a Retry-After value by what *)
(* f64 parsing and the date parser make of it, in whole microseconds; a    *)
(* body by whether it has the shape it is parsed for, and its stop_reason. *)
(***************************************************************************)
EXTENDS AnthropicRequest, Positions

CONSTANTS
    Keys,           \* the texts an API key is made from: "" or not
    Statuses,       \* HTTP status codes the server answers with
    RetryAfters,    \* Retry-After headers, or their absence
    MaxMs,          \* u64::MAX, where a delay in milliseconds saturates
    Blocks,         \* the content blocks of an answer considered
    MaxBlocks       \* bound: content blocks of an answer

\* A raw block: its type and its fields.  A text field may be missing or be
\* the empty string; a field of another JSON type counts as missing.
RawBlock == [type : {"text", "tool_use", "other"},
             text : {"missing", "empty", "words"},
             id : BOOLEAN, name : BOOLEAN, input : BOOLEAN]

\* delay-seconds, seconds that are no number (inf, NaN), a date by its
\* distance from now, which no date takes near MaxMs, and anything else.
RetryAfter ==
    [form : {"seconds"}, us : Int]
        \cup [form : {"date"}, us : {us \in Int : us \div 1000 <= MaxMs}]
        \cup [form : {"none", "not_finite", "garbage"}]

StopReasons == {"end_turn", "max_tokens", "tool_use", "stop_sequence"}

\* The body of a success: an ApiResponse by its stop_reason, or garbage.  What
\* an error's body says is read for its message only.
Bodies == StopReasons \cup {"unknown", "missing", "garbage"}

ASSUME ProviderAssumption ==
    /\ Statuses \subseteq Nat
    /\ MaxMs \in Nat
    /\ MaxBlocks \in Nat
    /\ Blocks \subseteq RawBlock
    /\ RetryAfters \subseteq RetryAfter

VARIABLES
    api_key,        \* what ApiKey::new was given
    answer,         \* its status, Retry-After and body, None before it
    content,        \* the blocks the loop has taken
    text_parts,     \* positions of the texts kept
    tool_calls,     \* the ToolCalls kept
    result          \* what complete returned, None before

replyVars == <<api_key, answer, content, text_parts, tool_calls, result>>
allVars == <<vars, replyVars>>

\* ToolCall: the position of its block, and what its arguments parse as.
ToolCall == [block : Nat, arguments : Arguments]

\* ProviderError; ContextLength is never made here.
ProviderError ==
    [error : {"Auth", "ModelNotFound", "Unavailable", "Request"}]
        \cup [error : {"RateLimited"}, retry_after_ms : Option(Nat)]

\* ResponseContent: the texts joined, by position, and the calls, if any.
Response ==
    [calls : Seq(ToolCall), text : Option(Seq(Nat)), stop_reason : StopReasons]

-----------------------------------------------------------------------------
Success(status) == status \in 200..299

IsDelay(header) == header.form \in {"seconds", "date"} /\ header.us >= 0

\* parse_retry_after: None unless it is a delay, whose milliseconds are
\* truncated and saturate.  Not finite seconds, or negative ones, are not
\* tried as a date.
ParseRetryAfter(header) ==
    IF IsDelay(header)
    THEN LET ms == header.us \div 1000
         IN  <<IF ms > MaxMs THEN MaxMs ELSE ms>>
    ELSE None

Error(kind) == [error |-> kind]

\* map_error_response and map_error
MapError(status, header) ==
    CASE status = 401 -> Error("Auth")
      [] status = 429 -> [error |-> "RateLimited",
                          retry_after_ms |-> ParseRetryAfter(header)]
      [] status = 404 -> Error("ModelNotFound")
      [] status \in {500, 502, 503, 504, 529} -> Error("Unavailable")
      [] OTHER -> Error("Request")

\* ApiKey::new
ApiKey(key) == IF key = "" THEN <<Error("Auth")>> ELSE None

\* AnthropicProvider::new needs a key, and may fail to build its client:
\* either way there is no provider and nothing is sent.
ProviderInit ==
    /\ Init
    /\ api_key \in Keys
    /\ result \in IF api_key = "" THEN {ApiKey(api_key)}
                  ELSE {ApiKey(api_key), <<Error("Request")>>}
    /\ answer = None
    /\ content = <<>>
    /\ text_parts = <<>>
    /\ tool_calls = <<>>

-----------------------------------------------------------------------------
Building == result = None /\ Next /\ UNCHANGED replyVars

\* complete returns.
Return(value) ==
    /\ result' = <<value>>
    /\ UNCHANGED <<vars, api_key, answer, text_parts, tool_calls>>

\* build_api_request(request)? returned its error.
RefuseRequest ==
    /\ pc \in Errors
    /\ result = None
    /\ Return(Error("Request"))
    /\ UNCHANGED content

\* The POST fails: no connection, or one of the client's timeouts.
PostFails ==
    /\ pc = "sent" /\ answer = None /\ result = None
    /\ Return(Error("Request"))
    /\ UNCHANGED content

\* The server answers; a status that is not a success, or a body that is not
\* an ApiResponse, is complete's result at once.
ServerAnswers(status, header, body) ==
    /\ pc = "sent" /\ answer = None /\ result = None
    /\ answer' = <<[status |-> status, retry_after |-> header, body |-> body]>>
    /\ result' = IF ~Success(status) THEN <<MapError(status, header)>>
                 ELSE IF body = "garbage" THEN <<Error("Request")>>
                 ELSE None
    /\ UNCHANGED <<vars, api_key, content, text_parts, tool_calls>>

\* parse_api_response takes block b.
TakeBlock(b) ==
    /\ answer # None /\ result = None
    /\ Len(content) < MaxBlocks
    /\ content' = Append(content, b)

Here == Len(content) + 1

TakeText(b) ==
    /\ TakeBlock(b)
    /\ b.type = "text"
    /\ text_parts' = IF b.text = "missing" THEN text_parts
                     ELSE Append(text_parts, Here)
    /\ UNCHANGED <<vars, api_key, answer, tool_calls, result>>

\* Faulty Call, for CallsSurviveReplay.
CallWithoutDefault(b) ==
    [block |-> Here, arguments |-> IF b.input THEN "json" ELSE "malformed"]

\* A call without an input has the arguments {}.
Call(b) == [block |-> Here, arguments |-> "json"]

\* Faulty TakeToolUse, for ReplyIsComplete.
TakeToolUseDroppingText(b) ==
    /\ TakeBlock(b)
    /\ b.type = "tool_use" /\ b.id /\ b.name
    /\ tool_calls' = Append(tool_calls, Call(b))
    /\ text_parts' = <<>>
    /\ UNCHANGED <<vars, api_key, answer, result>>

TakeToolUse(b) ==
    /\ TakeBlock(b)
    /\ b.type = "tool_use" /\ b.id /\ b.name
    /\ tool_calls' = Append(tool_calls, Call(b))
    /\ UNCHANGED <<vars, api_key, answer, text_parts, result>>

\* Faulty TakeToolUseDefect, for CompleteFailsForAReason.
TakeToolUseSkipping(b) ==
    /\ TakeBlock(b)
    /\ b.type = "tool_use" /\ ~(b.id /\ b.name)
    /\ UNCHANGED <<vars, api_key, answer, text_parts, tool_calls, result>>

\* A call without an id or a name
TakeToolUseDefect(b) ==
    /\ TakeBlock(b)
    /\ b.type = "tool_use" /\ ~(b.id /\ b.name)
    /\ Return(Error("Request"))

\* Unknown block types are skipped.
TakeOther(b) ==
    /\ TakeBlock(b)
    /\ b.type = "other"
    /\ UNCHANGED <<vars, api_key, answer, text_parts, tool_calls, result>>

\* After the loop: calls take precedence over texts, which are joined, and a
\* stop_reason that is missing or unknown fails the response.
FinishResponse ==
    /\ answer # None /\ result = None
    /\ IF answer[1].body \in StopReasons
       THEN Return([calls |-> tool_calls,
                    text |-> IF tool_calls # <<>> /\ text_parts = <<>>
                             THEN None ELSE <<text_parts>>,
                    stop_reason |-> answer[1].body])
       ELSE Return(Error("Request"))
    /\ UNCHANGED content

Complete ==
    \/ RefuseRequest
    \/ PostFails
    \/ \E status \in Statuses, header \in RetryAfters, body \in Bodies :
          ServerAnswers(status, header, body)
    \/ \E b \in Blocks : \/ TakeText(b)
                         \/ TakeToolUse(b)
                         \/ TakeToolUseDefect(b)
                         \/ TakeOther(b)
    \/ FinishResponse

ProviderNext == Building \/ Complete

ProviderSpec == ProviderInit /\ [][ProviderNext]_allVars

-----------------------------------------------------------------------------
(* What becomes of a response.                                             *)

Returned == IF result = None THEN [error |-> "none"] ELSE result[1]
Succeeded == "calls" \in DOMAIN Returned

\* The joined text is empty: no part, or empty ones only.
TextIsEmpty(text) == \A k \in DOMAIN text : content[text[k]].text = "empty"

\* ChatMessage::assistant_with_tool_calls(text.unwrap_or_default(), calls)
AssistantWithToolCalls(response) ==
    [role |-> "Assistant",
     empty |-> response.text = None \/ TextIsEmpty(response.text[1]),
     has_id |-> FALSE,
     tool_calls |-> <<[n \in DOMAIN response.calls |-> response.calls[n].arguments]>>]

\* ProcessResult::from_response: the first call, or the text.  A response
\* with a ToolCalls of no call is never made here.
FromResponse(response) ==
    IF response.calls # <<>>
    THEN [kind |-> "tool_call", parts |-> <<response.calls[1].block>>]
    ELSE [kind |-> "response", parts |-> response.text[1]]

-----------------------------------------------------------------------------
ProviderTypeOK ==
    /\ TypeOK
    /\ api_key \in Keys
    /\ answer \in Option([status : Statuses, retry_after : RetryAfters,
                          body : Bodies])
    /\ content \in Seq(Blocks)
    /\ text_parts \in Seq(Nat)
    /\ tool_calls \in Seq(ToolCall)
    /\ result # None => result[1] \in ProviderError \cup Response

\* Positions of the answer's blocks of one type, and of those with a text, in
\* order.
Kind(type) == InOrder({k \in DOMAIN content : content[k].type = type}, Len(content))
Texts == InOrder({k \in DOMAIN content : /\ content[k].type = "text"
                                         /\ content[k].text # "missing"},
                 Len(content))

\* A response has every text and every call of the answer, in their orders,
\* wherever blocks of other kinds stand between them: text beside calls is
\* kept, and calls make it a tool-call response (anthropic.rs:364-432).
ReplyIsComplete ==
    Succeeded =>
        /\ [n \in DOMAIN Returned.calls |-> Returned.calls[n].block] = Kind("tool_use")
        /\ IF Returned.text = None THEN Texts = <<>> ELSE Returned.text[1] = Texts
        /\ LET processed == FromResponse(Returned) IN
           processed = IF Kind("tool_use") = <<>>
                       THEN [kind |-> "response", parts |-> Texts]
                       ELSE [kind |-> "tool_call", parts |-> <<Kind("tool_use")[1]>>]

Defective(b) == b.type = "tool_use" /\ ~(b.id /\ b.name)

\* What was answered with success succeeds exactly if all of it is in order:
\* its body parses, its stop_reason is known, and no block is defective.
SuccessIsDeserved ==
    /\ Succeeded <=> /\ answer[1].body \in StopReasons
                     /\ \A k \in DOMAIN content : ~Defective(content[k])
    /\ ~Succeeded => Returned = Error("Request")

\* A refusal tells the caller whether to try again, and when at the earliest:
\* the delay the server asked for, to the millisecond, as far as u64 goes.
RefusalIsExplained(status, header) ==
    /\ content = <<>> /\ ~Succeeded
    /\ Returned.error = "Auth" <=> status = 401
    /\ Returned.error = "ModelNotFound" <=> status = 404
    /\ Returned.error = "Unavailable" <=> status \in {500, 502, 503, 504, 529}
    /\ Returned.error = "RateLimited" <=> status = 429
    /\ status = 429 =>
         IF header.form \in {"none", "not_finite", "garbage"} \/ header.us < 0
         THEN Returned.retry_after_ms = None
         ELSE \E d \in 0..MaxMs :
                 /\ Returned.retry_after_ms = <<d>>
                 /\ 1000 * d <= header.us
                 /\ d < MaxMs => header.us < 1000 * (d + 1)

\* complete fails exactly for the first thing that goes wrong, and with the
\* error that calls for: without a key nothing is built or sent; without an
\* answer it is a failed request; an answer is a success, read up to its first
\* defective block, or a refusal (anthropic.rs:33-39, 78-89, 105-133, 484-538).
CompleteFailsForAReason ==
    /\ api_key = "" => Returned = Error("Auth") /\ pc = "building"
    /\ api_key # "" /\ result # None /\ answer = None => Returned = Error("Request")
    /\ answer # None /\ result # None =>
         LET status == answer[1].status IN
         IF Success(status) THEN SuccessIsDeserved
         ELSE RefusalIsExplained(status, answer[1].retry_after)
    /\ \A k \in DOMAIN content :
         Defective(content[k]) => k = Len(content) /\ result # None

\* Calls survive the way back: the turn made from a response is accepted by
\* build_api_request, and becomes its calls in their order, after its text if
\* that is not empty (provider/types.rs:155-175, anthropic.rs:263-289).
CallsSurviveReplay ==
    Succeeded /\ Returned.calls # <<>> =>
        LET turn == AssistantWithToolCalls(Returned)
            blocks == AssistantBlocks(turn, 1)
            first == IF turn.empty THEN 0 ELSE 1 IN
        /\ ~Misplaced(turn)
        /\ \A n \in DOMAIN turn.tool_calls[1] : turn.tool_calls[1][n] = "json"
        /\ Len(blocks) = first + Len(Returned.calls)
        /\ \A n \in DOMAIN blocks :
             blocks[n] = IF n <= first THEN Text(1) ELSE ToolUse(1, n - first)
        /\ turn.empty <=> \A k \in DOMAIN content :
                             content[k].type = "text" => content[k].text # "words"
=============================================================================
