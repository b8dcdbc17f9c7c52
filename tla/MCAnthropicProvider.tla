------------------------ MODULE MCAnthropicProvider ------------------------
(* An instance of AnthropicProvider for TLC: messages of every role, with   *)
(* and without what makes one wrong; statuses of every kind map_error tells *)
(* apart; every form of Retry-After; blocks with and without each field.    *)
EXTENDS AnthropicProvider

Message(role, empty, has_id, calls) ==
    [role |-> role, empty |-> empty, has_id |-> has_id, tool_calls |-> calls]

Plain(role) == Message(role, FALSE, FALSE, None)

SomeMessages ==
    {Plain("System"), Plain("User"), Plain("Tool"),
     Message("Tool", FALSE, TRUE, None)}
    \cup {Message(role, FALSE, TRUE, <<<<>>>>) : role \in Roles}
    \cup {Message("Assistant", empty, FALSE, calls) :
            empty \in BOOLEAN,
            calls \in Option({<<"json">>, <<"json", "json">>,
                              <<"json", "malformed">>})}

SomeToolLists == {None, <<<<"json">>>>, <<<<"json", "malformed">>>>}

SomeStatuses == {200, 400, 401, 404, 429, 503, 529}

SomeRetryAfters ==
    [form : {"seconds"}, us : {-1, 0, 1500, 9000}]
        \cup [form : {"date"}, us : {-1, 1500}]
        \cup [form : {"none", "not_finite", "garbage"}]

Raw(type, text, id, name, input) ==
    [type |-> type, text |-> text, id |-> id, name |-> name, input |-> input]

SomeBlocks ==
    {Raw("text", text, FALSE, FALSE, FALSE) : text \in {"missing", "empty", "words"}}
    \cup {Raw("tool_use", "missing", id, name, TRUE) : id, name \in BOOLEAN}
    \cup {Raw("tool_use", "missing", TRUE, TRUE, FALSE),
          Raw("other", "words", FALSE, FALSE, FALSE)}
=============================================================================
