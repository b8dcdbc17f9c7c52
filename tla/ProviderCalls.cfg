\* Requests of up to four messages, answers of up to four blocks.
SPECIFICATION ProviderSpec
CONSTANTS
    Inputs <- SomeMessages
    ToolLists <- SomeToolLists
    MaxMessages = 4
    Keys = {"", "key"}
    Statuses <- SomeStatuses
    RetryAfters <- SomeRetryAfters
    MaxMs = 3
    Blocks <- SomeBlocks
    MaxBlocks = 4
INVARIANTS
    ProviderTypeOK
    RolesAlternate
    NothingIsLost
    MessagesAreRuns
    VerdictIsTheFirstError
    ReplyIsComplete
    CompleteFailsForAReason
    CallsSurviveReplay
\* complete has returned.
CHECK_DEADLOCK FALSE
