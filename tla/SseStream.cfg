\* Bodies of up to seven bytes, lines of three, events of three.
SPECIFICATION StreamSpec
CONSTANTS
    Values = {0, 1}
    Limits = {3}
    MaxFed = 9
    MaxLineBytes = 3
    MaxReceived = 7
INVARIANTS
    LinesAreSplit
    LinesAreBounded
    ItemsAreEvents
\* run_sse_stream has returned.
CHECK_DEADLOCK FALSE
