\* recv after a disconnect whose future was dropped.
SPECIFICATION Spec
CONSTANTS
    MaxRetries = 1
    RecvBuffer = 1
    Sids = {}
    Sends = {}
    MaxConnects = 1
    MaxEvents = 1
INVARIANTS
    ClosedMeansDrained
CHECK_DEADLOCK FALSE
