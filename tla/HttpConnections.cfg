\* Two connections: listeners of the first may still run beside the second.
SPECIFICATION Spec
CONSTANTS
    MaxRetries = 1
    RecvBuffer = 1
    Sids = {s1}
    Sends = {p1}
    MaxConnects = 2
    MaxEvents = 1
INVARIANTS
    OnlyTheCurrentListenerFeeds
PROPERTIES
    AbortedListenersWindDown
    SessionSurvivesUntilDisconnect
CHECK_DEADLOCK FALSE
