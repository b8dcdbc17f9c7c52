\* An aborted listener that stores a session id after the disconnect.
SPECIFICATION Spec
CONSTANTS
    MaxRetries = 1
    RecvBuffer = 1
    Sids = {s1}
    Sends = {}
    MaxConnects = 1
    MaxEvents = 1
INVARIANTS
    DisconnectForgetsTheSession
CHECK_DEADLOCK FALSE
