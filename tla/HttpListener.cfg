\* One connection under the fairness of the runtime: two retries, a channel of
\* two, two events, a send, and disconnects that contend for the session id.
SPECIFICATION FairSpec
CONSTANTS
    MaxRetries = 2
    RecvBuffer = 2
    Sids = {s1}
    Sends = {p1}
    MaxConnects = 1
    MaxEvents = 2
INVARIANTS
    TypeOK
    ChannelIsFIFO
    GivesUpWhenExhausted
PROPERTIES
    ImplementsContract
    ForwardedIsReceived
    ListenerConnectsOrStops
    EndIsReported
    DisconnectConcludes
CHECK_DEADLOCK FALSE
