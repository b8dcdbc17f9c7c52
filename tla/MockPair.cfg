\* Two ends, channels of two, up to three sends and one waiting recv at each.
SPECIFICATION FairSpec
CONSTANTS
    Capacity = 2
    MaxSends = 3
    MaxRecvs = 1
PROPERTIES
    ImplementsContract
    WaitersAreReleased
\* Both ends may be dropped.
CHECK_DEADLOCK FALSE
