\* Every log of six lines or resets, against the reference parser.
SPECIFICATION Spec
CONSTANTS
    Values = {0, 2}
    Limits = {1, 3}
    MaxFed = 6
INVARIANTS
    TypeOK
    AccumulationIsBounded
    EventsAreSegments
    AcceptanceIsByJoinedLength
    FieldsAreTheLatest
CHECK_DEADLOCK FALSE
