\* A field before a blank line that completes nothing.
SPECIFICATION Spec
CONSTANTS
    Values = {0, 2}
    Limits = {1, 3, 5}
    MaxFed = 5
INVARIANTS
    FieldsAreOfOneSegment
CHECK_DEADLOCK FALSE
