CONSTANTS
    Base = 3
    MaxInlineVarlens = 2
    FieldLengths <- MCFieldLengths
    MaxFields = 3
    MaxBytes = 5
SPECIFICATION Spec
CHECK_DEADLOCK FALSE
INVARIANTS
    EmptySliceYieldsNone
