CONSTANTS
    Base = 2
    MaxInlineVarlens = 2
    FieldLengths <- MCWideFieldLengths
    MaxFields = 3
    MaxBytes = 7
SPECIFICATION Spec
CHECK_DEADLOCK FALSE
INVARIANTS
    AllFixedIsFixed
