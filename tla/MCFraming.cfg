CONSTANTS
    Messages <- MCMessages
    Garbage <- MCGarbage
    MaxFields = 2
SPECIFICATION Spec
CHECK_DEADLOCK FALSE
INVARIANTS
    TypeOK
    ReturnedAsSent
    IntactSetsAreReturned
PROPERTIES
    ErrorsAreFinal
    Terminates
