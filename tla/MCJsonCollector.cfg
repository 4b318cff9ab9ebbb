CONSTANTS
    unit = unit
    o1 = o1
    o2 = o2
    t1 = t1
    t2 = t2
    Bad = Bad
    NoMessage = NoMessage
    MaxFrames = 3
    Base = 3
    MaxInlineVarlens = 4
    Capacity = 3
    Sessions <- MCSessions
    Odids <- MCOdids
    TemplateIds <- MCTemplateIds
    ScopeCounts <- MCScopeCounts
    FieldLists <- MCFieldLists
    Width <- MCWidth
    Frames <- MCFrames
SPECIFICATION JsonSpec
CHECK_DEADLOCK FALSE
INVARIANTS
    JsonTypeOK
    OutputAsCaptured
PROPERTIES
    JsonTerminates
