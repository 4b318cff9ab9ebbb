CONSTANTS
    unit = unit
    o1 = o1
    o2 = o2
    t1 = t1
    t2 = t2
    Bad = Bad
    NoMessage = NoMessage
    MaxFrames = 2
    Base = 3
    MaxInlineVarlens = 4
    Capacity = 3
    Sessions <- MCSessions
    Odids <- MCOdids
    TemplateIds <- MCTemplateIds
    ScopeCounts <- MCScopeCounts
    FieldLists <- MCFieldLists
    Width <- MCWidth
    Frames <- ReverseFrames
SPECIFICATION JsonSpec
CHECK_DEADLOCK FALSE
INVARIANTS
    ShownAreIana
