CONSTANTS
    s1 = s1
    s2 = s2
    o1 = o1
    o2 = o2
    t1 = t1
    t2 = t2
    fieldsA = fieldsA
    fieldsB = fieldsB
    Sessions <- MCSessions
    Odids <- MCOdids
    TemplateIds <- MCTemplateIds
    ScopeCounts <- MCScopeCounts
    FieldLists <- MCFieldLists
    Capacity = 3
SYMMETRY Symmetry
SPECIFICATION Spec
INVARIANTS
    TypeOK
    ListMatchesTable
    CapacityRespected
    EntriesKeepTheirId
    AcceptedIsVisible
    SessionIsGone
PROPERTIES
    NoRedefinition
    EvictionIsReported
    OnlyRefreshesReorder
    ImplementsCache
