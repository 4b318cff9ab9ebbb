CONSTANTS
    e1 = e1
    e2 = e2
    e3 = e3
    h1 = h1
    h2 = h2
    o1 = o1
    o2 = o2
    t1 = t1
    t2 = t2
    fixed = fixed
    variable = variable
    empty = empty
    Bad = Bad
    Exporters <- MCExporters
    Sessions <- MCSessions
    Odids <- MCOdids
    TemplateIds <- MCTemplateIds
    ScopeCounts <- MCScopeCounts
    FieldLists <- MCFieldLists
    Address <- MCAddress
    Domain <- MCDomain
    FirstUse <- MCFirstUse
    LaterUse <- MCLaterUse
    MinSize <- MCMinSize
    Variable <- MCVariable
    DataSizes <- MCDataSizes
    Capacity = 2
    MaxSets = 2
SPECIFICATION CollectorSpec
CHECK_DEADLOCK FALSE
INVARIANTS
    CollectorTypeOK
    DecodedAsExported
    KnownDataIsDecoded
PROPERTIES
    ArrivedIsServed
    BackToTheSocket
