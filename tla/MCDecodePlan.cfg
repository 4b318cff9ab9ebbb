CONSTANTS
    a = a
    b = b
    c = c
    Elements <- MCElements
    OctetElements <- MCOctetElements
    VariableLength = 99
    MaxU32 = 9
    MaxU16 = 2
    Templates <- MCTemplates
    MappingLists <- MCMappingLists
SPECIFICATION Spec
CHECK_DEADLOCK FALSE
INVARIANTS
    TypeOK
    OpsStayInBounds
    DecodesFieldByField
    PlanFitsTemplate
