CONSTANTS
    s1 = s1
    s2 = s2
    s3 = s3
    o1 = o1
    t1 = t1
    t2 = t2
    fieldsA = fieldsA
    Sessions <- MCSessions
    Odids <- MCOdids
    TemplateIds <- MCTemplateIds
    ScopeCounts <- MCScopeCounts
    FieldLists <- MCFieldLists
    Capacity = 3
SYMMETRY Symmetry
VIEW HistoryView
SPECIFICATION RetentionSpec
INVARIANTS
    ActiveTemplatesSurvive
    ListFollowsRefreshes
