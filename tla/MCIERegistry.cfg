CONSTANTS
    MaxText = 5
    MaxRows = 3
    Quote = "'"
    Comma = ","
    CR = "CR"
    LF = "LF"
    Space = " "
    Texts <- MCTexts
    ElementId <- MCElementId
    DataTypes <- MCDataTypes
    Semantics <- MCSemantics
    Current <- MCCurrent
    Upper <- MCUpper
    NumberWord <- MCNumberWord
    Probes <- MCProbes
SPECIFICATION IESpec
INVARIANTS
    IETypeOK
    ParsedAsQuoted
    RegistryIsSorted
    SearchIsExact
    LookupFindsTheRow
    ConstantsAreDistinct
