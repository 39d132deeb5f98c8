SPECIFICATION Spec
CONSTANTS
    PageSize = 112
    MaxInt = 4
    Rels <- MCRels
    Desc <- MCDesc
    Sessions = {"own", "other"}
    Indexed <- MCIndexed
    NotNull <- MCNotNull
    InitRows <- MCInit
    Rows <- MCRows
    Xids <- MCXids
    Foreign <- MCForeign
    Statements <- MCStatements
    MaxStatements = 2
    MaxForeign = 1
    MaxCrashes = 1
    MaxRescans = 1
    MaxWork = 4
CHECK_DEADLOCK FALSE
INVARIANTS PagesAreSound RowsStay EffectIsExact ResultIsExact PageOpsKeepItems
PROPERTY ImplementsHeap
