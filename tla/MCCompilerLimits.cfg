SPECIFICATION Spec
CONSTANTS
    NULL = NULL
    NoRow = NoRow
    Relations <- SmallRelations
    Tables <- SmallTables
    ColumnTypes <- SmallTypes
    KeyOrder <- SmallKeys
    FirstSentinel = 10
    SafeBound = 3
    DefaultSchema = "public"
    ScopeName <- SmallScopes
    Configured <- SmallConfigured
    ImportGraphs <- SmallGraphs
    ProjectSet <- SmallProjects
    Topics = {"limits"}
INVARIANT LimitsSliceRows
CHECK_DEADLOCK FALSE
