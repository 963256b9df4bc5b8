SPECIFICATION Spec
CONSTANTS
    Tables <- MCTables
    Fks <- MCFks
    fk_table <- MCFkTable
    target_table <- MCTargetTable
    DependencyBreaks <- MCBreaks
    Opportunists = {}
    InitialTargetTables <- MCTargets
    PassthroughTables = {"country"}
    Rows <- MCRows
    table_of <- MCTableOf
    Selections <- MCSelections
    Filtered = {}
    KeepDisconnected = TRUE
    MaxRows = Unlimited
    SourcePool = FALSE
    BigTables = {}
    TableWorkers = 2
    Modes = {"recreate", "topup", "grow"}
    InitialSources <- FewSources
    MaxRuns = 3
    MaxChanges = 1
    Null = Null
    Absent = Absent
    Unlimited = Unlimited
INVARIANT FollowsDirectTargetsOnly
CHECK_DEADLOCK FALSE
