SPECIFICATION FairSpec
CONSTANTS
    Tables <- MCTables
    Fks <- MCFks
    fk_table <- MCFkTable
    target_table <- MCTargetTable
    DependencyBreaks <- MCBreaks
    Opportunists = {}
    InitialTargetTables <- MCTargets
    PassthroughTables = {"country"}
    Rows <- MCRows
    table_of <- MCTableOf
    Selections <- MCSelections
    Filtered = {}
    KeepDisconnected = TRUE
    MaxRows = Unlimited
    SourcePool = TRUE
    BigTables = {"line"}
    TableWorkers = 2
    Modes = {"recreate", "topup", "grow"}
    InitialSources <- MCSources
    MaxRuns = 3
    MaxChanges = 1
    Null = Null
    Absent = Absent
    Unlimited = Unlimited
INVARIANTS ReferentiallyClosed NoDuplicateCopies UpstreamSound FrozenEntities ReReadRowsFresh
PROPERTY RunsEnd
CHECK_DEADLOCK FALSE
