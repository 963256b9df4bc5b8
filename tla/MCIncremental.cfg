SPECIFICATION Spec
CONSTANTS
    Tables <- MCTables
    Fks <- MCFks
    fk_table <- MCFkTable
    target_table <- MCTargetTable
    DependencyBreaks = {}
    Opportunists = {}
    InitialTargetTables = {"order"}
    PassthroughTables = {}
    Rows <- MCRows
    table_of <- MCTableOf
    Selections <- SelectAny
    Filtered = {}
    KeepDisconnected = FALSE
    MaxRows = Unlimited
    SourcePool = FALSE
    BigTables = {}
    TableWorkers = 4
    Modes = {"recreate", "topup", "grow"}
    InitialSources <- FullDatabases
    MaxRuns = 3
    MaxChanges = 1
    Null = Null
    Absent = Absent
    Unlimited = Unlimited
INVARIANTS TypeOK ReferentiallyClosed NoDuplicateCopies UpstreamComplete UpstreamSound TopupComplete DeltaTracksInserts
PROPERTY OnlyNeededParents
CHECK_DEADLOCK FALSE
