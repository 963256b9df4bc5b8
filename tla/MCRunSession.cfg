SPECIFICATION FairSpec
CONSTANTS
    Tables <- MCTables
    Plans <- MCPlans
    PoolReaders = {"reader1", "reader2"}
    TableWorkers = 2
    NoVersion = NoVersion
    MaxChanges = 2
    MaxInterrupts = 2
INVARIANTS TypeOK OneSnapshot FinishesAlone AllReleased SuccessIsEarned
PROPERTY EndsUnlessStuck
CHECK_DEADLOCK FALSE
