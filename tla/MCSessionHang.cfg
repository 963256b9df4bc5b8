SPECIFICATION FairSpec
CONSTANTS
    Tables <- MCTables
    Plans <- MCPlans
    PoolReaders = {"reader1", "reader2"}
    TableWorkers = 2
    NoVersion = NoVersion
    MaxChanges = 0
    MaxInterrupts = 0
PROPERTY RunEnds
CHECK_DEADLOCK FALSE
