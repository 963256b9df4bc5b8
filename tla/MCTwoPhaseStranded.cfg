SPECIFICATION FairSpec
CONSTANTS
    w1 = w1
    w2 = w2
    a = a
    b = b
    i1 = i1
    i2 = i2
    i3 = i3
    i4 = i4
    Workers <- MCWorkers
    Ids <- MCIds
    Keys = {a, b}
    Free = Free
    Absent = Absent
    Layouts <- AllLayouts
    MayFail = TRUE
    MayFailToConnect = TRUE
PROPERTY CopyEnds
CHECK_DEADLOCK FALSE
