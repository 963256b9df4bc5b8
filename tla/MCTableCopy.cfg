SPECIFICATION FairSpec
CONSTANTS
    Null = Null
    PartNull = PartNull
    Nulls = {Null, PartNull}
    NoPlan = NoPlan
    Unlimited = Unlimited
    BatchSize = 2
    MinPages = 1
    MayFail = TRUE
    Layouts <- AllLayouts
INVARIANTS TypeOK CopiedOnce OneJobPerConnection OpenWhileInUse
PROPERTIES CopyTableEnds MergesTable
