SPECIFICATION Spec
CONSTANTS
    Null = Null
    PartNull = PartNull
    Nulls = {Null, PartNull}
    NoPlan = NoPlan
    Unlimited = Unlimited
    BatchSize = 2
    MinPages = 1
    MayFail = TRUE
    Layouts <- OrLayouts
INVARIANT ConditionsNarrow
