SPECIFICATION Spec
CONSTANTS
    p = p
    q = q
    v1 = v1
    v2 = v2
    Procs <- MCProcs
    Fks <- MCFks
    Defs = {v1, v2}
    Configs = {"c1", "c2"}
    SourceDef <- MCSourceDef
    NoDef = NoDef
    NoConfig = NoConfig
    NoProc = NoProc
    OverlappingRecreates = FALSE
    ConnectionLoss = TRUE
SYMMETRY Symmetry
INVARIANTS TypeOK NoFkLost SuccessRestoresAll CopiesUnderOwnJournal HolderOnly
