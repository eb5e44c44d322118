SPECIFICATION Spec
CONSTANTS
    c1 = c1
    c2 = c2
    e1 = e1
    e2 = e2
    g1 = g1
    Core <- MCCore
    Group <- MCGroup
    Event <- MCEvent
    UNDEF = UNDEF
    CntMax = 2
    GenMod = 2
    MaxBatch = 2
    MaxCycles = 2
    EmptyNotifs = TRUE
    Recoverers <- MCRecoverers
SYMMETRY Symmetry
INVARIANTS
    TypeOK
    CountersMatchHolders
    CompletesWhenAllHandled
    StaleNeverCounts
    NotifsRight
PROPERTY ImplementsForkJoin
