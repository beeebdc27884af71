CONSTANTS
    t1 = t1
    t2 = t2
    c1 = c1
    c2 = c2
    c3 = c3
    c4 = c4
    Tasks <- MCTasks
    Conns <- MCConns
    Configs <- SafetyConfigs
SPECIFICATION Spec
SYMMETRY Symmetry
INVARIANTS
    TypeOK
    NothingUncounted
    IdleIsQuiet
    NoGuardAfterClose
PROPERTY
    ImplementsOwnership
    ClosedDrains
CHECK_DEADLOCK FALSE
