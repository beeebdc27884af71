CONSTANTS
    t1 = t1
    t2 = t2
    c1 = c1
    c2 = c2
    c3 = c3
    c4 = c4
    Tasks <- MCTasks
    Conns <- MCConns
    Configs <- BaseOnly
SPECIFICATION Spec
PROPERTY AcquiredClean
CHECK_DEADLOCK FALSE
