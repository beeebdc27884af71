CONSTANTS
    Pids = {1}
    max_attempts = 5
    initial_delay = 2
    max_delay = 5
    U32Max = 3
    MaxIterations = 2
    Addresses = 1
    MaxSessions = 2
SPECIFICATION FairSpec
INVARIANTS TypeOK TrustRespected ServerProved KeyIsCurrent CancelStaysWithSession
PROPERTIES DelaysGrow ConnectEnds
CHECK_DEADLOCK FALSE
