CONSTANTS
    Keys = {"timezone"}
    InitKeys = {"timezone"}
    Values = {"utc"}
    Channels = {"events"}
    Configs <- AllConfigs
SPECIFICATION FairSpec
INVARIANTS TypeOK TrackedAgrees InStep RetryBounded
PROPERTIES RebuiltSession RetryEnds
CHECK_DEADLOCK FALSE
