CONSTANTS
    Keys = {"timezone"}
    InitKeys = {"timezone"}
    Values = {"utc"}
    Channels = {"events"}
    Configs <- AllConfigs
SPECIFICATION Spec
PROPERTIES MidTransactionBlocked
CHECK_DEADLOCK FALSE
