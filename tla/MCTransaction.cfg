CONSTANTS
    Ids = {1}
    Names = {"a", "b"}
    max_retries = 1
    MaxRuns = 3
    MaxSaves = 2
SPECIFICATION Spec
INVARIANTS TypeOK OkMeansDurable ErrMeansUndone GuardIsInnermost RetryAtMostOnce WithTransactionRetriesIdle
CHECK_DEADLOCK FALSE
