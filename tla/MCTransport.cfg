CONSTANTS
    Sizes = {1, 2, 3}
    AnswerSizes = {3}
    MaxMessages = 2
    MaxCancels = 2
    Threshold = 2
    SendLimit = 2
    Take = 1
    CipherBuf = 2
    ReadCapacity = 2
    TmpBuf = 2
    max_buffered_bytes = 3
    Capacity = 2
SPECIFICATION FairSpec
INVARIANTS TypeOK SentOnce TlsNeverRepeats ReceivedOnce DeliveredPrefix
PROPERTIES WriteEnds
CHECK_DEADLOCK FALSE
