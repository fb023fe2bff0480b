\* Every call comes from a callback in the loop thread; both optional
\* callbacks are set.
CONSTANTS
    Users = {}
    UserMay = {}
    LoopMay = {"send", "shutdown", "forceClose", "stopRead", "startRead"}
    HighMay = {"forceClose", "stopRead", "startRead"}
    PeerMay = {"urgent", "eof", "reset"}
    WriteCompleteSet = TRUE
    HighWaterSet = TRUE
    HighWaterMark = 2
    MaxLen = 2
    MaxSend = 3
    MaxCalls = 3
SPECIFICATION FairSpec
INVARIANTS AssertsOnlyLate WritingIffOutput StreamKept
PROPERTIES FlushedBeforeFin PeerGoneCloses ShutdownFinishes
CHECK_DEADLOCK FALSE
