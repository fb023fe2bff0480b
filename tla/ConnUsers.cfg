\* Another thread makes two calls of any kind besides its sends, against
\* callbacks that send and close and a peer that closes.
CONSTANTS
    Users = {u1}
    UserMay = {"send", "shutdown", "forceClose", "stopRead", "startRead"}
    LoopMay = {"send", "shutdown", "forceClose"}
    HighMay = {}
    PeerMay = {"eof"}
    WriteCompleteSet = TRUE
    HighWaterSet = TRUE
    HighWaterMark = 2
    MaxLen = 1
    MaxSend = 2
    MaxCalls = 2
SPECIFICATION FairSpec
INVARIANT Safe
PROPERTIES ClosingFinishes
CHECK_DEADLOCK FALSE
