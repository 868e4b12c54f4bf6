CONSTANTS
    private = private
    group = group
    Threads <- MCThreads
    Private <- MCPrivate
    NoThread = NoThread
    StartLog <- MCStartLog
    EndLog <- MCEndLog
    MaxMessages = 6
    PageSize = 2
    CacheLimit = 3
    MaxUpsets = 3
SPECIFICATION PageFairSpec
CHECK_DEADLOCK FALSE
INVARIANTS
    PageTypeOK
    TranscriptOfSelected
    OlderReachable
    OnlineIsLive
PROPERTIES
    PageCatchesUp
