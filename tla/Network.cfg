SPECIFICATION NetworkSpec
CONSTANTS
    MaxRetry = 2
    MaxMessages = 2
    MaxPosts = 2
    MaxFaults = 2
    RestartErrors = 1
    MaxTasks = 2
    MaxWsFaults = 2
    MaxSent = 3
    MaxCells = 3
    DataSize = 2
    WsQueueSize = 4
    RxQueueSize = 4
    BufSize = 2
    MaxQueue = 2
    MaxFailed = 1
    Known = {k1}
    Readable = {k1}
    Unknown = {u}
    KeyWidth = 2
    RetryAfter = 2
    RxTexts = 2
    MaxHostFaults = 3
    MaxRest = 5
    PartSize = 4
    PortBits = 9
    IntBits = 16
    MacLen = 2
    Groups <- MCGroups
INVARIANTS
    ManagerInStep
    
    MessagesFaithful
    
PROPERTIES
    StreamFaithful
    NetworkServes
CHECK_DEADLOCK FALSE
