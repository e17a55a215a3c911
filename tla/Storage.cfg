SPECIFICATION StorageSpec
CONSTANTS
    a1 = a1
    a2 = a2
    u1 = u1
    u2 = u2
    f1 = f1
    MaxDecays = 1
    Ids <- MCIds
    hash_uid <- MCHash
    get_filename <- MCFilename
    MaxRecords = 3
    Days = {1, 2}
    LineSizes = {1, 2}
    RingCap = 2
    MaxSize = 3
    MaxLogs = 1
    MaxCells = 4
    HeaderLen = 2
    ImageLen = 5
    BufferSize = 3
    MaxRequests = 2
    RegisterSize = 4
    Threshold = 3
    MaxUsed = 5
    MaxRestarts = 2
    Intervals = {0, 2, 3}
    MaxTime = 6
    MaxLate = 2
    MaxSteps = 2
    FsThreads = {u1, u2}
    Paths = {f1}
    MaxLen = 2
    MaxPath = 6
    MaxIoErrors = 1

    
    
    
PROPERTIES
    RecordKept
    EnergyKept
    SampledAsSet
    
    RequestEnds
CHECK_DEADLOCK FALSE
