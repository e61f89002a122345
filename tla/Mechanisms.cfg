CONSTANTS
    Char = {"plain", "escaped"}
    MaxChars = 2
    MaxSymbols = 2
    DepthDigits = {1, 4, 10}
    ReqIdDigits = {1, 20}
    b1 = b1
    b2 = b2
    b3 = b3
    t1 = t1
    t2 = t2
    t3 = t3
    c1 = c1
    None = None
    TaskCapacity = 4
    TaskItems = 9
    FanoutCapacity = 2
    MaxConsumers = 2
    FanoutItems = 6
    Buffers = 2
    Words = 2
    MaxStores = 5
    MaxDeviations = 2
    BlockEvents = 2
    NumBlocks = 2
    HotCapacity = 2
    PersistCapacity = 1
    FreeCapacity = 1
    PrepareCapacity = 1
    MaxEvent = 13
    MaxIndex = 4
    MaxStarts = 3
    MaxSegments = 3
    MaxPreloaded = 1
    FinishedRing = 1
    FileBlocks = 3
    FileEvents = 6
    TableSize = 2
    RetiredCapacity = 1
    Width = 64
    MaxTsc = 3
    Offsets = {0, 2}
    MaxCalls = 3
    MaxCalibrations = 2
    Largest = 9
    MaxRecords = 1
    MaxSnapshots = 2
SPECIFICATION MCSpec
INVARIANTS        OneIdPerSymbol MetricsSound
PROPERTIES LosesOnlyTheEnd 
CHECK_DEADLOCK FALSE
