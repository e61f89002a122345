CONSTANTS
    a = a
    b = b
    Capacity = 4
    MaxBatch = 2
    Value = {a, b}
    Modes = {"Strict", "ZeroTolerance"}
    Activate = 1
    Deactivate = 2
    Escalation = 2
    MessageSlots = 3
    ControlCapacity = 3
    PoolSize = 2
    InlineFrames = 1
    BlockFrames = 3
    InboundCapacity = 2
    RecorderCapacity = 1
    MaxEvent = 4
    MaxPerPoll = 2
    DataRing = 2
    Hasty = TRUE
    MaxReq = 3
    MaxInbox = 1
SPECIFICATION MCSpec
PROPERTY ResubscribeCancels
