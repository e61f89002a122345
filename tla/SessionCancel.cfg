CONSTANTS
    a = a
    b = b
    Symbol <- TwoSymbols
    Types = 1
    Batching = "Immediate"
    BatchSize = 1
    EmitInterval = 1
    QueueCapacity = 2
    MaxPerPoll = 2
    MaxPerChannel = 0
    MaxGlobal = 0
    MaxReq = 3
    MaxEpoch = 3
    Liberties = {"any_unsubscribe"}
    AnyReq = 0
    AnyEpoch = 0
SPECIFICATION MCSpec
INVARIANT ReplayAgrees
