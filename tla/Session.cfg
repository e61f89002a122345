CONSTANTS
    a = a
    b = b
    Symbol <- TwoSymbols
    Types = 2
    Batching = "Batch"
    BatchSize = 1
    EmitInterval = 1
    QueueCapacity = 2
    MaxPerPoll = 2
    MaxPerChannel = 2
    MaxGlobal = 3
    MaxReq = 3
    MaxEpoch = 3
    Liberties = {}
    AnyReq = 2
    AnyEpoch = 3
SPECIFICATION MCSpec
INVARIANTS ReplayAgrees AgreesWithExchange RequestsJustified ReplayAlwaysWithinOwned
PROPERTIES  PendingResolved
