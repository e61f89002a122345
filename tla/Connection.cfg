CONSTANTS
    RetryMode = "RetryableOnly"
    MaxAttempts = 2
    Pressure = FALSE
    ReceiveErrors = {"None", "RemoteClosed", "ProtocolError"}
    SignalCapacity = 5
    Slack = 4
    ControlCapacity = 3
    MessageCapacity = 1
    MaxEpoch = 3
    AttemptCap = 3
    b1 = b1
    None = None
    MaxConnects = 2
    RingCapacity = 4
    InlineSize = 1
    BlockSize = 2
    MaxReserveSize = 3
SPECIFICATION MCSpec
INVARIANTS TransportAlwaysOwned ReadContract MessagesIntact
PROPERTIES IsLink TimeoutIsRetried LossResolved CloseReleasesReader
