CONSTANTS
    RetryMode = "RetryableOnly"
    MaxAttempts = 2
    Pressure = TRUE
    ReceiveErrors = {"None", "RemoteClosed", "ProtocolError"}
    SignalCapacity = 8
    Slack = 6
    ControlCapacity = 2
    MessageCapacity = 1
    MaxEpoch = 2
    AttemptCap = 3
SPECIFICATION FairSpec
PROPERTY LossResolved
