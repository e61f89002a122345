CONSTANTS
    RetryMode = "RetryableOnly"
    MaxAttempts = 2
    Pressure = FALSE
    ReceiveErrors = {"None", "RemoteClosed", "ProtocolError"}
    SignalCapacity = 5
    Slack = 4
    ControlCapacity = 3
    MessageCapacity = 1
    MaxEpoch = 2
    AttemptCap = 3
SPECIFICATION Spec
INVARIANT CloseIsFinal
