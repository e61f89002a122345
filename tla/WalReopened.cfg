CONSTANTS
    BlockEvents = 2
    NumBlocks = 1
    HotCapacity = 2
    PersistCapacity = 1
    FreeCapacity = 1
    PrepareCapacity = 1
    MaxEvent = 5
    MaxIndex = 4
    MaxStarts = 3
SPECIFICATION Spec
PROPERTY ClosedSurvives
CHECK_DEADLOCK FALSE
