CONSTANTS
    a = a
    b = b
    r1 = r1
    r2 = r2
    Symbol = {a, b}
    ReqId = {r1, r2}
    Types = 2
    Timeout = 2
    MaxCopies = 2
    Order = {1, 2, 3}
    Level = {1, 2}
    MaxOrders = 3
    TableSize = 8
    WordBits = 2
    LevelBound = 8
    MaxResting = 3
SPECIFICATION MCSpec
 
PROPERTIES ActiveOnlyByAck  IsOrderLists LadderFaithful
