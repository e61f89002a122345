CONSTANTS
    Id = {o1, o2, o3, o4}
    MaxOrders = 3
    NumPartitions = 4
    PartSize = 2
    PriceMin = 1
    QtyMin = 1
    QtyMax = 2
    MinNotional = 1
    TradeCapacity = 1
    InPrice = {2, 3, 4}
    InQty = {1, 2}
SPECIFICATION Spec
SYMMETRY Interchangeable
INVARIANT NotCrossed
