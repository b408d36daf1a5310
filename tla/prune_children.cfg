SPECIFICATION Spec
CONSTANTS
    r1 = r1
    r2 = r2
    small = small
    large = large
    large2 = large2
    Messages <- SequentialPool
    Record = {r1, r2}
    Data = {small, large, large2}
    LargeData = {large, large2}
    NoData = NoData
    NoRecord = NoRecord
    NoMessage = NoMessage
    Handlers = {h1}
    Abandons = FALSE
INVARIANT PruneRemovesChildren
