SPECIFICATION Spec
CONSTANTS
    r1 = r1
    r2 = r2
    small = small
    large = large
    large2 = large2
    Messages <- KeepLargePool
    Record = {r1}
    Data = {small, large}
    LargeData = {large}
    NoData = NoData
    NoRecord = NoRecord
    NoMessage = NoMessage
    Handlers = {h1}
    Abandons = FALSE
PROPERTY InheritedDataKept
