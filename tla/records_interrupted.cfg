SPECIFICATION Spec
CONSTANTS
    r1 = r1
    r2 = r2
    small = small
    large = large
    large2 = large2
    Messages <- InterruptPool
    Record = {r1}
    Data = {large}
    LargeData = {large}
    NoData = NoData
    NoRecord = NoRecord
    NoMessage = NoMessage
    Handlers = {h1, h2}
    Abandons = TRUE
SYMMETRY HandlerSymmetry
INVARIANTS InitialRetained EmittedCovered ImmutableAgree
PROPERTY LatestWinsSpec
