CONSTANTS
    alice = alice
    bob = bob
    thread = thread
    member = member
    member2 = member2
    chat = chat
    grant = grant
    revocation = revocation
    note = note
    late = late
    data = data
    MaxAccepted = 2
    NoData = NoData
    NoRecord = NoRecord
    NoMessage = NoMessage
    NoConfig = NoConfig
    Owner = alice
    Protocol = "threads"
    Protocols = {"threads"}
    Record = {thread, member}
    Data = {data}
    LargeData = {}
    Handlers = {h1}
    Abandons = TRUE
    Configurers = {k1, k2}
    ConfigDrops = TRUE
    JsonTags = {}
    Messages <- MemberPool
    Configs <- ThreadConfigs
    Definitions <- ThreadDefinitions
SPECIFICATION ThreadSpec
ACTION_CONSTRAINT SentOnce
SYMMETRY ConfigurerSymmetry
INVARIANTS
    ConfigTypeOK
    AcceptedConfigKept
    OneConfigUnlessOverlapped
CHECK_DEADLOCK FALSE
