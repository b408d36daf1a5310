CONSTANTS
    alice = alice
    bob = bob
    thread = thread
    member = member
    member2 = member2
    chat = chat
    grant = grant
    revocation = revocation
    note = note
    late = late
    data = data
    MaxAccepted = 4
    NoData = NoData
    NoRecord = NoRecord
    NoMessage = NoMessage
    NoConfig = NoConfig
    Owner = alice
    Protocol = "threads"
    Protocols = {"threads"}
    Record = {thread, member, member2, chat}
    Data = {data}
    LargeData = {}
    Handlers = {h1, h2}
    Abandons = FALSE
    Configurers = {}
    ConfigDrops = FALSE
    JsonTags = {}
    Messages <- ThreadPool
    Configs <- ThreadConfigs
    Definitions <- ThreadDefinitions
SPECIFICATION ThreadSpec
ACTION_CONSTRAINT SentOnce
SYMMETRY HandlerSymmetry
INVARIANTS
    ParentStillThere
    RoleStillHeld
    RoleOnce
CHECK_DEADLOCK FALSE
