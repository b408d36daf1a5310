CONSTANTS
    alice = alice
    bob = bob
    thread = thread
    member = member
    member2 = member2
    chat = chat
    grant = grant
    revocation = revocation
    note = note
    late = late
    data = data
    MaxAccepted = 4
    NoData = NoData
    NoRecord = NoRecord
    NoMessage = NoMessage
    NoConfig = NoConfig
    Owner = alice
    Protocol = "notes"
    Protocols = {"notes"}
    Record = {grant, revocation, note, late}
    Data = {data}
    LargeData = {}
    Handlers = {h1, h2}
    Abandons = FALSE
    Configurers = {}
    ConfigDrops = FALSE
    JsonTags = {}
    Messages <- NotePool
    Configs <- NoteConfigs
    Definitions <- NoteDefinitions
SPECIFICATION NoteSpec
ACTION_CONSTRAINT SentOnce
INVARIANTS
    NodeTypeOK
    GrantStillGood
    RevokedWritesGone
PROPERTY
    EveryRequestDone
CHECK_DEADLOCK FALSE
