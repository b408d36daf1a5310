SPECIFICATION Spec
CONSTANTS
    a = a
    b = b
    recordId = recordId
    initial = initial
    dateCreated = dateCreated
    r1 = r1
    yes = yes
    no = no
    t1 = t1
    Cids = {a, b}
    Fields = {recordId, initial, dateCreated}
    Values = {r1, yes, no, t1}
    Entries <- EntryPool
    NoEntry = NoEntry
    NoBlock = NoBlock
    NoRequest = NoRequest
    Workers = {w1}
    IndexLimit = 2
INVARIANTS TypeOK IndexExact
PROPERTY QueryExact
