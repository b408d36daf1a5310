SPECIFICATION FairSpec
CONSTANTS
    Owner = "bob"
    Anonymous = "nobody"
    TagFields = {"tag.protocol"}
    Items <- MCItems
    Cid <- MCCid
    Message <- MCMessage
    Histories <- MCHistories
    Asks <- MCAsks
    Request <- MCRequest
INVARIANTS TypeOK NothingMissed NoRepeats PagesInOrder VisibleOnly LiveView
PROPERTY PagingEnds
CHECK_DEADLOCK FALSE
