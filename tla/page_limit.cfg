SPECIFICATION FairSpec
CONSTANTS
    Owner = "bob"
    Anonymous = "nobody"
    TagFields = {"tag.protocol"}
    Items <- MCItems
    Cid <- MCCid
    Message <- MCMessage
    Histories <- MCHistoriesTwo
    Asks <- MCAsksOne
    Request <- MCRequest
INVARIANT PageWithinLimit
CHECK_DEADLOCK FALSE
