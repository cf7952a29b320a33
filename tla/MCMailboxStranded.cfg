SPECIFICATION Spec
CONSTANTS
    s1 = s1
    s2 = s2
    Host = host
    System = system
    Senders = {s1, s2}
    Policies = {"Reject"}
    Bodies <- OneBody
    Limit = 1
    ByteLimit = 1
    Filters <- OnlyAny
    ReplyFilters <- NoReplies
    Dests = {1}
    MaxSends <- RejectSends
    MaxParks = 2
INVARIANT FreeSlotWakesSender
CHECK_DEADLOCK FALSE
