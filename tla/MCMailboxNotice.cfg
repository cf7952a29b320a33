SPECIFICATION Spec
CONSTANTS
    s1 = s1
    s2 = s2
    Host = host
    System = system
    Senders = {s1}
    Bodies <- OneBody
    Limit = 1
    ByteLimit = 1
    Policies = {"Reject"}
    Filters <- OnlyAny
    ReplyFilters <- ReplyFromS1
    Dests = {1, 2}
    MaxSends <- AskSends
    MaxParks = 2
PROPERTY
    NoticeBelongsToWait
CHECK_DEADLOCK FALSE
