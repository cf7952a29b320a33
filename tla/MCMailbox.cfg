SPECIFICATION Spec
CONSTANTS
    s1 = s1
    s2 = s2
    Host = host
    System = system
    Senders = {s1, s2}
    Bodies <- AllBodies
    Limit = 2
    ByteLimit = 3
    Policies = {"Reject", "DropNewest", "DropOldest"}
    Filters <- AnyOrTagged
    ReplyFilters <- ReplyFromS1
    Dests = {1}
    MaxSends <- SomeSends
    MaxParks = 2
INVARIANTS
    TypeOK
    NoLostWakeup
    FlowInOnePlace
    ChargeIsExact
    WithinBounds
    NobodyWaitsOnClosed
    InOrderOnce
    AskerIsIndexed
    TimedWaitIsArmed
PROPERTY HopOrDeadlineFitsWait
CHECK_DEADLOCK FALSE
