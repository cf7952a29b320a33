SPECIFICATION Spec
CONSTANTS
    a = a
    b = b
    Flows = {a, b}
    Host = host
    Holds <- AtoB
    Watches <- NoPairs
    Ties <- NoPairs
    Killable = {a}
    Sleepers = {}
    Timeouts = {FALSE}
    MaxAsks = 1
    MaxMonitors = 0
INVARIANT StuckAskerCanBeKilled
CHECK_DEADLOCK FALSE
