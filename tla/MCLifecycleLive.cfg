SPECIFICATION FairSpec
CONSTANTS
    a = a
    b = b
    Flows = {a, b}
    Host = host
    Holds <- AtoB
    Watches <- AtoB
    Ties <- AtoB
    Killable = {}
    Sleepers = {}
    Timeouts = {FALSE}
    MaxAsks = 1
    MaxMonitors = 1
PROPERTIES
    OrphansWake
    MonitorFires
    EndsWithOutcome
CHECK_DEADLOCK FALSE
