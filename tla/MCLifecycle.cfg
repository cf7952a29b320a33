SPECIFICATION Spec
CONSTANTS
    a = a
    b = b
    Flows = {a, b}
    Host = host
    Holds <- AtoB
    Watches <- AtoB
    Ties <- AtoB
    Killable = {b}
    Sleepers = {b}
    Timeouts = {TRUE}
    MaxAsks = 1
    MaxMonitors = 1
INVARIANTS
    TypeOK
    OnePlace
    DownAfterGone
    LinkedPeerIsKilled
CHECK_DEADLOCK FALSE
