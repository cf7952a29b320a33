SPECIFICATION Spec
CONSTANTS
    NumSpecs = 3
    Named = {3}
    Policy <- Mixed
    Strategies = {"OneForOne", "OneForAll", "RestForOne"}
    MaxRestarts = 1
    MaxStarted <- TwoOrThree
    MaxFlows = 9
    MaxExits = 2
INVARIANTS
    TypeOK
    RowsAreUnhandled
    CascadeCanEnd
    DroppedForAReason
PROPERTY LimitIsFinal
CHECK_DEADLOCK FALSE
