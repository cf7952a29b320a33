SPECIFICATION Spec
CONSTANTS
    a = a
    b = b
    c = c
    Flows = {a, b, c}
    Host = host
    Scheduler = scheduler
    Names = {"n"}
    Wants <- TooMuch
    MaxFlows = 2
    MaxCaps = 3
    MaxOps = 5
SYMMETRY Symmetry
INVARIANTS
    TypeOK
    NoAmplification
    ReplyAddressIsStable
PROPERTIES
    GoneIsForever
CHECK_DEADLOCK FALSE
