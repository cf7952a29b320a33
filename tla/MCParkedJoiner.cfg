SPECIFICATION Spec
CONSTANTS
    f1 = f1
    f2 = f2
    j1 = j1
    j2 = j2
    w1 = w1
    Flows = {f1, f2}
    Workers = {w1}
    Joiners = {j1, j2}
    Target <- Shares
    Nobody = nobody
PROPERTIES
    JoinEnds
CHECK_DEADLOCK FALSE
