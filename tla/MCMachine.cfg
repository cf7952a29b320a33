SPECIFICATION Spec
CONSTANTS
    Families <- AllFamilies
    MaxCode = 3
    MaxConsts = 1
    U8Max = 3
    IntBits = 3
    Natives <- OneNative
    MaxDepth = 2
    Quantum = 2
    CpuBudget = 5
    MemLimit = 3
    SendBurst = 1
    Refill = 1
    TopUps <- UpAndDown
    MaxTopUps = 1
    TagMax = 1
    MaxFresh = 2
INVARIANTS
    TypeOK
    VerifiedIsSafe
    LoadedIsBuilt
    WithinQuota
PROPERTIES
    LabelsLand
CHECK_DEADLOCK FALSE
