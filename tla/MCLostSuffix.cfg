SPECIFICATION Spec
CONSTANTS
    NumSpecs = 3
    Named = {3}
    Policy <- Mixed
    Strategies = {"RestForOne"}
    MaxRestarts = 2
    MaxStarted <- TwoOrThree
    MaxFlows = 6
    MaxExits = 2
INVARIANT SuffixComesBack
CHECK_DEADLOCK FALSE
