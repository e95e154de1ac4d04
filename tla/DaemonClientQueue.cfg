SPECIFICATION FairSpec
CONSTANTS
    Methods = {"work", "shutdown", "restart"}
    MaxCalls = 3
    MaxCrashes = 1
    MaxStrays = 0
    TopRung = 2
INVARIANT LadderClimbsOnce
PROPERTY ImplementsQueue
CHECK_DEADLOCK FALSE
