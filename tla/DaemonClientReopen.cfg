SPECIFICATION Spec
CONSTANTS
    Methods = {"work", "shutdown", "restart"}
    MaxCalls = 3
    MaxCrashes = 0
    MaxStrays = 0
    TopRung = 2
INVARIANT ShutdownIsFinal
CHECK_DEADLOCK FALSE
