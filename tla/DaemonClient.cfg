SPECIFICATION Spec
CONSTANTS
    Methods = {"work", "shutdown", "restart"}
    MaxCalls = 3
    MaxCrashes = 1
    MaxStrays = 1
    TopRung = 2
INVARIANT AnswersMatch NeverOverlapping NothingLeftBehind CachesDropped
PROPERTY InvalidatesInTime
CHECK_DEADLOCK FALSE
