SPECIFICATION FairSpec
CONSTANTS
    Kind = {"blank", "notUtf8", "bad", "initialize", "compile", "shutdown"}
    MaxLines = 4
INVARIANT AnswersInOrder OneLateRequest RespondThenMaintain
PROPERTY NoLeakedDaemon
CHECK_DEADLOCK FALSE
