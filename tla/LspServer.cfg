\* A document of the project, a new one, a foreign file, two handlers at once.
CONSTANTS
    Doc = {p, n, x}
    Loaded = {p}
    Ignored = {x}
    Level = 2
    MaxMessages = 3
SPECIFICATION FairSpec
CHECK_DEADLOCK FALSE
INVARIANTS
    BuffersFollowEditor
    OpenShowsPresent
    FormatsOneRevision
PROPERTY EveryMessageHandled
