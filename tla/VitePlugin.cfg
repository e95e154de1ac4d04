\* One host, one document and the configuration, one hook.
CONSTANTS
    Host = {h}
    Doc = {d}
    ConfigPath = config
    Content = {a, b, plain, bad}
    Plain = plain
    Bad = bad
    Original = a
    Caller = {c}
    Initial = {i1, i2}
    MaxEdits = 2
    MaxFaults = 1
SPECIFICATION FairSpec
CHECK_DEADLOCK FALSE
INVARIANTS
    ReadyIsTrusted
    NoSilentStaleness
    RewritesMatch
PROPERTY EveryHookReturns
