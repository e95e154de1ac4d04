SPECIFICATION Spec
CONSTANTS
    x = x
    y = y
    d = d
    dx = dx
    ok = ok
    bad = bad
    Content = {ok, bad}
    Bad = bad
    Missing = Missing
    Dir = Dir
    Broken = Broken
    ConfigPath = ConfigPath
    LockPath = LockPath
    FilePath = {x, y}
    DirPath = {}
    Below <- Flat
    Config <- OneConfig
    Newer = Newer
    UserLocks <- NoLocks
    Modes <- Unlocked
    MaxChanges = 2
PROPERTY NoOpRepeatsAnswer
CHECK_DEADLOCK FALSE
