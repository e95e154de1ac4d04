SPECIFICATION Spec
CONSTANTS
    x = x
    y = y
    d = d
    dx = dx
    ok = ok
    bad = bad
    Content = {ok, bad}
    Bad = bad
    Missing = Missing
    Dir = Dir
    Broken = Broken
    ConfigPath = ConfigPath
    LockPath = LockPath
    FilePath = {x, dx}
    DirPath = {d}
    Below <- Tree
    Config <- TwoConfigs
    Newer = Newer
    UserLocks <- SomeLocks
    Modes <- BothModes
    MaxChanges = 3
INVARIANT BowlConverges ErrorIsCurrent SuccessIsCurrent
PROPERTY NoNeedlessCompile
CHECK_DEADLOCK FALSE
