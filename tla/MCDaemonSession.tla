--------------------------- MODULE MCDaemonSession ---------------------------
(***************************************************************************)
(* Instances of DaemonSession for TLC.                                     *)
(***************************************************************************)
EXTENDS DaemonSession, TLC

CONSTANTS x, y, d, dx, ok, bad

\* Flat projects: every path is a file of its own.
Flat == [p \in Path |-> {}]

\* dx lies in the directory d.
Tree == [p \in Path |-> IF p = d THEN {dx} ELSE {}]

\* Two scope assignments: one owns every path, the other leaves dx to two scopes.
OwnsAll == [p \in Path |-> "unique"]
SharesDx == [OwnsAll EXCEPT ![dx] = "ambiguous"]
TwoConfigs == {OwnsAll, SharesDx}
OneConfig == {OwnsAll}

\* dsql.lock is absent, pins the decisions of a bowl that holds ok, or is of a newer
\* version.
SomeLocks == {{}, {ok}, NewerLock}
NoLocks == {{}}

BothModes == BOOLEAN
Unlocked == {FALSE}
=============================================================================
