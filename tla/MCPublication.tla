---------------------------- MODULE MCPublication ----------------------------
(***************************************************************************)
(* Instances of Publication for TLC.  Two processes: one that may be held  *)
(* up anywhere, and one that keeps publishing around it.  The two          *)
(* snapshots share an artifact, so pruning has something to delete and     *)
(* something to keep; one pins a filter decision and one pins none.        *)
(***************************************************************************)
EXTENDS Publication, TLC

CONSTANTS a1, a2, d1

\* Every artifact has an address of its own.
OwnAddresses == [a \in Artifact |-> a]

\* The two artifacts collide.
OneAddress == [a \in Artifact |-> a1]

TwoSnapshots ==
    { [files |-> {a1}, decisions |-> NoDecisions],
      [files |-> {a1, a2}, decisions |-> d1] }

DisjointSnapshots ==
    { [files |-> {a1}, decisions |-> NoDecisions],
      [files |-> {a2}, decisions |-> d1] }

\* The user never touches dsql.lock.
NoUser == {}

\* The user reverts the lock, rewords it, and leaves conflict markers in it.
SomeEdits ==
    { NoLockFile,
      [form |-> "reworded", says |-> d1],
      [form |-> "malformed", says |-> NoDecisions] }

WriterSymmetry == Permutations(Writer)
=============================================================================
