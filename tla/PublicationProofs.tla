-------------------------- MODULE PublicationProofs --------------------------
(***************************************************************************)
(* What Publication guarantees for any number of processes, artifacts,     *)
(* snapshots and generations.  The inductive invariant says who holds the  *)
(* lock, what a publisher has already put on disk, why pruning cannot      *)
(* reach the current generation, and that the highest id ever current is   *)
(* still visible to the scan that allocates the next one.  Generators and  *)
(* the match lock follow, which others than the holder of the lock touch.  *)
(***************************************************************************)
EXTENDS Publication, TLAPS

-----------------------------------------------------------------------------
(* What the building blocks return *)

\* atomic_write leaves the old or the new target, and reports success only
\* with the new one.
LEMMA AtomicWriteResult ==
    ASSUME NEW before, NEW after, NEW r \in AtomicWrite(before, after)
    PROVE  /\ r.now \in {before, after}
           /\ r.ok => r.now = after
  BY DEF AtomicWrite

\* Reconciling leaves a match-lock file.
LEMMA ReconcileResult ==
    ASSUME NEW file \in MatchLockFile, NEW want \in Decisions,
           NEW mode \in {"update", "locked"},
           NEW r \in ReconcileOutcomes(file, want, mode)
    PROVE  r.now \in MatchLockFile
<1>1. NoLockFile \in MatchLockFile
  BY DecisionsAssumption DEF NoLockFile, MatchLockFile
<1>2. LockFor(want) \in MatchLockFile
  BY <1>1 DEF LockFor, MatchLockFile
<1>3. CASE file.form = "newer"
  BY <1>3 DEF ReconcileOutcomes
<1>4. CASE file.form # "newer" /\ mode = "locked"
  BY <1>4 DEF ReconcileOutcomes
<1>5. CASE file.form # "newer" /\ mode = "update"
  BY <1>2, <1>5 DEF ReconcileOutcomes, AtomicWrite
<1> QED
  BY <1>3, <1>4, <1>5

\* Installing an artifact only adds it, and reports success only when it is
\* there.
LEMMA InstallResult ==
    ASSUME NEW a, NEW r \in InstallOutcomes(a)
    PROVE  /\ r.now \in {disk, disk \cup {a}}
           /\ r.ok => a \in r.now
<1>1. CASE a \in disk
  BY <1>1 DEF InstallOutcomes
<1>2. CASE a \notin disk /\ (\E b \in disk : AddressOf[b] = AddressOf[a])
  BY <1>2 DEF InstallOutcomes
<1>3. CASE a \notin disk /\ ~(\E b \in disk : AddressOf[b] = AddressOf[a])
  BY <1>3 DEF InstallOutcomes, AtomicWrite
<1> QED
  BY <1>1, <1>2, <1>3

\* The artifacts of a request are artifacts.
LEMMA JobFiles ==
    ASSUME NEW j \in Job \cup {NoJob}
    PROVE  /\ j.snapshot.files \subseteq Artifact
           /\ j.snapshot.decisions \in Decisions
           /\ j.mode \in {"update", "locked"}
  BY SnapshotAssumption, DecisionsAssumption DEF Job, NoJob

-----------------------------------------------------------------------------
(* Type correctness *)

\* A busy process has a request, and from allocation on it has an id.
HasRequest ==
    \A p \in Writer :
        /\ pc[p] # "idle" => job[p] \in Job
        /\ pc[p] \in {"artifacts", "pointer", "generator", "pruneWaiting"} \cup Pruning =>
              gen[p] \in Id

TypeInv == TypeOK /\ HasRequest

\* The types hold initially.
LEMMA TypeInit == Init => TypeInv
<1> SUFFICES ASSUME Init PROVE TypeInv
  OBVIOUS
<1>1. NoLockFile \in MatchLockFile
  BY DecisionsAssumption DEF NoLockFile, MatchLockFile
<1>2. matchLock \in MatchLockFile
  BY <1>1, UserLocksAssumption DEF Init
<1>3. /\ pc \in [Writer -> Phase]
      /\ job \in [Writer -> Job \cup {NoJob}]
      /\ todo \in [Writer -> SUBSET Artifact]
      /\ keep \in [Writer -> SUBSET Artifact]
  BY DEF Init, Phase
<1>4. /\ gen \in [Writer -> 0 .. MaxId]
      /\ pred \in [Writer -> 0 .. MaxId]
      /\ highest \in 0 .. MaxId
      /\ superseded \in [Writer -> 0 .. 2]
  BY IdAssumption DEF Init
<1>5. HasRequest
  BY DEF Init, HasRequest, Pruning
<1> QED
  BY <1>2, <1>3, <1>4, <1>5 DEF Init, TypeOK, TypeInv

\* A process that leaves for "idle" leaves a well-typed state behind.
LEMMA FinishType ==
    ASSUME TypeInv, NEW p \in Writer, Finish(p)
    PROVE  /\ pc' \in [Writer -> Phase]
           /\ job' \in [Writer -> Job \cup {NoJob}]
           /\ gen' \in [Writer -> 0 .. MaxId]
           /\ pred' \in [Writer -> 0 .. MaxId]
           /\ todo' \in [Writer -> SUBSET Artifact]
           /\ keep' \in [Writer -> SUBSET Artifact]
           /\ HasRequest'
<1> USE DEF TypeInv, TypeOK
<1>1. pc' \in [Writer -> Phase]
  BY DEF Finish, Phase
<1>2. gen' \in [Writer -> 0 .. MaxId] /\ pred' \in [Writer -> 0 .. MaxId]
  BY IdAssumption DEF Finish
<1>3. HasRequest'
  BY DEF Finish, HasRequest, Pruning
<1> QED
  BY <1>1, <1>2, <1>3 DEF Finish

\* Every step preserves the types.
LEMMA TypeStep == TypeInv /\ [Next]_vars => TypeInv'
<1> SUFFICES ASSUME TypeInv, [Next]_vars PROVE TypeInv'
  OBVIOUS
<1> USE IdAssumption DEF TypeInv, TypeOK
<1>1. ASSUME NEW p \in Writer, Begin(p) PROVE TypeInv'
  BY <1>1 DEF Begin, Goto, tree, history, HasRequest, Pruning, Phase, Critical
<1>2. ASSUME NEW p \in Writer, Acquire(p) PROVE TypeInv'
  BY <1>2 DEF Acquire, Goto, tree, local, history, HasRequest, Pruning, Phase, Critical, Writing
<1>3. ASSUME NEW p \in Writer, GiveUp(p) PROVE TypeInv'
  BY <1>3, FinishType DEF GiveUp, tree, history
<1>4. ASSUME NEW p \in Writer, Reconcile(p) PROVE TypeInv'
  <2>1. PICK r \in ReconcileOutcomes(matchLock, job[p].snapshot.decisions, job[p].mode) :
            /\ matchLock' = r.now
            /\ IF r.ok /\ job[p].kind = "publish"
               THEN Goto(p, "allocate") /\ UNCHANGED <<holder, local>>
               ELSE Fail(p)
    BY <1>4 DEF Reconcile
  <2>2. matchLock' \in MatchLockFile
    BY <2>1, JobFiles, ReconcileResult
  <2>3. /\ edited' \in BOOLEAN
        /\ UNCHANGED <<disk, manifests, pointer, highest, superseded>>
    BY <1>4 DEF Reconcile
  <2>4. CASE Goto(p, "allocate") /\ UNCHANGED <<holder, local>>
    BY <1>4, <2>2, <2>3, <2>4
    DEF Reconcile, Goto, local, HasRequest, Pruning, Phase, Critical, Writing
  <2>5. CASE Fail(p)
    BY <2>2, <2>3, <2>5, FinishType DEF Fail, Release
  <2> QED
    BY <2>1, <2>4, <2>5
<1>5. ASSUME NEW p \in Writer, Allocate(p) PROVE TypeInv'
  <2>1. UNCHANGED <<tree, history>>
    BY <1>5 DEF Allocate
  <2>2. CASE Fail(p)
    BY <2>1, <2>2, FinishType DEF Fail, Release, tree, history
  <2>3. ASSUME NEW id \in 1 .. MaxId + 1,
               CounterFits(id),
               gen' = [gen EXCEPT ![p] = id],
               pred' = [pred EXCEPT ![p] = pointer.id],
               todo' = [todo EXCEPT ![p] = job[p].snapshot.files],
               Goto(p, "artifacts"),
               UNCHANGED <<holder, job, keep>>
        PROVE  TypeInv'
    <3>1. job[p].snapshot.files \subseteq Artifact
      BY JobFiles
    <3>2. id \in Id /\ pointer.id \in 0 .. MaxId
      BY <2>3 DEF CounterFits, Generation, NoGeneration, Id
    <3>3. pc' \in [Writer -> Phase] /\ HasRequest'
      BY <1>5, <2>3, <3>2 DEF Allocate, Goto, HasRequest, Pruning, Phase, Critical, Writing
    <3>4. gen' \in [Writer -> 0 .. MaxId] /\ pred' \in [Writer -> 0 .. MaxId]
      BY <2>3, <3>2 DEF Id
    <3>5. todo' \in [Writer -> SUBSET Artifact]
      BY <2>3, <3>1
    <3> QED
      BY <2>1, <2>3, <3>3, <3>4, <3>5 DEF tree, history
  <2> QED
    BY <1>5, <2>2, <2>3 DEF Allocate
<1>6. ASSUME NEW p \in Writer, WriteArtifact(p) PROVE TypeInv'
  <2>1. PICK a \in todo[p] : \E r \in InstallOutcomes(a) :
            /\ disk' = r.now
            /\ IF r.ok
               THEN /\ todo' = [todo EXCEPT ![p] = @ \ {a}]
                    /\ UNCHANGED <<holder, pc, job, gen, pred, keep>>
               ELSE Fail(p)
    BY <1>6 DEF WriteArtifact
  <2>2. disk' \subseteq Artifact
    BY <2>1, InstallResult
  <2>3. UNCHANGED <<matchLock, manifests, pointer, history>>
    BY <1>6 DEF WriteArtifact
  <2>4. CASE Fail(p)
    BY <2>2, <2>3, <2>4, FinishType DEF Fail, Release, history
  <2>5. CASE /\ todo' = [todo EXCEPT ![p] = @ \ {a}]
             /\ UNCHANGED <<holder, pc, job, gen, pred, keep>>
    BY <2>2, <2>3, <2>5 DEF history, HasRequest
  <2> QED
    BY <2>1, <2>4, <2>5
<1>7. ASSUME NEW p \in Writer, WriteManifest(p) PROVE TypeInv'
  <2> DEFINE new == [id |-> gen[p], files |-> job[p].snapshot.files]
  <2>1. new \in Generation
    BY <1>7, JobFiles DEF WriteManifest, HasRequest, Generation
  <2>2. /\ manifests' \in {manifests, manifests \cup {new}}
        /\ UNCHANGED <<matchLock, disk, pointer, edited, highest, superseded>>
    BY <1>7 DEF WriteManifest, AtomicWrite
  <2>3. manifests' \subseteq Generation
    BY <2>1, <2>2 DEF Generation
  <2>4. CASE Goto(p, "pointer") /\ UNCHANGED <<holder, local>>
    BY <1>7, <2>2, <2>3, <2>4
    DEF WriteManifest, Goto, local, HasRequest, Pruning, Phase, Critical, Writing
  <2>5. CASE Fail(p)
    BY <2>2, <2>3, <2>5, FinishType DEF Fail, Release
  <2> QED
    BY <1>7, <2>4, <2>5 DEF WriteManifest
<1>8. ASSUME NEW p \in Writer, WritePointer(p) PROVE TypeInv'
  <2> DEFINE new == [id |-> gen[p], files |-> job[p].snapshot.files]
  <2>1. new \in Generation
    BY <1>8, JobFiles DEF WritePointer, HasRequest, Generation
  <2>2. /\ pointer' \in {pointer, new}
        /\ highest' = IF pointer'.id > highest THEN pointer'.id ELSE highest
        /\ superseded' \in {superseded, CountSupersession}
        /\ holder' = NoWriter
        /\ UNCHANGED <<matchLock, disk, manifests, edited>>
    BY <1>8 DEF WritePointer, AtomicWrite, Release
  <2>3. pointer' \in Generation \cup {NoGeneration}
    BY <2>1, <2>2
  <2>4. highest' \in 0 .. MaxId
    BY <2>2, <2>3 DEF Generation, NoGeneration, Id
  <2>5. superseded' \in [Writer -> 0 .. 2]
    BY <2>2 DEF CountSupersession
  <2>6. CASE Goto(p, "generator") /\ UNCHANGED local
    BY <1>8, <2>2, <2>3, <2>4, <2>5, <2>6
    DEF WritePointer, Goto, local, HasRequest, Pruning, Phase, Critical
  <2>7. CASE Finish(p)
    BY <2>2, <2>3, <2>4, <2>5, <2>7, FinishType
  <2> QED
    BY <1>8, <2>6, <2>7 DEF WritePointer
<1>9. ASSUME NEW p \in Writer, EndGenerator(p) PROVE TypeInv'
  BY <1>9 DEF EndGenerator, Goto, tree, local, HasRequest, Pruning, Phase, Critical
<1>10. ASSUME NEW p \in Writer, BeginPrune(p) PROVE TypeInv'
  <2>1. UNCHANGED <<tree, history>>
    BY <1>10 DEF BeginPrune
  <2>2. CASE Finish(p) /\ UNCHANGED holder
    BY <2>1, <2>2, FinishType DEF tree, history
  <2>3. CASE /\ keep' = [keep EXCEPT ![p] =
                    UNION {g.files : g \in {m \in manifests : m.id \in RetainedIds(p)}}]
             /\ holder' = p
             /\ Goto(p, "pruneManifests")
             /\ UNCHANGED <<job, gen, pred, todo>>
    <3>1. keep' \in [Writer -> SUBSET Artifact]
      BY <2>3 DEF Generation
    <3>2. pc' \in [Writer -> Phase] /\ HasRequest'
      BY <1>10, <2>3 DEF BeginPrune, Goto, HasRequest, Pruning, Phase, Critical
    <3> QED
      BY <2>1, <2>3, <3>1, <3>2 DEF tree, history
  <2> QED
    BY <1>10, <2>2, <2>3 DEF BeginPrune
<1>11. ASSUME NEW p \in Writer, PruneManifest(p) PROVE TypeInv'
  BY <1>11 DEF PruneManifest, local, history, HasRequest
<1>12. ASSUME NEW p \in Writer, EndPruneManifests(p) PROVE TypeInv'
  <2>1. UNCHANGED <<tree, history>>
    BY <1>12 DEF EndPruneManifests
  <2>2. CASE Fail(p)
    BY <2>1, <2>2, FinishType DEF Fail, Release, tree, history
  <2>3. CASE Goto(p, "pruneArtifacts") /\ UNCHANGED <<holder, local>>
    BY <1>12, <2>1, <2>3
    DEF EndPruneManifests, Goto, tree, history, local, HasRequest, Pruning, Phase, Critical
  <2> QED
    BY <1>12, <2>2, <2>3 DEF EndPruneManifests
<1>13. ASSUME NEW p \in Writer, PruneArtifact(p) PROVE TypeInv'
  BY <1>13 DEF PruneArtifact, local, history, HasRequest
<1>14. ASSUME NEW p \in Writer, EndPrune(p) PROVE TypeInv'
  BY <1>14, FinishType DEF EndPrune, Release, tree, history
<1>15. ASSUME NEW p \in Writer, Crash(p) PROVE TypeInv'
  BY <1>15, FinishType DEF Crash, tree
<1>16. CASE EditMatchLock
  BY <1>16, UserLocksAssumption DEF EditMatchLock, local, HasRequest
<1>17. CASE LosePointer
  BY <1>17 DEF LosePointer, local, HasRequest
<1>18. CASE UNCHANGED vars
  BY <1>18 DEF vars, tree, local, history, HasRequest
<1> QED
  BY <1>1, <1>2, <1>3, <1>4, <1>5, <1>6, <1>7, <1>8, <1>9, <1>10, <1>11, <1>12,
     <1>13, <1>14, <1>15, <1>16, <1>17, <1>18 DEF Next, Step

\* The variables of every reachable state have their types.
THEOREM TypeCorrect == Spec => []TypeOK
<1>1. TypeInv => TypeOK
  BY DEF TypeInv
<1> QED
  BY <1>1, TypeInit, TypeStep, PTL DEF Spec

-----------------------------------------------------------------------------
(* The inductive invariant *)

\* The advisory lock is held by the one process inside its critical section.
LockOwner == \A p \in Writer : pc[p] \in Critical <=> holder = p

\* The highest id that was ever current is the current one, and stays visible to
\* the scan when the pointer is lost.
HighestRemembered ==
    /\ pointer # NoGeneration => highest = pointer.id
    /\ highest # 0 => \E g \in manifests : g.id = highest

\* A publisher on its way to the commit has everything installed in time, under
\* an id above every one that was current.
ReadyToCommit ==
    \A p \in Writer :
        /\ pc[p] \in {"artifacts", "pointer"} => gen[p] > highest
        /\ pc[p] = "pointer" => todo[p] = {}

\* A process that prunes is the publisher of the latest generation, and keeps all
\* that the pointer can lead to.
PruningCurrent ==
    \A p \in Writer : pc[p] \in Pruning =>
        /\ gen[p] = highest
        /\ pointer # NoGeneration => pointer.files \subseteq keep[p]

IInv ==
    /\ TypeInv
    /\ LockOwner
    /\ UncommittedFilesSafe
    /\ CurrentComplete
    /\ HighestRemembered
    /\ ReadyToCommit
    /\ PruningCurrent

\* The invariant holds initially.
LEMMA InvInit == Init => IInv
<1> SUFFICES ASSUME Init PROVE IInv
  OBVIOUS
<1>1. LockOwner
  BY WriterAssumption DEF Init, LockOwner, Critical, Writing, Pruning
<1> QED
  BY <1>1, TypeInit DEF Init, IInv, UncommittedFilesSafe, CurrentComplete,
     HighestRemembered, ReadyToCommit, PruningCurrent, Pruning

\* A process that only forgets its request disturbs nothing.
LEMMA FinishInv ==
    ASSUME IInv, TypeInv', NEW p \in Writer, Finish(p),
           holder' = IF holder = p THEN NoWriter ELSE holder,
           UNCHANGED <<disk, manifests, pointer, highest>>
    PROVE  IInv'
<1> USE DEF IInv, TypeInv, TypeOK, Finish
<1>1. LockOwner'
  BY WriterAssumption DEF LockOwner, Critical, Writing, Pruning
<1>2. UncommittedFilesSafe'
  BY DEF UncommittedFilesSafe
<1>3. CurrentComplete' /\ HighestRemembered'
  BY DEF CurrentComplete, HighestRemembered
<1>4. ReadyToCommit' /\ PruningCurrent'
  BY DEF ReadyToCommit, PruningCurrent, Pruning
<1> QED
  BY <1>1, <1>2, <1>3, <1>4

\* Nobody else is inside the critical section.
LEMMA AloneInside ==
    ASSUME IInv, NEW p \in Writer, holder = p, NEW q \in Writer, q # p
    PROVE  pc[q] \notin Critical
  BY DEF IInv, LockOwner

\* Every step preserves the invariant.
LEMMA InvStep == IInv /\ [Next]_vars => IInv'
<1> SUFFICES ASSUME IInv, [Next]_vars PROVE IInv'
  OBVIOUS
<1> USE DEF IInv
<1>0. TypeInv'
  BY TypeStep
<1>1. ASSUME NEW p \in Writer, Begin(p) PROVE IInv'
  BY <1>0, <1>1 DEF Begin, Goto, tree, history, TypeInv, TypeOK, LockOwner,
     UncommittedFilesSafe, CurrentComplete, HighestRemembered, ReadyToCommit,
     PruningCurrent, Critical, Writing, Pruning
<1>2. ASSUME NEW p \in Writer, Acquire(p) PROVE IInv'
  BY <1>0, <1>2, WriterAssumption DEF Acquire, LockIsFree, Goto, tree, local, history,
     TypeInv, TypeOK, LockOwner, UncommittedFilesSafe, CurrentComplete,
     HighestRemembered, ReadyToCommit, PruningCurrent, Critical, Writing, Pruning
<1>3. ASSUME NEW p \in Writer, GiveUp(p) PROVE IInv'
  <2>1. holder # p
    BY <1>3 DEF GiveUp, LockOwner, Critical, Writing, Pruning
  <2> QED
    BY <1>0, <1>3, <2>1, FinishInv DEF GiveUp, tree, history
<1>4. ASSUME NEW p \in Writer, Reconcile(p) PROVE IInv'
  <2>1. holder = p
    BY <1>4 DEF Reconcile, LockOwner, Critical, Writing
  <2>2. UNCHANGED <<disk, manifests, pointer, highest>>
    BY <1>4 DEF Reconcile
  <2>3. CASE Fail(p)
    BY <1>0, <2>1, <2>2, <2>3, FinishInv DEF Fail, Release
  <2>4. CASE Goto(p, "allocate") /\ UNCHANGED <<holder, local>>
    BY <1>0, <1>4, <2>2, <2>4 DEF Reconcile, Goto, local, TypeInv, TypeOK, LockOwner,
       UncommittedFilesSafe, CurrentComplete, HighestRemembered, ReadyToCommit,
       PruningCurrent, Critical, Writing, Pruning
  <2> QED
    BY <1>4, <2>3, <2>4 DEF Reconcile
<1>5. ASSUME NEW p \in Writer, Allocate(p) PROVE IInv'
  <2>1. holder = p
    BY <1>5 DEF Allocate, LockOwner, Critical, Writing
  <2>2. UNCHANGED <<tree, history>>
    BY <1>5 DEF Allocate
  <2>3. CASE Fail(p)
    BY <1>0, <2>1, <2>2, <2>3, FinishInv DEF Fail, Release, tree, history
  <2>4. ASSUME NEW id \in 1 .. MaxId + 1,
               IsNextId(id),
               gen' = [gen EXCEPT ![p] = id],
               todo' = [todo EXCEPT ![p] = job[p].snapshot.files],
               Goto(p, "artifacts"),
               UNCHANGED <<holder, job, keep>>
        PROVE  IInv'
    <3> USE <1>0, <1>5, <2>2, <2>4
        DEF Allocate, Goto, tree, history, TypeInv, TypeOK
    <3>1. LockOwner'
      BY DEF LockOwner, Critical, Writing, Pruning
    <3>2. UncommittedFilesSafe'
      BY DEF UncommittedFilesSafe
    <3>3. CurrentComplete' /\ HighestRemembered'
      BY DEF CurrentComplete, HighestRemembered
    <3>4. id > highest
      BY IdAssumption DEF HighestRemembered, IsNextId, TakenIds, Generation
    <3>5. ReadyToCommit'
      BY <3>4 DEF ReadyToCommit
    <3>6. PruningCurrent'
      BY DEF PruningCurrent, Pruning
    <3> QED
      BY <3>1, <3>2, <3>3, <3>5, <3>6
  <2> QED
    BY <1>5, <2>3, <2>4 DEF Allocate
<1>6. ASSUME NEW p \in Writer, WriteArtifact(p) PROVE IInv'
  <2>1. holder = p
    BY <1>6 DEF WriteArtifact, LockOwner, Critical, Writing
  <2>2. PICK a \in todo[p] : \E r \in InstallOutcomes(a) :
            /\ disk' = r.now
            /\ IF r.ok
               THEN /\ todo' = [todo EXCEPT ![p] = @ \ {a}]
                    /\ UNCHANGED <<holder, pc, job, gen, pred, keep>>
               ELSE Fail(p)
    BY <1>6 DEF WriteArtifact
  <2>3. /\ disk \subseteq disk'
        /\ UNCHANGED <<manifests, pointer, highest>>
    BY <1>6, <2>2, InstallResult DEF WriteArtifact, history
  <2>4. CurrentComplete' /\ HighestRemembered'
    BY <2>3 DEF CurrentComplete, HighestRemembered
  <2>5. CASE Fail(p)
    BY <1>0, <2>1, <2>3, <2>4, <2>5, WriterAssumption DEF Fail, Release, Finish,
       TypeInv, TypeOK, LockOwner, UncommittedFilesSafe, ReadyToCommit,
       PruningCurrent, Critical, Writing, Pruning
  <2>6. CASE /\ a \in disk'
             /\ todo' = [todo EXCEPT ![p] = @ \ {a}]
             /\ UNCHANGED <<holder, pc, job, gen, pred, keep>>
    <3> USE <1>6, <2>3, <2>6 DEF WriteArtifact, TypeInv, TypeOK
    <3>1. LockOwner' /\ ReadyToCommit' /\ PruningCurrent'
      BY DEF LockOwner, ReadyToCommit, PruningCurrent
    <3>2. UncommittedFilesSafe'
      BY DEF UncommittedFilesSafe
    <3> QED
      BY <1>0, <2>4, <3>1, <3>2
  <2> QED
    BY <2>2, <2>5, <2>6, InstallResult
<1>7. ASSUME NEW p \in Writer, WriteManifest(p) PROVE IInv'
  <2> DEFINE new == [id |-> gen[p], files |-> job[p].snapshot.files]
  <2>1. holder = p
    BY <1>7 DEF WriteManifest, LockOwner, Critical, Writing
  <2>2. /\ manifests \subseteq manifests'
        /\ UNCHANGED <<disk, pointer, highest>>
    BY <1>7 DEF WriteManifest, AtomicWrite
  <2>3. CurrentComplete' /\ HighestRemembered'
    BY <2>2 DEF CurrentComplete, HighestRemembered
  <2>4. CASE Fail(p)
    BY <1>0, <2>1, <2>2, <2>3, <2>4, WriterAssumption DEF Fail, Release, Finish,
       TypeInv, TypeOK, LockOwner, UncommittedFilesSafe, ReadyToCommit,
       PruningCurrent, Critical, Writing, Pruning
  <2>5. CASE new \in manifests' /\ Goto(p, "pointer") /\ UNCHANGED <<holder, local>>
    <3> USE <1>7, <2>2, <2>5 DEF WriteManifest, AllInstalled, Goto, local, TypeInv, TypeOK
    <3>1. LockOwner'
      BY DEF LockOwner, Critical, Writing, Pruning
    <3>2. UncommittedFilesSafe'
      BY DEF UncommittedFilesSafe
    <3>3. ReadyToCommit' /\ PruningCurrent'
      BY DEF ReadyToCommit, PruningCurrent, Pruning
    <3> QED
      BY <1>0, <2>3, <3>1, <3>2, <3>3
  <2> QED
    BY <1>7, <2>4, <2>5 DEF WriteManifest, AtomicWrite
<1>8. ASSUME NEW p \in Writer, WritePointer(p) PROVE IInv'
  <2> DEFINE new == [id |-> gen[p], files |-> job[p].snapshot.files]
  <2>1. holder = p
    BY <1>8 DEF WritePointer, LockOwner, Critical, Writing
  <2>2. /\ pointer' \in {pointer, new}
        /\ highest' = IF pointer'.id > highest THEN pointer'.id ELSE highest
        /\ holder' = NoWriter
        /\ UNCHANGED <<disk, manifests>>
        /\ \/ Goto(p, "generator") /\ UNCHANGED local
           \/ Finish(p)
    BY <1>8 DEF WritePointer, AtomicWrite, Release
  <2>3. /\ pc'[p] \in {"generator", "idle"}
        /\ \A q \in Writer : q # p => pc'[q] = pc[q]
    BY <2>2 DEF Goto, Finish, TypeInv, TypeOK
  <2>4. new \in manifests /\ new.files \subseteq disk /\ new.id > highest
    BY <1>8 DEF WritePointer, UncommittedFilesSafe, ReadyToCommit
  <2>5. CurrentComplete'
    BY <2>2, <2>4 DEF CurrentComplete
  <2>6. HighestRemembered'
    <3>1. highest \in Nat /\ new.id \in Nat
      BY DEF TypeInv, TypeOK
    <3>2. CASE pointer' = new
      <4>1. highest' = new.id
        BY <2>2, <2>4, <3>1, <3>2
      <4> QED
        BY <2>2, <2>4, <3>2, <4>1 DEF HighestRemembered
    <3>3. CASE pointer' = pointer
      <4>1. highest' = highest
        BY <2>2, <3>1, <3>3 DEF HighestRemembered, NoGeneration
      <4> QED
        BY <2>2, <3>3, <4>1 DEF HighestRemembered
    <3> QED
      BY <2>2, <3>2, <3>3
  <2>7. ASSUME NEW q \in Writer PROVE pc'[q] \notin Critical
    <3>1. CASE q = p
      BY <2>3, <3>1 DEF Critical, Writing, Pruning
    <3>2. CASE q # p
      BY <2>1, <2>3, <3>2, AloneInside
    <3> QED
      BY <3>1, <3>2
  <2>8. LockOwner'
    BY <2>2, <2>7, WriterAssumption DEF LockOwner
  <2>9. UncommittedFilesSafe' /\ ReadyToCommit' /\ PruningCurrent'
    BY <2>7 DEF UncommittedFilesSafe, ReadyToCommit, PruningCurrent, Critical, Writing
  <2> QED
    BY <1>0, <2>5, <2>6, <2>8, <2>9
<1>9. ASSUME NEW p \in Writer, EndGenerator(p) PROVE IInv'
  BY <1>0, <1>9 DEF EndGenerator, Goto, tree, local, TypeInv, TypeOK, LockOwner,
     UncommittedFilesSafe, CurrentComplete, HighestRemembered, ReadyToCommit,
     PruningCurrent, Critical, Writing, Pruning
<1>10. ASSUME NEW p \in Writer, BeginPrune(p) PROVE IInv'
  <2>1. holder = NoWriter /\ UNCHANGED <<tree, history>>
    BY <1>10 DEF BeginPrune, LockIsFree
  <2>2. CASE Finish(p) /\ UNCHANGED holder
    BY <1>0, <2>1, <2>2, WriterAssumption, FinishInv DEF tree, history
  <2>3. CASE /\ StillCurrent(p)
             /\ keep' = [keep EXCEPT ![p] =
                    UNION {g.files : g \in {m \in manifests : m.id \in RetainedIds(p)}}]
             /\ holder' = p
             /\ Goto(p, "pruneManifests")
             /\ UNCHANGED <<job, gen, pred, todo>>
    <3> USE <1>0, <1>10, <2>1, <2>3
        DEF BeginPrune, StillCurrent, Goto, tree, history, TypeInv, TypeOK
    <3>1. LockOwner'
      BY WriterAssumption DEF LockOwner, Critical, Writing, Pruning
    <3>2. UncommittedFilesSafe' /\ ReadyToCommit'
      BY DEF UncommittedFilesSafe, ReadyToCommit
    <3>3. CurrentComplete' /\ HighestRemembered'
      BY DEF CurrentComplete, HighestRemembered
    <3>4. gen[p] \in Id /\ pointer.id = gen[p]
      BY DEF HasRequest
    <3>5. pointer # NoGeneration
      BY <3>4 DEF NoGeneration, Id
    <3>6. pointer \in manifests /\ highest = gen[p]
      BY <3>4, <3>5 DEF CurrentComplete, HighestRemembered
    <3>7. pointer.id \in RetainedIds(p)
      BY <3>4 DEF RetainedIds, Id
    <3>8. pointer.files \subseteq keep'[p]
      BY <3>6, <3>7
    <3>9. \A q \in Writer : pc'[q] \in Pruning => q = p
      BY WriterAssumption DEF LockOwner, Critical
    <3>10. PruningCurrent'
      BY <3>6, <3>8, <3>9 DEF PruningCurrent
    <3> QED
      BY <3>1, <3>2, <3>3, <3>10
  <2> QED
    BY <1>10, <2>2, <2>3 DEF BeginPrune
<1>11. ASSUME NEW p \in Writer, PruneManifest(p) PROVE IInv'
  <2> USE <1>0, <1>11 DEF TypeInv, TypeOK
  <2>1. holder = p /\ pc[p] \in Pruning
    BY DEF PruneManifest, LockOwner, Critical, Pruning
  <2>2. PICK g \in manifests : g.id \notin RetainedIds(p) /\ manifests' = manifests \ {g}
    BY DEF PruneManifest
  <2>3. UNCHANGED <<disk, pointer, holder, pc, local, highest>>
    BY DEF PruneManifest, history
  <2>4. highest # 0 => g.id # highest
    BY <2>1, <2>2 DEF PruningCurrent, RetainedIds
  <2>5. HighestRemembered'
    BY <2>2, <2>3, <2>4 DEF HighestRemembered
  <2>6. CurrentComplete'
    BY <2>2, <2>3, <2>4 DEF CurrentComplete, HighestRemembered, Generation, Id, NoGeneration
  <2>7. \A q \in Writer : pc[q] \notin {"artifacts", "pointer"}
    BY <2>1, AloneInside DEF Critical, Writing, Pruning
  <2>8. UncommittedFilesSafe'
    BY <2>3, <2>7 DEF UncommittedFilesSafe
  <2>9. LockOwner' /\ ReadyToCommit' /\ PruningCurrent'
    BY <2>3 DEF LockOwner, ReadyToCommit, PruningCurrent, local
  <2> QED
    BY <2>5, <2>6, <2>8, <2>9
<1>12. ASSUME NEW p \in Writer, EndPruneManifests(p) PROVE IInv'
  <2>1. holder = p
    BY <1>12 DEF EndPruneManifests, LockOwner, Critical, Pruning
  <2>2. UNCHANGED <<tree, history>>
    BY <1>12 DEF EndPruneManifests
  <2>3. CASE Fail(p)
    BY <1>0, <2>1, <2>2, <2>3, FinishInv DEF Fail, Release, tree, history
  <2>4. CASE Goto(p, "pruneArtifacts") /\ UNCHANGED <<holder, local>>
    BY <1>0, <1>12, <2>2, <2>4 DEF EndPruneManifests, Goto, tree, history, local,
       TypeInv, TypeOK, LockOwner, UncommittedFilesSafe, CurrentComplete,
       HighestRemembered, ReadyToCommit, PruningCurrent, Critical, Writing, Pruning
  <2> QED
    BY <1>12, <2>3, <2>4 DEF EndPruneManifests
<1>13. ASSUME NEW p \in Writer, PruneArtifact(p) PROVE IInv'
  <2> USE <1>0, <1>13 DEF TypeInv, TypeOK
  <2>1. holder = p /\ pc[p] \in Pruning
    BY DEF PruneArtifact, LockOwner, Critical, Pruning
  <2>2. PICK a \in disk : a \notin keep[p] /\ disk' = disk \ {a}
    BY DEF PruneArtifact
  <2>3. UNCHANGED <<manifests, pointer, holder, pc, local, highest>>
    BY DEF PruneArtifact, history
  <2>4. CurrentComplete'
    BY <2>1, <2>2, <2>3 DEF CurrentComplete, PruningCurrent
  <2>5. \A q \in Writer : pc[q] \notin {"artifacts", "pointer"}
    BY <2>1, AloneInside DEF Critical, Writing, Pruning
  <2>6. UncommittedFilesSafe'
    BY <2>3, <2>5 DEF UncommittedFilesSafe
  <2>7. LockOwner' /\ HighestRemembered' /\ ReadyToCommit' /\ PruningCurrent'
    BY <2>3 DEF LockOwner, HighestRemembered, ReadyToCommit, PruningCurrent, local
  <2> QED
    BY <2>4, <2>6, <2>7
<1>14. ASSUME NEW p \in Writer, EndPrune(p) PROVE IInv'
  <2>1. holder = p
    BY <1>14 DEF EndPrune, LockOwner, Critical, Pruning
  <2> QED
    BY <1>0, <1>14, <2>1, FinishInv DEF EndPrune, Release, tree, history
<1>15. ASSUME NEW p \in Writer, Crash(p) PROVE IInv'
  BY <1>0, <1>15, FinishInv DEF Crash, tree
<1>16. CASE EditMatchLock
  BY <1>0, <1>16 DEF EditMatchLock, local, LockOwner, UncommittedFilesSafe,
     CurrentComplete, HighestRemembered, ReadyToCommit, PruningCurrent
<1>17. CASE LosePointer
  BY <1>0, <1>17 DEF LosePointer, local, LockOwner, UncommittedFilesSafe,
     CurrentComplete, HighestRemembered, ReadyToCommit, PruningCurrent
<1>18. CASE UNCHANGED vars
  BY <1>0, <1>18 DEF vars, tree, local, history, LockOwner, UncommittedFilesSafe,
     CurrentComplete, HighestRemembered, ReadyToCommit, PruningCurrent
<1> QED
  BY <1>1, <1>2, <1>3, <1>4, <1>5, <1>6, <1>7, <1>8, <1>9, <1>10, <1>11, <1>12,
     <1>13, <1>14, <1>15, <1>16, <1>17, <1>18 DEF Next, Step

\* The invariant holds throughout.
THEOREM Invariant == Spec => []IInv
  BY InvInit, InvStep, PTL DEF Spec

\* No two processes write or prune at once, because each one inside its critical
\* section is the holder of the advisory lock.
THEOREM LockExcludes == Spec => []MutualExclusion
<1>1. IInv => MutualExclusion
  BY DEF IInv, LockOwner, MutualExclusion
<1> QED
  BY <1>1, Invariant, PTL

\* manifest.json never leads to a missing manifest or artifact, whatever fails or
\* dies: publishing installs before it commits, and only the publisher of the
\* latest generation prunes.
THEOREM CurrentStaysComplete == Spec => []CurrentComplete
<1>1. IInv => CurrentComplete
  BY DEF IInv
<1> QED
  BY <1>1, Invariant, PTL

\* What a publisher has installed and not yet committed is never pruned away.
THEOREM UncommittedStaysSafe == Spec => []UncommittedFilesSafe
<1>1. IInv => UncommittedFilesSafe
  BY DEF IInv
<1> QED
  BY <1>1, Invariant, PTL

-----------------------------------------------------------------------------
(* The refinement *)

\* The pointer changes in two ways only: it is lost, or a complete generation of
\* some snapshot replaces it under a new highest id.
LEMMA PointerStep ==
    ASSUME IInv, [Next]_vars
    PROVE  \/ UNCHANGED <<pointer, highest>>
           \/ pointer' = NoGeneration /\ UNCHANGED highest
           \/ /\ pointer'.id \in Id /\ pointer'.id > highest
              /\ highest' = pointer'.id
              /\ pointer'.files \in {s.files : s \in Snapshots}
              /\ pointer' = [id |-> pointer'.id, files |-> pointer'.files]
<1>1. ASSUME NEW p \in Writer, WritePointer(p)
      PROVE  \/ UNCHANGED <<pointer, highest>>
             \/ /\ pointer' = [id |-> gen[p], files |-> job[p].snapshot.files]
                /\ highest' = gen[p] /\ gen[p] \in Id /\ gen[p] > highest
                /\ job[p] \in Job
  <2> DEFINE new == [id |-> gen[p], files |-> job[p].snapshot.files]
  <2>1. /\ pointer' \in {pointer, new}
        /\ highest' = IF pointer'.id > highest THEN pointer'.id ELSE highest
        /\ pc[p] = "pointer"
    BY <1>1 DEF WritePointer, AtomicWrite
  <2>2. gen[p] \in Id /\ job[p] \in Job /\ gen[p] > highest
    BY <2>1 DEF IInv, TypeInv, HasRequest, ReadyToCommit
  <2>3. highest \in Nat
    BY DEF IInv, TypeInv, TypeOK
  <2>4. CASE pointer' = new
    <3>1. new.id > highest
      BY <2>2
    <3>2. highest' = new.id
      BY <2>1, <2>4, <3>1
    <3> QED
      BY <2>2, <2>4, <3>2
  <2>5. CASE pointer' = pointer
    <3>1. ~(pointer.id > highest)
      BY <2>3 DEF IInv, HighestRemembered, NoGeneration
    <3> QED
      BY <2>1, <2>5, <3>1
  <2> QED
    BY <2>1, <2>4, <2>5
<1>2. ASSUME NEW p \in Writer, WritePointer(p)
      PROVE  \/ UNCHANGED <<pointer, highest>>
             \/ /\ pointer'.id \in Id /\ pointer'.id > highest
                /\ highest' = pointer'.id
                /\ pointer'.files \in {s.files : s \in Snapshots}
                /\ pointer' = [id |-> pointer'.id, files |-> pointer'.files]
  <2>1. CASE UNCHANGED <<pointer, highest>>
    BY <2>1
  <2>2. CASE /\ pointer' = [id |-> gen[p], files |-> job[p].snapshot.files]
             /\ highest' = gen[p] /\ gen[p] \in Id /\ gen[p] > highest
             /\ job[p] \in Job
    <3>1. job[p].snapshot \in Snapshots
      BY <2>2 DEF Job
    <3> QED
      BY <2>2, <3>1
  <2> QED
    BY <1>1, <1>2, <2>1, <2>2
<1>3. CASE LosePointer
  BY <1>3 DEF LosePointer
<1>4. ASSUME NEW p \in Writer,
             \/ Begin(p) \/ Acquire(p) \/ GiveUp(p) \/ Reconcile(p) \/ Allocate(p)
             \/ WriteArtifact(p) \/ WriteManifest(p) \/ EndGenerator(p)
             \/ BeginPrune(p) \/ PruneManifest(p) \/ EndPruneManifests(p)
             \/ PruneArtifact(p) \/ EndPrune(p) \/ Crash(p)
      PROVE  UNCHANGED <<pointer, highest>>
  BY <1>4 DEF Begin, Acquire, GiveUp, Reconcile, Allocate, WriteArtifact, WriteManifest,
     EndGenerator, BeginPrune, PruneManifest, EndPruneManifests, PruneArtifact,
     EndPrune, Crash, tree, history
<1>5. CASE EditMatchLock \/ UNCHANGED vars
  BY <1>5 DEF EditMatchLock, vars, tree, history
<1> QED
  BY <1>2, <1>3, <1>4, <1>5 DEF Next, Step

\* A generation becomes current only under an id above every earlier one: what the
\* scan sees still includes the highest.
THEOREM IdsIncrease == Spec => CommittedIdsIncrease
<1>1. IInv /\ [Next]_vars =>
        [pointer' # pointer /\ pointer' # NoGeneration => pointer'.id > highest]_vars
  BY PointerStep
<1> QED
  BY <1>1, Invariant, PTL DEF Spec, CommittedIdsIncrease

\* Every step of Publication is a step of GenerationStore, or leaves what readers
\* of manifest.json see alone.
THEOREM Refinement == Spec => ImplementsStore
<1> DEFINE seen == [id |-> pointer.id, files |-> pointer.files \cap disk]
<1>1. Init => Store!StoreInit
  BY DEF Init, Store!StoreInit, Store!Nothing, NoGeneration
<1>2. ASSUME IInv, IInv', [Next]_vars
      PROVE  [Store!StoreNext]_(Store!storeVars)
  <2>1. pointer.files \cap disk = pointer.files /\ (pointer.files \cap disk)' = pointer'.files
    BY <1>2 DEF IInv, CurrentComplete, NoGeneration
  <2>2. CASE UNCHANGED <<pointer, highest>>
    BY <2>1, <2>2 DEF Store!storeVars
  <2>3. CASE pointer' = NoGeneration /\ UNCHANGED highest
    BY <2>1, <2>3 DEF Store!StoreNext, Store!Lose, Store!Nothing, NoGeneration
  <2>4. CASE /\ pointer'.id \in Id /\ pointer'.id > highest
             /\ highest' = pointer'.id
             /\ pointer'.files \in {s.files : s \in Snapshots}
    BY <2>1, <2>4 DEF Store!StoreNext, Store!Commit
  <2> QED
    BY <1>2, <2>2, <2>3, <2>4, PointerStep
<1> QED
  BY <1>1, <1>2, Invariant, PTL DEF Spec, ImplementsStore, Store!StoreSpec

-----------------------------------------------------------------------------
(* Outside the lock: a host generator keeps its generation while it is the *)
(* current one or the predecessor, and what is committed agrees with the   *)
(* match lock that was reconciled.                                         *)

Published == {"generator", "pruneWaiting"} \cup Pruning
Own(p) == [id |-> gen[p], files |-> job[p].snapshot.files]

Unsuperseded == \A p \in Writer : pc[p] # "generator" => superseded[p] = 0
PublishedIds == \A p \in Writer : pc[p] \in Published => gen[p] <= highest

\* A publisher has recorded the generation it will succeed, unless that was lost.
PredecessorRecorded ==
    \A p \in Writer : pc[p] \in {"artifacts", "pointer"} =>
        pointer = NoGeneration \/ pred[p] = pointer.id

\* The generation a running generator works on is the current one, or the
\* predecessor that the publisher of the current one has recorded.
GeneratorPlace ==
    \A p \in Writer : pc[p] = "generator" =>
        /\ superseded[p] = 0 => pointer = Own(p)
        /\ superseded[p] = 1 =>
              /\ pointer # NoGeneration
              /\ \A q \in Writer : pc[q] \in Published /\ gen[q] = pointer.id => pred[q] = gen[p]

PruningSpares ==
    \A p, q \in Writer : pc[p] = "generator" /\ superseded[p] <= 1 /\ pc[q] \in Pruning =>
        job[p].snapshot.files \subseteq keep[q]

GeneratorInv ==
    /\ Unsuperseded /\ PublishedIds /\ PredecessorRecorded
    /\ GeneratorPlace /\ PruningSpares /\ GeneratorSurvives

Inv == IInv /\ GeneratorInv

-----------------------------------------------------------------------------
(* Generators *)

LEMMA GeneratorInitially == Init => GeneratorInv
  BY DEF Init, GeneratorInv, Unsuperseded, PublishedIds, PredecessorRecorded, GeneratorPlace,
         PruningSpares, GeneratorSurvives, Published, Pruning

\* What holds of one process r depends on r and on the tree; nobody else is
\* disturbed when r is no publisher of a committed generation, or no more.
LEMMA UncommittedStep ==
    ASSUME Inv, TypeOK', NEW r \in Writer,
           UNCHANGED <<pointer, highest>>, manifests \subseteq manifests', disk \subseteq disk',
           \A q \in Writer \ {r} :
              /\ pc'[q] = pc[q] /\ job'[q] = job[q] /\ gen'[q] = gen[q] /\ pred'[q] = pred[q]
              /\ keep'[q] = keep[q] /\ superseded'[q] = superseded[q],
           superseded'[r] = 0, pc'[r] \notin Published,
           pc'[r] \in {"artifacts", "pointer"} => pointer = NoGeneration \/ pred'[r] = pointer.id
    PROVE  GeneratorInv'
<1> USE DEF Inv, GeneratorInv
<1>1. \A q \in Writer : pc'[q] \in Published => q # r /\ pc[q] \in Published
  OBVIOUS
<1>2. \A q \in Writer : pc'[q] = "generator" => q # r /\ pc[q] = "generator" /\ Own(q)' = Own(q)
  BY DEF Published, Own
<1>3. Unsuperseded'
  BY DEF Unsuperseded
<1>4. PublishedIds'
  BY <1>1 DEF PublishedIds
<1>5. PredecessorRecorded'
  BY DEF PredecessorRecorded
<1>6. GeneratorPlace'
  BY <1>1, <1>2 DEF GeneratorPlace
<1>7. PruningSpares'
  BY <1>1, <1>2 DEF PruningSpares, Published
<1>8. GeneratorSurvives'
  BY <1>2 DEF GeneratorSurvives
<1> QED
  BY <1>3, <1>4, <1>5, <1>6, <1>7, <1>8

\* A process that ends its request without a generator that runs on.
LEMMA FinishGenerator ==
    ASSUME Inv, TypeOK', NEW r \in Writer, Finish(r), superseded'[r] = 0,
           \A q \in Writer \ {r} : superseded'[q] = superseded[q],
           UNCHANGED <<pointer, highest>>, manifests \subseteq manifests', disk \subseteq disk'
    PROVE  GeneratorInv'
<1>1. TypeOK
  BY DEF Inv, IInv, TypeInv
<1>2. \A q \in Writer \ {r} :
          /\ pc'[q] = pc[q] /\ job'[q] = job[q] /\ gen'[q] = gen[q] /\ pred'[q] = pred[q]
          /\ keep'[q] = keep[q]
  BY <1>1 DEF Finish, TypeOK
<1>3. pc'[r] = "idle"
  BY <1>1 DEF Finish, TypeOK
<1> QED
  BY <1>2, <1>3, UncommittedStep DEF Published, Pruning

\* A generator under way whose generation is superseded at most once finds it:
\* the publisher of the current generation keeps its own and the predecessor.
LEMMA PrunerRetains ==
    ASSUME Inv, NEW q \in Writer, pc[q] \in Published, gen[q] = pointer.id,
           NEW p \in Writer, pc[p] = "generator", superseded[p] <= 1
    PROVE  gen[p] \in RetainedIds(q)
<1>1. gen[p] \in Id /\ superseded[p] \in 0 .. 2
  BY DEF Inv, IInv, TypeInv, HasRequest, TypeOK
<1>2. CASE superseded[p] = 0
  BY <1>1, <1>2 DEF Inv, GeneratorInv, GeneratorPlace, Own, RetainedIds, Id
<1>3. CASE superseded[p] = 1
  BY <1>1, <1>3 DEF Inv, GeneratorInv, GeneratorPlace, RetainedIds, Id
<1> QED
  BY <1>1, <1>2, <1>3

\* A generator whose protection has not lapsed works for a pointer that is there.
LEMMA PointerIsThere ==
    ASSUME Inv, NEW p \in Writer, pc[p] = "generator", superseded[p] <= 1
    PROVE  pointer # NoGeneration /\ highest = pointer.id
<1>1. gen[p] \in Id /\ superseded[p] \in 0 .. 2
  BY DEF Inv, IInv, TypeInv, HasRequest, TypeOK
<1>2. pointer # NoGeneration
  BY <1>1 DEF Inv, GeneratorInv, GeneratorPlace, Own, NoGeneration, Id
<1> QED
  BY <1>2 DEF Inv, IInv, HighestRemembered

\* The commit: who was current is the predecessor now.
LEMMA CommitStep ==
    ASSUME Inv, IInv', NEW r \in Writer, WritePointer(r)
    PROVE  GeneratorInv'
<1> DEFINE new == Own(r)
<1>1. /\ pc[r] = "pointer" /\ UNCHANGED <<disk, manifests>>
      /\ pointer' = pointer \/ pointer' = new
      /\ pc'[r] # "idle" => pointer' = new
      /\ superseded' = IF pointer' = new THEN CountSupersession ELSE superseded
      /\ highest' = IF pointer'.id > highest THEN pointer'.id ELSE highest
      /\ \/ Goto(r, "generator") /\ UNCHANGED local
         \/ Finish(r)
  <2>1. PICK s \in AtomicWrite(pointer, new) :
            /\ pointer' = s.now
            /\ highest' = IF s.now.id > highest THEN s.now.id ELSE highest
            /\ superseded' = IF s.now = new THEN CountSupersession ELSE superseded
            /\ IF s.ok THEN Goto(r, "generator") /\ UNCHANGED local ELSE Finish(r)
    BY DEF WritePointer, Own
  <2>2. s.now \in {pointer, new} /\ (s.ok => s.now = new)
    BY <2>1, AtomicWriteResult
  <2>3. ~s.ok => pc'[r] = "idle"
    BY <2>1 DEF Finish, Inv, IInv, TypeInv, TypeOK
  <2> QED
    BY <2>1, <2>2, <2>3 DEF WritePointer
<1>2. TypeOK /\ TypeOK'
  BY DEF Inv, IInv, TypeInv
<1>3. /\ gen[r] \in Id /\ gen[r] > highest /\ highest \in Nat /\ new # pointer
      /\ todo[r] = {} /\ new \in manifests /\ job[r].snapshot.files \subseteq disk
  <2>1. gen[r] \in Id /\ gen[r] > highest /\ todo[r] = {}
    BY <1>1 DEF Inv, IInv, TypeInv, HasRequest, ReadyToCommit
  <2>2. highest \in Nat
    BY <1>2 DEF TypeOK
  <2>3. new # pointer
    BY <2>1, <2>2 DEF Inv, IInv, HighestRemembered, NoGeneration, Own, Id
  <2> QED
    BY <1>1, <2>1, <2>2, <2>3 DEF Inv, IInv, UncommittedFilesSafe, Own
<1>4. \A q \in Writer \ {r} :
          /\ pc'[q] = pc[q] /\ job'[q] = job[q] /\ gen'[q] = gen[q] /\ pred'[q] = pred[q]
          /\ keep'[q] = keep[q]
  BY <1>1, <1>2 DEF Goto, Finish, local, TypeOK
<1>5. CASE pointer' = pointer
  <2>1. UNCHANGED <<highest, superseded>> /\ Finish(r)
    BY <1>1, <1>2, <1>3, <1>5 DEF Inv, IInv, HighestRemembered, NoGeneration, Goto, TypeOK
  <2>2. superseded[r] = 0
    BY <1>1 DEF Inv, GeneratorInv, Unsuperseded
  <2> QED
    BY <1>1, <1>2, <1>5, <2>1, <2>2, FinishGenerator
<1>6. CASE pointer' = new
  <2>1. highest' = gen[r] /\ pointer'.id = gen[r] /\ pointer' # NoGeneration
    BY <1>1, <1>3, <1>6 DEF Own, NoGeneration, Id
  <2>2. superseded' = CountSupersession
    BY <1>1, <1>6
  <2>3. /\ superseded'[r] = 0 /\ pc'[r] \in {"idle", "generator"}
        /\ pc'[r] = "generator" => Own(r)' = new /\ pred'[r] = pred[r]
    BY <1>1, <1>2, <2>2 DEF CountSupersession, Inv, GeneratorInv, Unsuperseded, Goto, Finish, local,
                            TypeOK, Own
  <2>4. \A q \in Writer \ {r} :
            /\ Own(q)' = Own(q)
            /\ pc[q] # "generator" => superseded'[q] = superseded[q]
            /\ pc[q] = "generator" /\ superseded'[q] <= 1 =>
                  superseded[q] = 0 /\ superseded'[q] = 1
    BY <1>2, <1>4, <2>2 DEF CountSupersession, TypeOK, Own
  <2>5. \A q \in Writer \ {r} : pc[q] \notin Critical
    BY <1>1, AloneInside DEF Inv, IInv, LockOwner, Critical, Writing
  <2>6. \A q \in Writer : pc'[q] \in Published /\ gen'[q] = gen[r] => q = r
    BY <1>2, <1>3, <1>4 DEF Inv, GeneratorInv, PublishedIds, TypeOK
  <2>7. Unsuperseded'
    BY <1>4, <2>3, <2>4 DEF Unsuperseded, Inv, GeneratorInv
  <2>8. PublishedIds'
    <3>1. \A q \in Writer \ {r} : pc[q] \in Published => gen[q] <= highest' /\ gen'[q] = gen[q]
      BY <1>2, <1>3, <1>4, <2>1 DEF Inv, GeneratorInv, PublishedIds, TypeOK
    <3>2. pc'[r] \in Published => gen'[r] <= highest'
      BY <1>3, <2>1, <2>3 DEF Published, Pruning, Own, Id
    <3> QED
      BY <1>4, <3>1, <3>2 DEF PublishedIds
  <2>9. PredecessorRecorded'
    BY <1>4, <2>3, <2>5 DEF PredecessorRecorded, Critical, Writing
  <2>10. GeneratorPlace'
    <3>1. ASSUME NEW p \in Writer \ {r}, pc'[p] = "generator", superseded'[p] <= 1
          PROVE  superseded'[p] = 1 /\ pred[r] = gen[p]
      <4>1. pc[p] = "generator" /\ superseded[p] = 0 /\ superseded'[p] = 1
        BY <1>4, <2>4, <3>1
      <4>2. pointer.id = gen[p] /\ pointer # NoGeneration
        BY <4>1, PointerIsThere DEF Inv, GeneratorInv, GeneratorPlace, Own
      <4> QED
        BY <1>1, <4>1, <4>2 DEF Inv, GeneratorInv, PredecessorRecorded
    <3>2. ASSUME NEW p \in Writer, pc'[p] = "generator", superseded'[p] = 0
          PROVE  pointer' = Own(p)'
      BY <1>6, <2>3, <3>1, <3>2
    <3>3. ASSUME NEW p \in Writer, pc'[p] = "generator", superseded'[p] = 1
          PROVE  \A q \in Writer : pc'[q] \in Published /\ gen'[q] = pointer'.id => pred'[q] = gen'[p]
      <4>1. p # r
        BY <2>3, <3>3
      <4>2. pred[r] = gen[p]
        BY <3>1, <3>3, <4>1
      <4>3. pc'[r] \in Published => pred'[r] = pred[r]
        BY <2>3 DEF Published, Pruning
      <4> QED
        BY <1>4, <2>1, <2>6, <4>1, <4>2, <4>3
    <3> QED
      BY <2>1, <3>2, <3>3 DEF GeneratorPlace
  <2>11. PruningSpares'
    BY <1>4, <2>3, <2>5 DEF PruningSpares, Critical, Pruning
  <2>12. GeneratorSurvives'
    <3>1. ASSUME NEW p \in Writer \ {r}, pc'[p] = "generator", superseded'[p] <= 1
          PROVE  Own(p)' \in manifests' /\ Own(p)'.files \subseteq disk'
      <4>1. pc[p] = "generator" /\ superseded[p] <= 1
        BY <1>4, <2>4, <3>1
      <4> QED
        BY <1>1, <2>4, <4>1 DEF Inv, GeneratorInv, GeneratorSurvives, Own
    <3>2. pc'[r] = "generator" => Own(r)' \in manifests' /\ Own(r)'.files \subseteq disk'
      BY <1>1, <1>3, <2>3 DEF Own
    <3> QED
      BY <3>1, <3>2 DEF GeneratorSurvives, Own
  <2> QED
    BY <2>7, <2>8, <2>9, <2>10, <2>11, <2>12 DEF GeneratorInv
<1> QED
  BY <1>1, <1>5, <1>6

\* The lock for pruning is taken: everything protected is kept.
LEMMA BeginPruneStep ==
    ASSUME Inv, IInv', NEW r \in Writer, BeginPrune(r)
    PROVE  GeneratorInv'
<1>1. TypeOK /\ TypeOK' /\ UNCHANGED <<tree, history>> /\ pc[r] = "pruneWaiting" /\ superseded[r] = 0
  BY DEF Inv, IInv, TypeInv, BeginPrune, GeneratorInv, Unsuperseded
<1>2. CASE Finish(r)
  BY <1>1, <1>2, FinishGenerator DEF tree, history
<1>3. CASE /\ StillCurrent(r)
           /\ keep' = [keep EXCEPT ![r] =
                  UNION {g.files : g \in {m \in manifests : m.id \in RetainedIds(r)}}]
           /\ Goto(r, "pruneManifests")
           /\ UNCHANGED <<job, gen, pred, todo>>
  <2>1. /\ pc'[r] = "pruneManifests" /\ \A q \in Writer \ {r} : pc'[q] = pc[q]
        /\ \A q \in Writer \ {r} : keep'[q] = keep[q]
        /\ UNCHANGED <<job, gen, pred, disk, manifests, pointer, highest, superseded>>
    BY <1>1, <1>3 DEF Goto, TypeOK, tree, history
  <2>2. \A q \in Writer : (pc'[q] = "generator" <=> pc[q] = "generator") /\ Own(q)' = Own(q)
                          /\ (pc'[q] \in Published <=> pc[q] \in Published)
    BY <1>1, <2>1 DEF Own, Published, Pruning
  <2>3. \A q \in Writer : pc'[q] \in Pruning => q = r \/ pc[q] \in Pruning
    BY <2>1
  <2>4. Unsuperseded' /\ PublishedIds'
    BY <2>1, <2>2 DEF Inv, GeneratorInv, Unsuperseded, PublishedIds
  <2>5. PredecessorRecorded'
    BY <2>1 DEF Inv, GeneratorInv, PredecessorRecorded
  <2>6. GeneratorPlace'
    BY <2>1, <2>2 DEF Inv, GeneratorInv, GeneratorPlace
  <2>7. GeneratorSurvives'
    BY <2>1, <2>2 DEF Inv, GeneratorInv, GeneratorSurvives
  <2>8. ASSUME NEW p \in Writer, pc[p] = "generator", superseded[p] <= 1
        PROVE  job[p].snapshot.files \subseteq keep'[r]
    <3>1. gen[p] \in RetainedIds(r)
      BY <1>1, <1>3, <2>8, PrunerRetains DEF StillCurrent, Published
    <3>2. Own(p) \in manifests
      BY <2>8 DEF Inv, GeneratorInv, GeneratorSurvives, Own
    <3>3. Own(p) \in {m \in manifests : m.id \in RetainedIds(r)} /\ Own(p).files = job[p].snapshot.files
      BY <3>1, <3>2 DEF Own
    <3>4. keep'[r] = UNION {g.files : g \in {m \in manifests : m.id \in RetainedIds(r)}}
      BY <1>1, <1>3 DEF TypeOK
    <3> QED
      BY <3>3, <3>4
  <2>9. PruningSpares'
    BY <2>1, <2>2, <2>3, <2>8 DEF Inv, GeneratorInv, PruningSpares
  <2> QED
    BY <2>4, <2>5, <2>6, <2>7, <2>9 DEF GeneratorInv
<1> QED
  BY <1>2, <1>3 DEF BeginPrune

\* Steps that leave every process but r where it is, and r where it prunes.
LEMMA PruningStep ==
    ASSUME Inv, IInv', NEW r \in Writer,
           \/ PruneManifest(r) \/ PruneArtifact(r)
           \/ EndPruneManifests(r) /\ Goto(r, "pruneArtifacts") /\ UNCHANGED local
    PROVE  GeneratorInv'
<1>1. /\ pc[r] \in Pruning /\ pc'[r] \in Pruning
      /\ UNCHANGED <<local, pointer, highest, superseded>>
      /\ \A q \in Writer \ {r} : pc'[q] = pc[q]
  BY DEF Inv, IInv, TypeInv, TypeOK, PruneManifest, PruneArtifact, EndPruneManifests, Goto, Pruning,
         tree, history
<1>2. \A q \in Writer : /\ pc'[q] = "generator" <=> pc[q] = "generator"
                        /\ pc'[q] \in Published <=> pc[q] \in Published
                        /\ pc'[q] \in Pruning <=> pc[q] \in Pruning
                        /\ pc'[q] \in {"artifacts", "pointer"} <=> pc[q] \in {"artifacts", "pointer"}
                        /\ Own(q)' = Own(q)
  BY <1>1 DEF Published, Pruning, Own, local
<1>3. Unsuperseded' /\ PublishedIds' /\ PredecessorRecorded' /\ GeneratorPlace' /\ PruningSpares'
  BY <1>1, <1>2 DEF Inv, GeneratorInv, Unsuperseded, PublishedIds, PredecessorRecorded, GeneratorPlace,
                    PruningSpares, local
<1>4. ASSUME NEW p \in Writer, pc[p] = "generator", superseded[p] <= 1
      PROVE  Own(p) \in manifests' /\ Own(p).files \subseteq disk'
  <2>1. Own(p) \in manifests /\ Own(p).files \subseteq disk
    BY <1>4 DEF Inv, GeneratorInv, GeneratorSurvives, Own
  <2>2. gen[r] = pointer.id
    BY <1>1, <1>4, PointerIsThere DEF Inv, IInv, PruningCurrent
  <2>3. gen[p] \in RetainedIds(r)
    BY <1>1, <1>4, <2>2, PrunerRetains DEF Published
  <2>4. CASE PruneManifest(r)
    BY <2>1, <2>3, <2>4 DEF PruneManifest, Own
  <2>5. CASE PruneArtifact(r)
    <3>1. Own(p).files \subseteq keep[r]
      BY <1>1, <1>4 DEF Inv, GeneratorInv, PruningSpares, Own
    <3> QED
      BY <2>1, <2>5, <3>1 DEF PruneArtifact
  <2>6. CASE EndPruneManifests(r)
    BY <2>1, <2>6 DEF EndPruneManifests, tree
  <2> QED
    BY <2>4, <2>5, <2>6
<1>5. GeneratorSurvives'
  BY <1>1, <1>2, <1>4 DEF GeneratorSurvives, Own
<1> QED
  BY <1>3, <1>5 DEF GeneratorInv

LEMMA GeneratorStep == Inv /\ IInv' /\ [Next]_vars => GeneratorInv'
<1> SUFFICES ASSUME Inv, IInv', [Next]_vars PROVE GeneratorInv'
  OBVIOUS
<1>1. TypeOK /\ TypeOK'
  BY DEF Inv, IInv, TypeInv
<1>2. ASSUME NEW r \in Writer,
             \/ Begin(r) \/ Acquire(r)
             \/ Reconcile(r) /\ Goto(r, "allocate") /\ UNCHANGED local
             \/ WriteManifest(r) /\ Goto(r, "pointer") /\ UNCHANGED local
      PROVE  GeneratorInv'
  <2>1. /\ UNCHANGED <<disk, pointer, highest, superseded, gen, pred, keep>> /\ manifests \subseteq manifests'
        /\ pc[r] \in {"idle", "waiting", "reconcile", "artifacts"}
        /\ pc'[r] \in {"waiting", "reconcile", "allocate", "pointer"}
        /\ pc'[r] = "pointer" => pc[r] = "artifacts"
        /\ \A q \in Writer \ {r} : pc'[q] = pc[q] /\ job'[q] = job[q]
    <3>1. CASE Begin(r)
      BY <1>1, <3>1 DEF Begin, Goto, TypeOK, tree, history
    <3>2. CASE Acquire(r)
      BY <1>1, <3>2 DEF Acquire, Goto, TypeOK, tree, history, local
    <3>3. CASE Reconcile(r) /\ Goto(r, "allocate") /\ UNCHANGED local
      BY <1>1, <3>3 DEF Reconcile, Goto, TypeOK, local
    <3>4. CASE WriteManifest(r) /\ Goto(r, "pointer") /\ UNCHANGED local
      <4>1. manifests \subseteq manifests'
        BY <3>4 DEF WriteManifest, AtomicWrite
      <4> QED
        BY <1>1, <3>4, <4>1 DEF WriteManifest, Goto, TypeOK, local
    <3> QED
      BY <1>2, <3>1, <3>2, <3>3, <3>4
  <2>2. superseded[r] = 0
    BY <2>1 DEF Inv, GeneratorInv, Unsuperseded
  <2>3. pc'[r] = "pointer" => pointer = NoGeneration \/ pred[r] = pointer.id
    BY <2>1 DEF Inv, GeneratorInv, PredecessorRecorded
  <2> QED
    BY <1>1, <2>1, <2>2, <2>3, UncommittedStep DEF Published, Pruning
<1>3. ASSUME NEW r \in Writer, Allocate(r), ~Fail(r) PROVE GeneratorInv'
  <2>1. /\ UNCHANGED <<tree, history, job, keep>> /\ pc[r] = "allocate" /\ pc'[r] = "artifacts"
        /\ pred'[r] = pointer.id
        /\ \A q \in Writer \ {r} : pc'[q] = pc[q] /\ gen'[q] = gen[q] /\ pred'[q] = pred[q]
    BY <1>1, <1>3 DEF Allocate, Goto, TypeOK
  <2>2. superseded[r] = 0
    BY <2>1 DEF Inv, GeneratorInv, Unsuperseded
  <2> QED
    BY <1>1, <2>1, <2>2, UncommittedStep DEF Published, Pruning, tree, history
<1>4. ASSUME NEW r \in Writer, WriteArtifact(r), ~Fail(r) PROVE GeneratorInv'
  <2>1. PICK a \in todo[r] : \E o \in InstallOutcomes(a) :
            /\ disk' = o.now
            /\ IF o.ok
               THEN /\ todo' = [todo EXCEPT ![r] = @ \ {a}]
                    /\ UNCHANGED <<holder, pc, job, gen, pred, keep>>
               ELSE Fail(r)
    BY <1>4 DEF WriteArtifact
  <2>2. UNCHANGED <<pc, job, gen, pred, keep>> /\ disk \subseteq disk'
    BY <1>4, <2>1, InstallResult
  <2>3. UNCHANGED <<manifests, pointer, highest, superseded>> /\ pc[r] = "artifacts"
    BY <1>4 DEF WriteArtifact, history
  <2>4. superseded[r] = 0 /\ (pointer = NoGeneration \/ pred[r] = pointer.id)
    BY <2>3 DEF Inv, GeneratorInv, Unsuperseded, PredecessorRecorded
  <2> QED
    BY <1>1, <2>2, <2>3, <2>4, UncommittedStep DEF Published, Pruning
<1>5. ASSUME NEW r \in Writer, Finish(r),
             \/ GiveUp(r) \/ Reconcile(r) \/ Allocate(r) \/ WriteArtifact(r) \/ WriteManifest(r)
             \/ EndPruneManifests(r) \/ EndPrune(r)
      PROVE  GeneratorInv'
  <2>1. UNCHANGED <<pointer, highest, superseded>> /\ pc[r] # "generator"
    BY <1>5 DEF GiveUp, Reconcile, Allocate, WriteArtifact, WriteManifest, EndPruneManifests, EndPrune,
                tree, history
  <2>2. manifests \subseteq manifests'
    <3>1. CASE WriteManifest(r)
      BY <3>1 DEF WriteManifest, AtomicWrite
    <3>2. CASE ~WriteManifest(r)
      BY <1>5, <3>2 DEF GiveUp, Reconcile, Allocate, WriteArtifact, EndPruneManifests, EndPrune, tree
    <3> QED
      BY <3>1, <3>2
  <2>3. disk \subseteq disk'
    <3>1. CASE WriteArtifact(r)
      BY <3>1, InstallResult DEF WriteArtifact
    <3>2. CASE ~WriteArtifact(r)
      BY <1>5, <3>2 DEF GiveUp, Reconcile, Allocate, WriteManifest, EndPruneManifests, EndPrune, tree
    <3> QED
      BY <3>1, <3>2
  <2>4. superseded[r] = 0
    BY <2>1 DEF Inv, GeneratorInv, Unsuperseded
  <2> QED
    BY <1>1, <1>5, <2>1, <2>2, <2>3, <2>4, FinishGenerator
<1>6. ASSUME NEW r \in Writer, Crash(r) PROVE GeneratorInv'
  <2>1. /\ UNCHANGED tree /\ UNCHANGED highest /\ Finish(r)
        /\ superseded'[r] = 0 /\ \A q \in Writer \ {r} : superseded'[q] = superseded[q]
    BY <1>1, <1>6 DEF Crash, TypeOK
  <2> QED
    BY <1>1, <2>1, FinishGenerator DEF tree
<1>7. ASSUME NEW r \in Writer, EndGenerator(r) PROVE GeneratorInv'
  <2>1. /\ UNCHANGED <<tree, local, highest>> /\ pc[r] = "generator" /\ pc'[r] = "pruneWaiting"
        /\ superseded'[r] = 0
        /\ \A q \in Writer \ {r} : pc'[q] = pc[q] /\ superseded'[q] = superseded[q]
    BY <1>1, <1>7 DEF EndGenerator, Goto, TypeOK
  <2>2. \A q \in Writer : pc'[q] = "generator" => q # r /\ pc[q] = "generator" /\ Own(q)' = Own(q)
    BY <2>1 DEF Own, local
  <2>3. \A q \in Writer : /\ pc'[q] \in Published <=> pc[q] \in Published
                          /\ pc'[q] \in Pruning <=> pc[q] \in Pruning
                          /\ pc'[q] \in {"artifacts", "pointer"} <=> pc[q] \in {"artifacts", "pointer"}
    BY <2>1 DEF Published, Pruning
  <2> QED
    BY <2>1, <2>2, <2>3 DEF Inv, GeneratorInv, Unsuperseded, PublishedIds, PredecessorRecorded,
                            GeneratorPlace, PruningSpares, GeneratorSurvives, tree, local
<1>8. CASE LosePointer
  <2>1. /\ UNCHANGED <<disk, manifests, pc, local, highest>> /\ pointer' = NoGeneration
        /\ superseded' = [q \in Writer |-> IF pc[q] = "generator" THEN 2 ELSE superseded[q]]
    BY <1>8 DEF LosePointer
  <2> QED
    BY <2>1 DEF Inv, GeneratorInv, Unsuperseded, PublishedIds, PredecessorRecorded,
                GeneratorPlace, PruningSpares, GeneratorSurvives, local
<1>9. CASE EditMatchLock \/ UNCHANGED vars
  <2>1. UNCHANGED <<disk, manifests, pointer, pc, local, highest, superseded>>
    BY <1>9 DEF EditMatchLock, vars, tree, history
  <2> QED
    BY <2>1 DEF Inv, GeneratorInv, Unsuperseded, PublishedIds, PredecessorRecorded,
                GeneratorPlace, PruningSpares, GeneratorSurvives, local, Own
<1>10. ASSUME NEW r \in Writer, EndPruneManifests(r) PROVE GeneratorInv'
  BY <1>5, <1>10, PruningStep DEF EndPruneManifests, Fail
<1>11. ASSUME NEW r \in Writer, Reconcile(r) PROVE GeneratorInv'
  BY <1>2, <1>5, <1>11 DEF Reconcile, Fail
<1>12. ASSUME NEW r \in Writer, WriteManifest(r) PROVE GeneratorInv'
  BY <1>2, <1>5, <1>12 DEF WriteManifest, Fail
<1>13. ASSUME NEW r \in Writer, Begin(r) \/ Step(r) \/ Crash(r) PROVE GeneratorInv'
  BY <1>2, <1>3, <1>4, <1>5, <1>6, <1>7, <1>10, <1>11, <1>12, <1>13, CommitStep, BeginPruneStep,
     PruningStep DEF Step, Fail, GiveUp, EndPrune
<1> QED
  BY <1>8, <1>9, <1>13 DEF Next

\* A host generator works without the lock; its generation is the current one or
\* the recorded predecessor until a second publication follows, and pruning, which
\* belongs to the publisher of the current one, retains both.
THEOREM GeneratorsSurvive == Spec => []GeneratorSurvives
<1>1. Init => Inv
  BY InvInit, GeneratorInitially DEF Inv
<1>2. Inv /\ [Next]_vars => Inv'
  BY InvStep, GeneratorStep DEF Inv
<1>3. Inv => GeneratorSurvives
  BY DEF Inv, GeneratorInv
<1> QED
  BY <1>1, <1>2, <1>3, PTL DEF Spec

-----------------------------------------------------------------------------
(* The match lock *)

\* What was reconciled is what is about to be committed.
LockReconciled ==
    \A p \in Writer : pc[p] \in {"allocate", "artifacts", "pointer"} /\ ~edited =>
        LockAgrees(matchLock, job[p].snapshot.decisions)

\* Reconciliation succeeds with a file that agrees.
LEMMA ReconciledAgrees ==
    ASSUME NEW file, NEW want, NEW mode \in {"update", "locked"},
           NEW r \in ReconcileOutcomes(file, want, mode), r.ok
    PROVE  LockAgrees(r.now, want)
<1>1. LockAgrees(LockFor(want), want)
  BY DEF LockAgrees, LockFor
<1>2. file.form # "newer"
  BY DEF ReconcileOutcomes
<1>3. CASE mode = "locked"
  BY <1>2, <1>3 DEF ReconcileOutcomes
<1>4. CASE mode = "update"
  <2>1. r.now = LockFor(want)
    BY <1>2, <1>4 DEF ReconcileOutcomes, AtomicWrite
  <2> QED
    BY <1>1, <2>1
<1> QED
  BY <1>3, <1>4

LEMMA LockStep == IInv /\ LockReconciled /\ [Next]_vars => LockReconciled'
<1> SUFFICES ASSUME IInv, LockReconciled, [Next]_vars PROVE LockReconciled'
  OBVIOUS
<1>1. TypeOK
  BY DEF IInv, TypeInv
<1>2. ASSUME NEW r \in Writer, Reconcile(r) PROVE LockReconciled'
  <2>1. PICK o \in ReconcileOutcomes(matchLock, job[r].snapshot.decisions, job[r].mode) :
            /\ matchLock' = o.now
            /\ IF o.ok /\ job[r].kind = "publish"
               THEN /\ Goto(r, "allocate")
                    /\ UNCHANGED <<holder, local>>
               ELSE Fail(r)
    BY <1>2 DEF Reconcile
  <2>2. \A q \in Writer \ {r} : pc[q] \notin Critical
    BY <1>2, AloneInside DEF Reconcile, IInv, LockOwner, Critical, Writing
  <2>3. \A q \in Writer \ {r} : pc'[q] = pc[q]
    BY <1>1, <2>1 DEF Goto, Fail, Finish, TypeOK
  <2>4. pc'[r] = "allocate" => LockAgrees(matchLock', job'[r].snapshot.decisions)
    <3>1. job[r].mode \in {"update", "locked"}
      BY <1>1, JobFiles DEF TypeOK
    <3>2. pc'[r] = "allocate" => o.ok /\ job' = job
      BY <1>1, <2>1 DEF Fail, Finish, TypeOK, local
    <3> QED
      BY <2>1, <3>1, <3>2, ReconciledAgrees
  <2>5. pc'[r] \in {"allocate", "idle"}
    BY <1>1, <2>1 DEF Goto, Fail, Finish, TypeOK
  <2> QED
    BY <2>2, <2>3, <2>4, <2>5 DEF LockReconciled, Critical, Writing
<1>3. CASE EditMatchLock
  BY <1>3 DEF EditMatchLock, LockReconciled
<1>4. ASSUME UNCHANGED <<matchLock, edited>>,
             \A p \in Writer : pc'[p] \in {"allocate", "artifacts", "pointer"} =>
                 pc[p] \in {"allocate", "artifacts", "pointer"} /\ job'[p] = job[p]
      PROVE  LockReconciled'
  BY <1>4 DEF LockReconciled
<1>5. ASSUME NEW r \in Writer, Begin(r) PROVE LockReconciled'
  BY <1>1, <1>4, <1>5 DEF Begin, Goto, TypeOK, tree, history
<1>6. ASSUME NEW r \in Writer, Finish(r), UNCHANGED <<matchLock, edited>> PROVE LockReconciled'
  BY <1>1, <1>4, <1>6 DEF Finish, TypeOK
<1>7. ASSUME NEW r \in Writer, NEW phase \in Phase, Goto(r, phase), UNCHANGED <<job, matchLock, edited>>,
             phase \in {"allocate", "artifacts", "pointer"} => pc[r] \in {"allocate", "artifacts", "pointer"}
      PROVE  LockReconciled'
  BY <1>1, <1>4, <1>7 DEF Goto, TypeOK
<1>8. ASSUME NEW r \in Writer, Acquire(r) \/ EndGenerator(r) PROVE LockReconciled'
  BY <1>7, <1>8 DEF Acquire, EndGenerator, tree, history, local, Phase, Critical, Writing
<1>9. ASSUME NEW r \in Writer, GiveUp(r) \/ EndPrune(r) \/ Crash(r) PROVE LockReconciled'
  BY <1>6, <1>9 DEF GiveUp, EndPrune, Crash, tree, history
<1>10. ASSUME NEW r \in Writer, Allocate(r) PROVE LockReconciled'
  <2>1. UNCHANGED <<matchLock, edited>> /\ pc[r] = "allocate"
    BY <1>10 DEF Allocate, tree, history
  <2>2. CASE Goto(r, "artifacts") /\ UNCHANGED job
    BY <1>7, <2>1, <2>2 DEF Phase, Critical, Writing
  <2> QED
    BY <1>6, <1>10, <2>1, <2>2 DEF Allocate, Fail
<1>11. ASSUME NEW r \in Writer, WriteArtifact(r) PROVE LockReconciled'
  <2>1. UNCHANGED <<matchLock, edited>>
    BY <1>11 DEF WriteArtifact, history
  <2>2. CASE UNCHANGED <<pc, job>>
    BY <1>4, <2>1, <2>2
  <2> QED
    BY <1>6, <1>11, <2>1, <2>2 DEF WriteArtifact, Fail
<1>12. ASSUME NEW r \in Writer, WriteManifest(r) PROVE LockReconciled'
  <2>1. UNCHANGED <<matchLock, edited>> /\ pc[r] = "artifacts"
    BY <1>12 DEF WriteManifest
  <2>2. CASE Goto(r, "pointer") /\ UNCHANGED local
    BY <1>7, <2>1, <2>2 DEF Phase, Critical, Writing, local
  <2> QED
    BY <1>6, <1>12, <2>1, <2>2 DEF WriteManifest, Fail
<1>13. ASSUME NEW r \in Writer, WritePointer(r) PROVE LockReconciled'
  <2>1. UNCHANGED <<matchLock, edited>>
    BY <1>13 DEF WritePointer
  <2>2. CASE Goto(r, "generator") /\ UNCHANGED local
    BY <1>7, <2>1, <2>2 DEF Phase, local
  <2> QED
    BY <1>6, <1>13, <2>1, <2>2 DEF WritePointer
<1>14. ASSUME NEW r \in Writer, BeginPrune(r) \/ EndPruneManifests(r) PROVE LockReconciled'
  <2>1. UNCHANGED <<matchLock, edited>>
    BY <1>14 DEF BeginPrune, EndPruneManifests, tree, history
  <2>2. CASE \E phase \in Pruning : Goto(r, phase) /\ UNCHANGED job
    BY <1>7, <2>1, <2>2 DEF Phase, Critical, Pruning
  <2> QED
    BY <1>6, <1>14, <2>1, <2>2 DEF BeginPrune, EndPruneManifests, Fail, Pruning, local
<1>15. ASSUME NEW r \in Writer, PruneManifest(r) \/ PruneArtifact(r) PROVE LockReconciled'
  BY <1>4, <1>15 DEF PruneManifest, PruneArtifact, history, local
<1>16. CASE LosePointer \/ UNCHANGED vars
  BY <1>4, <1>16 DEF LosePointer, vars, tree, history, local
<1> QED
  BY <1>2, <1>3, <1>5, <1>8, <1>9, <1>10, <1>11, <1>12, <1>13, <1>14, <1>15, <1>16 DEF Next, Step

\* The decisions that are committed are those of dsql.lock, unless the user
\* edits it after it was reconciled: nobody else writes it while the lock is held.
THEOREM CommitsMatchLock == Spec => CommitMatchesLock
<1>1. Init => LockReconciled
  BY DEF Init, LockReconciled
<1>2. ASSUME IInv, LockReconciled, [Next]_vars, pointer' # pointer, pointer' # NoGeneration, ~edited
      PROVE  \E p \in Writer :
                /\ gen[p] = pointer'.id
                /\ LET want == job[p].snapshot.decisions
                   IN  IF want = NoDecisions
                       THEN matchLock = NoLockFile
                       ELSE /\ matchLock.form \in {"canonical", "reworded"}
                            /\ matchLock.says = want
  <2>1. PICK p \in Writer : WritePointer(p)
    BY <1>2 DEF Next, Step, Begin, Acquire, GiveUp, Reconcile, Allocate, WriteArtifact, WriteManifest,
       EndGenerator, BeginPrune, PruneManifest, EndPruneManifests, PruneArtifact,
       EndPrune, Crash, EditMatchLock, LosePointer, vars, tree, history
  <2>2. pc[p] = "pointer" /\ pointer' = [id |-> gen[p], files |-> job[p].snapshot.files]
    BY <1>2, <2>1 DEF WritePointer, AtomicWrite
  <2>3. LockAgrees(matchLock, job[p].snapshot.decisions)
    BY <1>2, <2>2 DEF LockReconciled
  <2> QED
    BY <2>2, <2>3 DEF LockAgrees
<1>3. IInv /\ LockReconciled /\ [Next]_vars =>
        [pointer' # pointer /\ pointer' # NoGeneration /\ ~edited =>
            \E p \in Writer :
                /\ gen[p] = pointer'.id
                /\ LET want == job[p].snapshot.decisions
                   IN  IF want = NoDecisions
                       THEN matchLock = NoLockFile
                       ELSE /\ matchLock.form \in {"canonical", "reworded"}
                            /\ matchLock.says = want]_vars
  BY <1>2
<1> QED
  BY <1>1, <1>3, LockStep, Invariant, PTL DEF Spec, CommitMatchesLock
=============================================================================
