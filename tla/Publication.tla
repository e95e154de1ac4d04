----------------------------- MODULE Publication -----------------------------
(***************************************************************************)
(* Transactional publication of generations into <project>/dsql/build by   *)
(* several processes: `dsql daemon`, `dsql generate`, `dsql lock` and      *)
(* `dsql validate --locked` (crates/dsql-generate/src/publish.rs).         *)
(*                                                                         *)
(* A publisher polls for the advisory lock up to a deadline, reconciles    *)
(* the filter match lock, allocates an id above the pointer and every      *)
(* immutable manifest on disk, writes its content-addressed artifacts, its *)
(* immutable manifest.<id>.json and, last, the pointer manifest.json.  It  *)
(* then releases the lock, runs the host generator on the immutable        *)
(* manifest, and prunes under the lock what neither its generation nor the *)
(* recorded predecessor names.  Any step may fail and any process may die  *)
(* between two steps.                                                      *)
(*                                                                         *)
(* An artifact stands for its bytes; AddressOf gives the file it is        *)
(* written to (a 64-bit prefix of its hash), so two artifacts may collide. *)
(* The disk is the set of artifacts found at their own address.            *)
(***************************************************************************)
EXTENDS Naturals, FiniteSets

CONSTANTS
    Writer,         \* processes that use the build directory
    NoWriter,       \* the advisory lock is free
    Artifact,       \* serialized artifacts
    AddressOf,      \* [Artifact -> file], the content-addressed file of each
    Decisions,      \* what a filter match lock may record
    NoDecisions,    \* the empty record: its canonical file is no file
    Snapshots,      \* assembled snapshots, [files, decisions]
    UserLocks,      \* what a user may put in dsql.lock by hand
    MaxId           \* stands for 2^64 - 1, the last generation id

ASSUME WriterAssumption == NoWriter \notin Writer
ASSUME IdAssumption == MaxId \in Nat \ {0}
ASSUME SnapshotAssumption ==
    Snapshots \subseteq [files: SUBSET Artifact, decisions: Decisions]
ASSUME DecisionsAssumption == NoDecisions \in Decisions

VARIABLES
    matchLock,      \* the file dsql/dsql.lock
    disk,           \* artifacts present at their address
    manifests,      \* immutable manifests present, as generations
    pointer,        \* the generation manifest.json describes
    holder,         \* who holds the advisory lock build/.lock
    pc,             \* where each process is
    job,            \* the request a process is working on
    gen,            \* the id it allocated, 0 before
    pred,           \* the id the pointer named when it allocated, 0 for none
    todo,           \* artifacts it has still to write
    keep,           \* artifacts its pruning retains
    edited,         \* history: the user edited dsql.lock since it was reconciled
    highest,        \* history: the highest id the pointer has ever named
    superseded      \* history: how often the pointer moved since the process
                    \* committed, counted up to 2

tree == <<matchLock, disk, manifests, pointer>>
local == <<job, gen, pred, todo, keep>>
history == <<edited, highest, superseded>>
vars == <<tree, holder, pc, local, history>>

-----------------------------------------------------------------------------
(* Types *)

Id == 1 .. MaxId
Generation == [id: Id, files: SUBSET Artifact]
NoGeneration == [id |-> 0, files |-> {}]

Job == [kind: {"publish", "reconcile"}, mode: {"update", "locked"},
        snapshot: Snapshots]
NoJob == [kind |-> "none", mode |-> "update",
          snapshot |-> [files |-> {}, decisions |-> NoDecisions]]

\* dsql.lock: absent, written by this compiler, semantically equal but
\* reworded by hand, unparsable, or of a newer format version.
MatchLockFile ==
    [form: {"absent", "canonical", "reworded", "malformed", "newer"},
     says: Decisions]
NoLockFile == [form |-> "absent", says |-> NoDecisions]

Writing == {"reconcile", "allocate", "artifacts", "pointer"}
Pruning == {"pruneManifests", "pruneArtifacts"}
Critical == Writing \cup Pruning
Phase == {"idle", "waiting", "generator", "pruneWaiting"} \cup Critical

TypeOK ==
    /\ matchLock \in MatchLockFile
    /\ disk \subseteq Artifact
    /\ manifests \subseteq Generation
    /\ pointer \in Generation \cup {NoGeneration}
    /\ holder \in Writer \cup {NoWriter}
    /\ pc \in [Writer -> Phase]
    /\ job \in [Writer -> Job \cup {NoJob}]
    /\ gen \in [Writer -> 0 .. MaxId]
    /\ pred \in [Writer -> 0 .. MaxId]
    /\ todo \in [Writer -> SUBSET Artifact]
    /\ keep \in [Writer -> SUBSET Artifact]
    /\ edited \in BOOLEAN
    /\ highest \in 0 .. MaxId
    /\ superseded \in [Writer -> 0 .. 2]

ASSUME UserLocksAssumption == UserLocks \subseteq MatchLockFile

-----------------------------------------------------------------------------
(* Building blocks of the code *)

\* A temp file written, synced and renamed over the target: it takes effect
\* and reports it; it fails before the rename, leaving the target; or the sync
\* of the directory fails after the rename, and the error hides that the
\* target already changed.
AtomicWrite(before, after) ==
    { [ok |-> TRUE, now |-> after],
      [ok |-> FALSE, now |-> before],
      [ok |-> FALSE, now |-> after] }

\* Bug: an empty set of decisions is written out as an empty document.
KeepsEmptyLock(want) == [form |-> "canonical", says |-> want]

\* The canonical file for a set of decisions.
LockFor(want) ==
    IF want = NoDecisions THEN NoLockFile
                          ELSE [form |-> "canonical", says |-> want]

\* Bug: locked mode asks only whether the lock parses.
LockParses(file, want) == file.form \in {"absent", "canonical", "reworded"}

\* What locked mode accepts: no file when nothing is pinned, otherwise a file
\* that parses to the same decisions.
LockAgrees(file, want) ==
    IF want = NoDecisions
    THEN file = NoLockFile
    ELSE file.form \in {"canonical", "reworded"} /\ file.says = want

\* Reconciling dsql.lock with the decisions of a snapshot: what it may report
\* and leave behind.  Reading the file may fail in either mode.
ReconcileOutcomes(file, want, mode) ==
    LET accepted == [ok |-> TRUE, now |-> file]
        refused == [ok |-> FALSE, now |-> file]
    IN  {refused} \cup
        CASE file.form = "newer" -> {}
          [] file.form # "newer" /\ mode = "locked" ->
                {r \in {accepted} : LockAgrees(file, want)}
          [] file.form # "newer" /\ mode = "update" ->
                IF file = LockFor(want)
                THEN {accepted}
                ELSE AtomicWrite(file, LockFor(want))

\* Bug: trust the pointer, and do not scan the immutable manifests.
PointerOnlyIds == {pointer.id}

\* Ids that a new generation must stay above.
TakenIds == {pointer.id} \cup {g.id : g \in manifests}

\* max(taken) + 1, when it fits the counter.
IsNextId(id) ==
    /\ \E taken \in TakenIds : id = taken + 1
    /\ \A taken \in TakenIds : taken < id

\* Bug: the counter is incremented unchecked.
Unchecked(id) == TRUE

CounterFits(id) == id <= MaxId

\* Bug: whatever is at the address is overwritten.
Overwrite(a) ==
    AtomicWrite(disk, {b \in disk : AddressOf[b] # AddressOf[a]} \cup {a})

\* Installing one artifact: it is already there byte for byte, its address
\* holds other bytes (AddressCollision), or it is absent and written.
InstallOutcomes(a) ==
    CASE a \in disk -> {[ok |-> TRUE, now |-> disk]}
      [] a \notin disk /\ (\E b \in disk : AddressOf[b] = AddressOf[a]) ->
            {[ok |-> FALSE, now |-> disk]}
      [] OTHER -> AtomicWrite(disk, disk \cup {a})

\* Bug: the manifest does not wait for the artifacts it names.
ManifestFirst(p) == TRUE

AllInstalled(p) == todo[p] = {}

\* Bug: a free lock is not required to take it.
LockIsAlwaysFree == TRUE

LockIsFree == holder = NoWriter

\* Bug: prune without asking whether another publisher superseded us.
AnyGenerationCurrent(p) == TRUE

\* Pruning belongs to the publisher of the current generation.
StillCurrent(p) == pointer.id = gen[p]

\* Bug: retain the published generation only.
OwnGeneration(p) == {gen[p]}

\* The generations pruning retains: its own and the recorded predecessor.
RetainedIds(p) == {gen[p], pred[p]} \ {0}

ManifestOf(id) == {g \in manifests : g.id = id}

\* A process is done with its request and forgets it.
Finish(p) ==
    /\ pc' = [pc EXCEPT ![p] = "idle"]
    /\ job' = [job EXCEPT ![p] = NoJob]
    /\ gen' = [gen EXCEPT ![p] = 0]
    /\ pred' = [pred EXCEPT ![p] = 0]
    /\ todo' = [todo EXCEPT ![p] = {}]
    /\ keep' = [keep EXCEPT ![p] = {}]

Goto(p, phase) == pc' = [pc EXCEPT ![p] = phase]

Release == holder' = NoWriter

\* The body under the lock ends with an error: the guard drops.
Fail(p) == Finish(p) /\ Release

-----------------------------------------------------------------------------
(* Publication *)

Init ==
    /\ matchLock \in UserLocks \cup {NoLockFile}
    /\ disk = {} /\ manifests = {} /\ pointer = NoGeneration
    /\ holder = NoWriter
    /\ pc = [p \in Writer |-> "idle"]
    /\ job = [p \in Writer |-> NoJob]
    /\ gen = [p \in Writer |-> 0]
    /\ pred = [p \in Writer |-> 0]
    /\ todo = [p \in Writer |-> {}]
    /\ keep = [p \in Writer |-> {}]
    /\ edited = FALSE /\ highest = 0
    /\ superseded = [p \in Writer |-> 0]

\* A compile or a CLI command hands an assembled snapshot to the publisher.
Begin(p) ==
    /\ pc[p] = "idle"
    /\ \E j \in Job : job' = [job EXCEPT ![p] = j]
    /\ Goto(p, "waiting")
    /\ UNCHANGED <<tree, holder, gen, pred, todo, keep, history>>

\* A poll finds the lock free.
Acquire(p) ==
    /\ pc[p] = "waiting"
    /\ LockIsFree
    /\ holder' = p
    /\ Goto(p, "reconcile")
    /\ UNCHANGED <<tree, local, history>>

\* Bug: poll for the lock without a deadline.
WaitForever(p) == FALSE /\ UNCHANGED vars

\* The deadline passes while the lock is held (PublicationLocked), or the
\* lock file cannot be opened or locked.  A publisher reports it; pruning
\* only logs it.
GiveUp(p) ==
    /\ pc[p] \in {"waiting", "pruneWaiting"}
    /\ Finish(p)
    /\ UNCHANGED <<tree, holder, history>>

\* reconcile_match_lock_inner, the whole of `dsql lock`, the first step of a
\* publication.
Reconcile(p) ==
    /\ pc[p] = "reconcile"
    /\ edited' = FALSE
    /\ \E r \in ReconcileOutcomes(matchLock, job[p].snapshot.decisions, job[p].mode) :
        /\ matchLock' = r.now
        /\ IF r.ok /\ job[p].kind = "publish"
           THEN /\ Goto(p, "allocate")
                /\ UNCHANGED <<holder, local>>
           ELSE Fail(p)
    /\ UNCHANGED <<disk, manifests, pointer, highest, superseded>>

\* The pointer is read for the predecessor, and the directory scanned for the
\* next id.  The scan may fail, and the counter may overflow.
Allocate(p) ==
    /\ pc[p] = "allocate"
    /\ \/ \E id \in 1 .. MaxId + 1 :
            /\ IsNextId(id)
            /\ CounterFits(id)
            /\ gen' = [gen EXCEPT ![p] = id]
            /\ pred' = [pred EXCEPT ![p] = pointer.id]
            /\ todo' = [todo EXCEPT ![p] = job[p].snapshot.files]
            /\ Goto(p, "artifacts")
            /\ UNCHANGED <<holder, job, keep>>
       \/ Fail(p)
    /\ UNCHANGED <<tree, history>>

\* One artifact of the snapshot.
WriteArtifact(p) ==
    /\ pc[p] = "artifacts"
    /\ \E a \in todo[p] : \E r \in InstallOutcomes(a) :
        /\ disk' = r.now
        /\ IF r.ok
           THEN /\ todo' = [todo EXCEPT ![p] = @ \ {a}]
                /\ UNCHANGED <<holder, pc, job, gen, pred, keep>>
           ELSE Fail(p)
    /\ UNCHANGED <<matchLock, manifests, pointer, history>>

\* The immutable manifest, unless a file of that name exists.
WriteManifest(p) ==
    /\ pc[p] = "artifacts"
    /\ AllInstalled(p)
    /\ LET new == [id |-> gen[p], files |-> job[p].snapshot.files]
           outcomes ==
               IF ManifestOf(gen[p]) = {}
               THEN AtomicWrite(manifests, manifests \cup {new})
               ELSE {[ok |-> FALSE, now |-> manifests]}
       IN  \E r \in outcomes :
               /\ manifests' = r.now
               /\ IF r.ok
                  THEN Goto(p, "pointer") /\ UNCHANGED <<holder, local>>
                  ELSE Fail(p)
    /\ UNCHANGED <<matchLock, disk, pointer, edited, highest, superseded>>

\* Every process whose generator runs sees one more publication.
CountSupersession ==
    [q \in Writer |->
        IF pc[q] = "generator" /\ superseded[q] < 2 THEN superseded[q] + 1
                                                    ELSE superseded[q]]

\* The commit point: the pointer is renamed into place.  Reporting success or
\* failure drops the lock.
WritePointer(p) ==
    /\ pc[p] = "pointer"
    /\ LET new == [id |-> gen[p], files |-> job[p].snapshot.files]
       IN  \E r \in AtomicWrite(pointer, new) :
            /\ pointer' = r.now
            /\ highest' = IF r.now.id > highest THEN r.now.id ELSE highest
            /\ superseded' = IF r.now = new THEN CountSupersession ELSE superseded
            /\ IF r.ok THEN Goto(p, "generator") /\ UNCHANGED local
                       ELSE Finish(p)
    /\ Release
    /\ UNCHANGED <<matchLock, disk, manifests, edited>>

-----------------------------------------------------------------------------
(* After the commit *)

\* The host generator, if configured, ends; with whatever status, pruning
\* follows.  A daemon answers its request in between.
EndGenerator(p) ==
    /\ pc[p] = "generator"
    /\ Goto(p, "pruneWaiting")
    /\ superseded' = [superseded EXCEPT ![p] = 0]
    /\ UNCHANGED <<tree, holder, local, edited, highest>>

\* The lock is taken again.  Pruning is skipped when another publisher
\* superseded this one, and aborted when a manifest it must retain is missing
\* or cannot be read.
BeginPrune(p) ==
    /\ pc[p] = "pruneWaiting"
    /\ LockIsFree
    /\ \/ /\ StillCurrent(p)
          /\ \A id \in RetainedIds(p) : ManifestOf(id) # {}
          /\ keep' = [keep EXCEPT ![p] =
                UNION {g.files : g \in {m \in manifests : m.id \in RetainedIds(p)}}]
          /\ holder' = p
          /\ Goto(p, "pruneManifests")
          /\ UNCHANGED <<job, gen, pred, todo>>
       \/ Finish(p) /\ UNCHANGED holder
    /\ UNCHANGED <<tree, history>>

\* One manifest of another generation goes.
PruneManifest(p) ==
    /\ pc[p] = "pruneManifests"
    /\ \E g \in manifests :
        /\ g.id \notin RetainedIds(p)
        /\ manifests' = manifests \ {g}
    /\ UNCHANGED <<matchLock, disk, pointer, holder, pc, local, history>>

\* Each manifest was tried; those still there could not be removed.  A failing
\* scan of the build directory ends pruning here.
EndPruneManifests(p) ==
    /\ pc[p] = "pruneManifests"
    /\ \/ Goto(p, "pruneArtifacts") /\ UNCHANGED <<holder, local>>
       \/ Fail(p)
    /\ UNCHANGED <<tree, history>>

\* One artifact that no retained manifest names goes.
PruneArtifact(p) ==
    /\ pc[p] = "pruneArtifacts"
    /\ \E a \in disk :
        /\ AddressOf[a] \notin {AddressOf[b] : b \in keep[p]}
        /\ disk' = disk \ {a}
    /\ UNCHANGED <<matchLock, manifests, pointer, holder, pc, local, history>>

\* Each artifact was tried, and the lock drops.
EndPrune(p) ==
    /\ pc[p] = "pruneArtifacts"
    /\ Finish(p)
    /\ Release
    /\ UNCHANGED <<tree, history>>

-----------------------------------------------------------------------------
(* The environment *)

\* The process dies, or a daemon is told to shut down between answering and
\* pruning: what it knew is lost, and the operating system drops its lock.
Crash(p) ==
    /\ pc[p] # "idle"
    /\ Finish(p)
    /\ holder' = IF holder = p THEN NoWriter ELSE holder
    /\ superseded' = [superseded EXCEPT ![p] = 0]
    /\ UNCHANGED <<tree, edited, highest>>

\* The user edits or deletes dsql.lock, which no lock prevents.
EditMatchLock ==
    /\ matchLock' \in UserLocks \ {matchLock}
    /\ edited' = TRUE
    /\ UNCHANGED <<disk, manifests, pointer, holder, pc, local,
                   highest, superseded>>

\* manifest.json is deleted, damaged or replaced by one of another version:
\* no generation is current, and no generator is protected by a predecessor.
LosePointer ==
    /\ pointer # NoGeneration
    /\ pointer' = NoGeneration
    /\ superseded' = [q \in Writer |-> IF pc[q] = "generator" THEN 2 ELSE superseded[q]]
    /\ UNCHANGED <<matchLock, disk, manifests, holder, pc, local,
                   edited, highest>>

-----------------------------------------------------------------------------

\* What a process does once it works on a request.
Step(p) ==
    \/ Acquire(p) \/ GiveUp(p) \/ Reconcile(p) \/ Allocate(p)
    \/ WriteArtifact(p) \/ WriteManifest(p) \/ WritePointer(p)
    \/ EndGenerator(p) \/ BeginPrune(p) \/ PruneManifest(p)
    \/ EndPruneManifests(p) \/ PruneArtifact(p) \/ EndPrune(p)

Next ==
    \/ \E p \in Writer : Begin(p) \/ Step(p) \/ Crash(p)
    \/ EditMatchLock
    \/ LosePointer

Spec == Init /\ [][Next]_vars

\* A process that works on a request keeps running; the generator it waits for
\* ends.
Fairness == \A p \in Writer : WF_vars(Step(p))

FairSpec == Spec /\ Fairness

-----------------------------------------------------------------------------
(* Safety *)

\* Whoever follows manifest.json finds a complete generation: its immutable
\* manifest and every artifact it names, whatever is being written, pruned,
\* refused or abandoned half way (publish, prune).
CurrentComplete ==
    pointer # NoGeneration => pointer \in manifests /\ pointer.files \subseteq disk

\* Pruning never eats what another publisher has written and not yet
\* committed: the artifacts done so far, and the manifest before the commit.
UncommittedFilesSafe ==
    \A p \in Writer :
        /\ pc[p] \in {"artifacts", "pointer"} =>
              (job[p].snapshot.files \ todo[p]) \subseteq disk
        /\ pc[p] = "pointer" =>
              [id |-> gen[p], files |-> job[p].snapshot.files] \in manifests

\* A host generator works on DSQL_MANIFEST without the lock.  Until a second
\* publication follows its own, the manifest and every artifact stay, because
\* pruning retains the recorded predecessor.
GeneratorSurvives ==
    \A p \in Writer :
        pc[p] = "generator" /\ superseded[p] <= 1 =>
            /\ [id |-> gen[p], files |-> job[p].snapshot.files] \in manifests
            /\ job[p].snapshot.files \subseteq disk

\* At most one process is between taking and dropping the lock.
MutualExclusion ==
    \A p, q \in Writer : pc[p] \in Critical /\ pc[q] \in Critical => p = q

-----------------------------------------------------------------------------
(* What a step may never do *)

\* Every generation that becomes current has an id above all earlier current
\* ones, also when manifest.json was lost in between.
CommittedIdsIncrease ==
    [][pointer' # pointer /\ pointer' # NoGeneration => pointer'.id > highest]_vars

\* Unless the user edits dsql.lock meanwhile, the generation that becomes
\* current and dsql.lock record the same filter decisions.
CommitMatchesLock ==
    [][pointer' # pointer /\ pointer' # NoGeneration /\ ~edited =>
        \E p \in Writer :
            /\ gen[p] = pointer'.id
            /\ LET want == job[p].snapshot.decisions
               IN  IF want = NoDecisions
                   THEN matchLock = NoLockFile
                   ELSE /\ matchLock.form \in {"canonical", "reworded"}
                        /\ matchLock.says = want]_vars

-----------------------------------------------------------------------------
(* Progress *)

\* Every request is answered and its pruning is over, however many other
\* processes compete for the lock: nobody waits beyond a deadline, and the
\* work under the lock ends.
EveryRequestReturns ==
    \A p \in Writer : pc[p] # "idle" ~> pc[p] = "idle"

-----------------------------------------------------------------------------
(* Publication implements GenerationStore: what a reader of manifest.json can *)
(* open is one generation of the store.                                      *)

Store == INSTANCE GenerationStore WITH
    Id <- Id,
    Contents <- {s.files : s \in Snapshots},
    current <- [id |-> pointer.id, files |-> pointer.files \cap disk],
    last <- highest

ImplementsStore == Store!StoreSpec
=============================================================================
