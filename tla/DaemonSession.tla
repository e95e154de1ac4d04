---------------------------- MODULE DaemonSession ----------------------------
(***************************************************************************)
(* One session of the build daemon (crates/dsql-daemon/src/session.rs): a  *)
(* resident bowl kept in step with the files of a project, one request at  *)
(* a time, while users keep editing those files.                           *)
(*                                                                         *)
(* A filesChanged batch is classified path by path against the bowl; the   *)
(* plan that results replays the last outcome, upserts the bytes that were *)
(* read, or reloads the project: the configuration, then the list of       *)
(* documents, then one document after the other.  Then the bowl is         *)
(* compiled and published.  Edits happen between any two steps, and each   *)
(* one leaves an event that the consumer forwards later.                   *)
(*                                                                         *)
(* Contents of documents are members of a small set, one of which does not *)
(* compile.  A configuration says which scope owns each path.  The filter  *)
(* match lock is the set of decisions it pins, the empty set an absent     *)
(* file; the decisions of a bowl are the contents it holds.  A lock of a   *)
(* newer version of dsql is one that no mode accepts.  Publication as the  *)
(* daemon sees it is one step here; Publication has its inside.            *)
(***************************************************************************)
EXTENDS Naturals, FiniteSets

CONSTANTS
    FilePath,       \* paths that may be documents
    DirPath,        \* paths that may be directories
    Below,          \* [Path -> SUBSET Path], what lies under a directory
    Content,        \* contents of documents
    Bad,            \* the content that has error diagnostics
    Missing, Dir,   \* what a path may be besides a file
    Config,         \* configurations, [Path -> {"none", "unique", "ambiguous"}]
    Broken,         \* a configuration, schema or overlay that does not load
    ConfigPath,     \* stands for dsql.toml, dsql/schema and dsql/overlays
    LockPath,       \* dsql/dsql.lock
    Newer,          \* what only a match lock of an unsupported version says
    UserLocks,      \* match locks a user may write
    Modes,          \* whether daemons run as `dsql daemon --locked`
    MaxChanges      \* bound on what users and consumer do on their own

Path == FilePath \cup DirPath

ASSUME ContentAssumption ==
    /\ Bad \in Content
    /\ Missing \notin Content /\ Dir \notin Content /\ Missing # Dir
ASSUME PathAssumption ==
    /\ Path # {}
    /\ ConfigPath \notin Path /\ LockPath \notin Path /\ ConfigPath # LockPath
    /\ Below \in [Path -> SUBSET Path]
\* No path is now a document and now a directory.
ASSUME TreeAssumption ==
    /\ FilePath \cap DirPath = {}
    /\ \A p \in FilePath : Below[p] = {}
    /\ \A p \in Path : \A q \in Below[p] : Below[q] \subseteq Below[p] \ {p}
ASSUME ConfigAssumption ==
    /\ Config \subseteq [Path -> {"none", "unique", "ambiguous"}]
    /\ Broken \notin Config
NewerLock == {Newer}
Locks == SUBSET Content \cup {NewerLock}

ASSUME ModeAssumption ==
    Newer \notin Content /\ UserLocks \subseteq Locks /\ Modes \subseteq BOOLEAN /\ MaxChanges \in Nat

VARIABLES
    disk,           \* the files
    config,         \* the configuration on disk
    lock,           \* dsql.lock on disk
    events,         \* changed paths the consumer has not forwarded yet
    changes,        \* how much of MaxChanges is used up
    locked,         \* the mode this daemon was started in
    phase,          \* what the daemon is doing
    batch,          \* paths of the request still to classify, or documents
                    \* of a reload still to read
    plan,           \* what classification found so far
    project,        \* the configuration loaded last
    bowl,           \* resident documents, or NoBowl
    last,           \* the cached outcome
    lockHash,       \* the match lock last observed or accepted
    answer,         \* the latest response
    refused,        \* history: a batch was refused and nothing reloaded since
    settled         \* history: nothing happened since the bowl was read and
                    \* published that would call for another compile

world == <<disk, config, lock, events, changes>>
request == <<phase, batch, plan>>
resident == <<project, bowl, last, lockHash>>
history == <<refused, settled>>
vars == <<world, locked, request, resident, answer, history>>

-----------------------------------------------------------------------------
(* Types *)

Documents == [Path -> Content \cup {Missing}]
NoDocuments == [p \in Path |-> Missing]
NoBowl == [p \in Path |-> Dir]

\* What a batch asks for: a reload, files to upsert with the bytes that were
\* read, and the match lock observed if it is not the one known.  A reload in
\* progress keeps here the configuration and the documents it has read.
Plan == [reload: BOOLEAN, upserts: Documents,
         lockSeen: BOOLEAN, lockIs: Locks,
         loading: Config \cup {Broken}]
NoPlan == [reload |-> FALSE, upserts |-> NoDocuments,
           lockSeen |-> FALSE, lockIs |-> {}, loading |-> Broken]

\* Kinds of response: a success, the errors a compile reports, a failure to
\* load the project, and a batch refused by classification (InvalidPath, Io).
\* A transient failure is PublicationLocked, Io or GeneratorFailed, or a load
\* that could not read a file.
Answer == [kind: {"none", "success", "diagnostics", "stale", "transient",
                  "loadFailed", "refused"},
           of: Documents]
Say(kind, documents) == [kind |-> kind, of |-> documents]
NoAnswer == Say("none", NoDocuments)

-----------------------------------------------------------------------------
(* What is on disk, and what a fresh daemon would make of it *)

IsFile(p) == disk[p] \in Content

\* Files and directories where they can be, in directories that exist.
Trees ==
    {tree \in [Path -> Content \cup {Missing, Dir}] :
        \A p \in Path :
            /\ tree[p] \in Content => p \in FilePath
            /\ tree[p] = Dir => p \in DirPath
            /\ tree[p] # Missing => \A q \in Path : p \in Below[q] => tree[q] = Dir}

\* Ownership conflicts the loader reports.
Conflicts(cfg) == {p \in Path : IsFile(p) /\ cfg[p] = "ambiguous"}

\* The documents that a load under a configuration puts into a bowl.
Owned(cfg) ==
    [p \in Path |-> IF IsFile(p) /\ cfg[p] = "unique" THEN disk[p] ELSE Missing]

Held(documents) == {p \in Path : documents[p] # Missing}

\* The filter decisions that a bowl resolves to.
Pins(documents) == {documents[p] : p \in Held(documents)}

HasErrors(documents) == \E p \in Path : documents[p] = Bad

\* No generation is published: the match lock is of a newer version, or the
\* daemon is locked and its decisions are not those of the documents.
RefusesLock(documents) ==
    lock = NewerLock \/ (locked /\ lock # Pins(documents))

\* The answer of a daemon started now, when publication itself succeeds.
ColdAnswer ==
    IF config = Broken \/ (config \in Config /\ Conflicts(config) # {})
    THEN Say("loadFailed", NoDocuments)
    ELSE LET fresh == Owned(config)
         IN  CASE HasErrors(fresh) -> Say("diagnostics", fresh)
               [] ~HasErrors(fresh) /\ RefusesLock(fresh) -> Say("stale", fresh)
               [] OTHER -> Say("success", fresh)

-----------------------------------------------------------------------------
(* Classification *)

\* Bug: relevance asks the configuration alone and forgets ambiguity.
OwnedOnly(p) == IF project[p] = "unique" THEN "relevant" ELSE "irrelevant"

\* How an existing file relates to the project: held already, owned by one
\* scope, or claimed by two.
Relevance(p) ==
    CASE bowl[p] # Missing -> "relevant"
      [] bowl[p] = Missing /\ project[p] = "unique" -> "relevant"
      [] bowl[p] = Missing /\ project[p] = "ambiguous" -> "ambiguous"
      [] bowl[p] = Missing /\ project[p] = "none" -> "irrelevant"

\* Files among ps whose bytes the bowl does not hold.
Fresh(ps) ==
    {p \in ps : IsFile(p) /\ Relevance(p) = "relevant" /\ disk[p] # bowl[p]}

\* Bug: deletions below a directory go unnoticed.
NothingLost(p) == FALSE

\* A directory lost a file that the bowl holds.
LostBelow(p) == \E q \in Below[p] : bowl[q] # Missing /\ ~IsFile(q)

\* Bug: a deleted directory is looked up like a file.
HeldAt(p) == bowl[p] # Missing

\* A deleted path held files, itself or below.
HeldUnder(p) == bowl[p] # Missing \/ \E q \in Below[p] : bowl[q] # Missing

\* One path forces a reload.
ForcesReload(p) ==
    CASE p = ConfigPath -> TRUE
      [] p = LockPath -> FALSE
      [] p \in Path /\ disk[p] = Dir ->
            \/ LostBelow(p)
            \/ \E q \in Below[p] : IsFile(q) /\ Relevance(q) = "ambiguous"
      [] p \in Path /\ IsFile(p) -> Relevance(p) = "ambiguous"
      [] p \in Path /\ disk[p] = Missing -> HeldUnder(p)

\* The files that one path brings up to date, with the bytes just read.
Upserted(p) ==
    IF p \in Path /\ ~ForcesReload(p)
    THEN IF disk[p] = Dir THEN Fresh(Below[p]) ELSE Fresh({p})
    ELSE {}

\* What one path adds to the plan.
Extended(p) ==
    [plan EXCEPT
        !.reload = @ \/ ForcesReload(p),
        !.upserts = [q \in Path |-> IF q \in Upserted(p) THEN disk[q] ELSE @[q]],
        !.lockSeen = @ \/ (p = LockPath /\ lock # lockHash),
        !.lockIs = IF p = LockPath /\ lock # lockHash THEN lock ELSE @]

-----------------------------------------------------------------------------
(* The daemon *)

Init ==
    /\ disk \in Trees
    /\ config \in Config \cup {Broken}
    /\ lock \in UserLocks /\ locked \in Modes
    /\ events = {} /\ changes = 0
    /\ phase = "uninitialized" /\ batch = {} /\ plan = NoPlan
    /\ project = Broken /\ bowl = NoBowl /\ last = NoAnswer
    /\ lockHash = {} /\ answer = NoAnswer
    /\ refused = FALSE /\ settled = FALSE

\* initialize: the project has to load, and the match lock is read.
Initialize ==
    /\ phase = "uninitialized"
    /\ config \in Config
    /\ project' = config
    /\ lockHash' = lock
    /\ phase' = "idle"
    /\ UNCHANGED <<world, batch, plan, bowl, last, answer, history>>

\* The consumer's own compile request, a full reload.
RequestCompile ==
    /\ phase = "idle" /\ changes < MaxChanges
    /\ changes' = changes + 1
    /\ phase' = "load"
    /\ settled' = FALSE
    /\ UNCHANGED <<disk, config, lock, events, batch, plan, resident, answer, refused>>

\* The consumer forwards some of the paths the watcher reported.  Without a
\* resident bowl that is a compile, whatever the paths.
RequestFilesChanged ==
    /\ phase = "idle"
    /\ \E paths \in SUBSET events \ {{}} :
        /\ events' = events \ paths
        /\ IF bowl = NoBowl
           THEN phase' = "load" /\ UNCHANGED batch
           ELSE phase' = "classify" /\ batch' = paths
        /\ settled' = (settled /\ ConfigPath \notin paths)
    /\ UNCHANGED <<disk, config, lock, changes, plan, resident, answer, refused>>

\* One path of the batch is looked up on disk.
ClassifyPath ==
    /\ phase = "classify"
    /\ \E p \in batch :
        /\ plan' = Extended(p)
        /\ batch' = batch \ {p}
    /\ UNCHANGED <<world, phase, resident, answer, history>>

Respond(response) ==
    /\ phase' = "idle" /\ batch' = {} /\ plan' = NoPlan
    /\ answer' = response

\* A path lies outside the project, vanishes between the look at it and the
\* read of it, or cannot be read: the whole batch is answered with an error, and
\* the cached outcome is not touched.
RefuseBatch ==
    /\ phase = "classify" /\ batch # {}
    /\ Respond(Say("refused", NoDocuments))
    /\ refused' = TRUE
    /\ UNCHANGED <<world, resident, settled>>

\* NoOp: the cached outcome is answered again.
Replay ==
    /\ phase = "classify" /\ batch = {}
    /\ plan = NoPlan
    /\ Respond(last)
    /\ UNCHANGED <<world, resident, history>>

\* The match lock that classification observed becomes the known one.
NoteLock == lockHash' = IF plan.lockSeen THEN plan.lockIs ELSE lockHash

\* MatchLockChanged and Incremental: the bytes read go into the bowl.
Apply ==
    /\ phase = "classify" /\ batch = {}
    /\ plan # NoPlan /\ ~plan.reload
    /\ NoteLock
    /\ bowl' = [p \in Path |-> IF plan.upserts[p] # Missing THEN plan.upserts[p] ELSE bowl[p]]
    /\ phase' = "compile" /\ plan' = NoPlan
    /\ UNCHANGED <<world, batch, project, last, answer, history>>

\* FullReload starts.
BeginReload ==
    /\ phase = "classify" /\ batch = {}
    /\ plan.reload
    /\ NoteLock
    /\ phase' = "load" /\ plan' = NoPlan
    /\ UNCHANGED <<world, batch, project, bowl, last, answer, history>>

\* Bug: a failed reload keeps the bowl there was.
KeepsBowl == bowl

BowlAfterFailure == NoBowl

\* A failed load discards the bowl and is not cached as an outcome.
FailLoad(response) ==
    /\ Respond(response)
    /\ bowl' = BowlAfterFailure
    /\ UNCHANGED <<world, project, last, lockHash, history>>

\* The configuration, the schema and the overlays are read.
LoadProject ==
    /\ phase = "load"
    /\ IF config = Broken
       THEN FailLoad(Say("loadFailed", NoDocuments))
       ELSE /\ plan' = [plan EXCEPT !.loading = config]
            /\ phase' = "populate"
            /\ UNCHANGED <<world, batch, resident, answer, history>>

\* The documents that the configuration owns are listed, all groups at once.
Discover ==
    /\ phase = "populate"
    /\ \/ /\ Conflicts(plan.loading) # {}
          /\ FailLoad(Say("loadFailed", NoDocuments))
       \/ FailLoad(Say("transient", NoDocuments))
       \/ /\ Conflicts(plan.loading) = {}
          /\ batch' = Held(Owned(plan.loading))
          /\ phase' = "read"
          /\ UNCHANGED <<world, plan, resident, answer, history>>

\* One of them is read, as it is by now; it may be gone.
ReadDocument ==
    /\ phase = "read"
    /\ \E p \in batch :
        \/ /\ IsFile(p)
           /\ plan' = [plan EXCEPT !.upserts[p] = disk[p]]
           /\ batch' = batch \ {p}
           /\ UNCHANGED <<world, phase, resident, answer, history>>
        \/ FailLoad(Say("transient", NoDocuments))

\* What was read makes a new bowl.
Populate ==
    /\ phase = "read" /\ batch = {}
    /\ project' = plan.loading
    /\ bowl' = plan.upserts
    /\ phase' = "compile" /\ plan' = NoPlan
    /\ refused' = FALSE
    /\ UNCHANGED <<world, batch, last, lockHash, answer, settled>>

\* A compile ended with an outcome, which is cached and answered.
Conclude(outcome) == Respond(outcome) /\ last' = outcome

\* Bug: the accepted match lock is not remembered.
ForgetsLock == lockHash

AcceptedLock == Pins(bowl)

\* A generation was committed with the match lock that goes with it.
Published(outcome) ==
    /\ Conclude(outcome)
    /\ lockHash' = AcceptedLock

\* Update mode: the match lock is written when it differs, which the watcher
\* sees like any other write.
WriteLock ==
    /\ lock' = Pins(bowl)
    /\ events' = IF lock' # lock THEN events \cup {LockPath} ELSE events

\* Diagnostics stop the compile.
CompileErrors ==
    /\ phase = "compile" /\ HasErrors(bowl)
    /\ Conclude(Say("diagnostics", bowl))
    /\ UNCHANGED <<world, project, bowl, lockHash, history>>

\* A match lock that is refused is a diagnostic as well, and stays unknown.
CompileStale ==
    /\ phase = "compile" /\ ~HasErrors(bowl)
    /\ RefusesLock(bowl)
    /\ Conclude(Say("stale", bowl))
    /\ UNCHANGED <<world, project, bowl, lockHash, history>>

\* A generation is published, and its generator may fail.
CompilePublish ==
    /\ phase = "compile" /\ ~HasErrors(bowl) /\ ~RefusesLock(bowl)
    /\ IF locked THEN UNCHANGED <<lock, events>> ELSE WriteLock
    /\ \/ Published(Say("success", bowl)) /\ settled' = (events = {})
       \/ Published(Say("transient", bowl)) /\ UNCHANGED settled
    /\ UNCHANGED <<disk, config, changes, project, bowl, refused>>

\* Publication fails before or after it wrote the match lock.
CompileFails ==
    /\ phase = "compile" /\ ~HasErrors(bowl)
    /\ \/ UNCHANGED <<lock, events>>
       \/ ~locked /\ ~RefusesLock(bowl) /\ WriteLock
    /\ Conclude(Say("transient", bowl))
    /\ UNCHANGED <<disk, config, changes, project, bowl, lockHash, history>>

-----------------------------------------------------------------------------
(* Users *)

Happened(path) ==
    /\ changes < MaxChanges /\ changes' = changes + 1
    /\ events' = events \cup {path}
    /\ settled' = FALSE
    /\ UNCHANGED <<request, resident, answer, refused>>

\* A path can exist when every path it lies under is a directory.
HasParent(p) == \A q \in Path : p \in Below[q] => disk[q] = Dir

WriteDocument ==
    \E p \in FilePath, c \in Content :
        /\ HasParent(p) /\ disk[p] \notin {Dir, c}
        /\ disk' = [disk EXCEPT ![p] = c]
        /\ Happened(p)
        /\ UNCHANGED <<config, lock>>

\* A whole subtree is moved into place, and the watcher reports its root.
MakeDirectory ==
    \E p \in DirPath :
        /\ disk[p] = Missing
        /\ disk' \in {tree \in Trees : tree[p] = Dir}
        /\ \A q \in Path \ {p} : q \notin Below[p] => disk'[q] = disk[q]
        /\ Happened(p)
        /\ UNCHANGED <<config, lock>>

\* A file, or a directory with all below it; the watcher reports the root.
RemovePath ==
    \E p \in Path :
        /\ disk[p] # Missing
        /\ disk' = [q \in Path |-> IF q = p \/ q \in Below[p] THEN Missing ELSE disk[q]]
        /\ Happened(p)
        /\ UNCHANGED <<config, lock>>

EditConfig ==
    /\ config' \in (Config \cup {Broken}) \ {config}
    /\ Happened(ConfigPath)
    /\ UNCHANGED <<disk, lock>>

EditLock ==
    /\ lock' \in UserLocks \ {lock}
    /\ Happened(LockPath)
    /\ UNCHANGED <<disk, config>>

-----------------------------------------------------------------------------

Next ==
    /\ \/ Initialize \/ RequestCompile \/ RequestFilesChanged
       \/ ClassifyPath \/ RefuseBatch \/ Replay \/ Apply \/ BeginReload
       \/ LoadProject \/ Discover \/ ReadDocument \/ Populate
       \/ CompileErrors \/ CompileStale \/ CompilePublish \/ CompileFails
       \/ WriteDocument \/ MakeDirectory \/ RemovePath \/ EditConfig \/ EditLock
    /\ UNCHANGED locked

Spec == Init /\ [][Next]_vars

-----------------------------------------------------------------------------
(* Safety *)

\* Nothing is in progress and every reported change was forwarded.
Quiescent == phase = "idle" /\ events = {}

\* Warm equals cold: a bowl kept by upserts and reloads holds what a fresh load
\* would read, whatever was edited while a reload reads one file after the other, or
\* between classification and application (classify_batch, apply).
BowlConverges ==
    Quiescent /\ ~refused /\ bowl # NoBowl =>
        /\ project = config
        /\ Conflicts(config) = {}
        /\ bowl = Owned(config)

\* An error that is still the latest answer is the one a fresh daemon would give,
\* in either mode, unless it is of a kind that a no-op batch does not retry.  One
\* exception: a match lock that was refused and then put back to the one known
\* before leaves the refusal to be replayed, since a refused lock does not become
\* known (Daemon::compile, classify_batch).
ErrorIsCurrent ==
    Quiescent /\ ~refused /\ answer.kind \in {"diagnostics", "stale", "loadFailed"} =>
        \/ answer = ColdAnswer
        \/ config \in Config /\ answer = Say("stale", Owned(config)) /\ lock = lockHash

\* A batch that finds nothing to do answers what the request before it answered: it
\* un-reports nothing.
NoOpRepeatsAnswer ==
    [][phase = "classify" /\ batch = {} /\ plan = NoPlan /\ phase' = "idle" =>
        answer' = answer]_vars

\* After a success nothing but a change of the configuration or another edit
\* leads to a compile: late events and the daemon's own write of the match lock
\* are no-ops.
NoNeedlessCompile ==
    [][settled /\ phase = "classify" => phase' \notin {"load", "compile"}]_vars

\* A success that is still the latest answer is what a fresh daemon would answer:
\* no replay survives a change of a document or of the match lock, in either mode.
SuccessIsCurrent ==
    Quiescent /\ ~refused /\ answer.kind = "success" => answer = ColdAnswer
=============================================================================
