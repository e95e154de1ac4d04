------------------------ MODULE DaemonSessionProofs ------------------------
(***************************************************************************)
(* What DaemonSession guarantees for any project, contents, configurations *)
(* and number of edits.  Every path is in step with the disk, or an event  *)
(* that has not been classified yet covers it, or a reload is due; the     *)
(* cached outcome is of the resident bowl; and the known match lock is     *)
(* that of the last success.                                               *)
(***************************************************************************)
EXTENDS DaemonSession, TLAPS

Pending == events \cup batch

\* An event about a path tells of the path and of what lies below it.
Covers(e, p) == e = p \/ (e \in Path /\ p \in Below[e])
Reported(paths, p) == \E e \in paths : Covers(e, p)

\* What the bowl holds once the plan is applied, and what it should hold.
Planned(p) == IF plan.upserts[p] # Missing THEN plan.upserts[p] ELSE bowl[p]
Wanted(p) == IF IsFile(p) /\ project[p] = "unique" THEN disk[p] ELSE Missing
InStep(p) == Planned(p) = Wanted(p) /\ ~(IsFile(p) /\ project[p] = "ambiguous")

Resident == bowl # NoBowl /\ phase \in {"idle", "classify", "compile"}

Typed ==
    /\ disk \in Trees
    /\ config \in Config \cup {Broken}
    /\ lock \in Locks /\ lockHash \in Locks
    /\ events \subseteq Path \cup {ConfigPath, LockPath} /\ batch \subseteq Path \cup {ConfigPath, LockPath}
    /\ phase \in {"uninitialized", "idle", "classify", "load", "populate", "read", "compile"}
    /\ plan \in Plan /\ bowl \in Documents \cup {NoBowl}
    /\ last \in Answer /\ answer \in Answer
    /\ locked \in BOOLEAN /\ refused \in BOOLEAN /\ settled \in BOOLEAN

\* A request uses batch and plan, and leaves nothing of them.
Requests ==
    /\ phase \notin {"classify", "read"} => batch = {}
    /\ phase \notin {"classify", "populate", "read"} => plan = NoPlan
    /\ phase \in {"populate", "read"} => plan.loading \in Config
    /\ phase = "populate" => plan.upserts = NoDocuments
    /\ phase \in {"classify", "compile"} => bowl # NoBowl
    /\ phase = "uninitialized" => bowl = NoBowl /\ answer = NoAnswer

\* Only documents of exactly one scope are held or about to be.
HeldIsOwned ==
    Resident =>
        /\ project \in Config
        /\ \A p \in Path : bowl[p] # Missing \/ plan.upserts[p] # Missing =>
              project[p] = "unique" /\ p \in FilePath

\* What classification read is still there, or an event tells of the change.
ReadIsFresh ==
    \A p \in Path : plan.upserts[p] # Missing => plan.upserts[p] = disk[p] \/ Reported(events, p)

LoadingIsCurrent ==
    phase \in {"populate", "read"} => plan.loading = config \/ ConfigPath \in events

\* What a reload has read, and what it has still to read.
Loaded(p) ==
    plan.upserts[p] = Owned(plan.loading)[p] /\ ~(IsFile(p) /\ plan.loading[p] = "ambiguous")

ReadingFollows ==
    phase = "read" =>
        /\ \A p \in Path : p \in batch \/ plan.upserts[p] # Missing =>
              plan.loading[p] = "unique" /\ p \in FilePath
        /\ \A p \in Path : p \in batch \/ Loaded(p) \/ Reported(events, p)

Follows ==
    Resident /\ ~refused /\ ~plan.reload =>
        /\ project = config \/ ConfigPath \in Pending
        /\ \A p \in Path : InStep(p) \/ Reported(Pending, p)

\* The cached outcome is of the resident bowl, and after a success the known match
\* lock is the one on disk, or its change is known, or an event will tell.
LastIsOfBowl ==
    bowl # NoBowl /\ phase \in {"idle", "classify"} =>
        /\ last.of = bowl
        /\ last.kind \in {"success", "diagnostics", "stale", "transient"}
        /\ last.kind = "diagnostics" => HasErrors(bowl)
        /\ last.kind = "stale" =>
              /\ ~HasErrors(bowl)
              /\ \/ RefusesLock(bowl) \/ refused
                 \/ lock = lockHash \/ LockPath \in Pending \/ plan.lockSeen
        /\ last.kind = "success" =>
              /\ ~HasErrors(bowl) /\ lockHash = Pins(bowl)
              /\ refused \/ lock = lockHash \/ LockPath \in Pending \/ plan.lockSeen

AnswerIsLast ==
    phase = "idle" =>
        /\ answer.kind = "refused" => refused
        /\ answer.kind \in {"success", "diagnostics", "stale"} => bowl # NoBowl /\ answer = last
        /\ answer.kind = "loadFailed" =>
              /\ answer = Say("loadFailed", NoDocuments)
              /\ events # {} \/ config = Broken \/ Conflicts(config) # {}

SettledIsQuiet ==
    settled =>
        /\ phase \in {"idle", "classify"} /\ bowl # NoBowl /\ plan = NoPlan
        /\ Pending \subseteq {LockPath} /\ lock = lockHash

SessionInv ==
    /\ Typed /\ Requests
    /\ HeldIsOwned /\ ReadIsFresh /\ LoadingIsCurrent /\ ReadingFollows /\ Follows
    /\ LastIsOfBowl /\ AnswerIsLast /\ SettledIsQuiet

-----------------------------------------------------------------------------
(* The disk *)

\* What users do to documents and directories leaves a tree, and one event that
\* covers whatever changed.
LEMMA TreeStep ==
    ASSUME Typed, WriteDocument \/ MakeDirectory \/ RemovePath
    PROVE  \E e \in Path :
              /\ Happened(e) /\ disk' \in Trees /\ UNCHANGED <<config, lock>>
              /\ \A q \in Path : ~Covers(e, q) => disk'[q] = disk[q]
<1>1. /\ disk \in [Path -> Content \cup {Missing, Dir}]
      /\ \A p \in Path :
            /\ disk[p] \in Content => p \in FilePath
            /\ disk[p] = Dir => p \in DirPath
            /\ disk[p] # Missing => \A q \in Path : p \in Below[q] => disk[q] = Dir
  BY DEF Typed, Trees
<1>2. ASSUME NEW p \in FilePath, NEW c \in Content, HasParent(p), disk[p] \notin {Dir, c},
             disk' = [disk EXCEPT ![p] = c], Happened(p), UNCHANGED <<config, lock>>
      PROVE  /\ disk' \in Trees
             /\ \A q \in Path : ~Covers(p, q) => disk'[q] = disk[q]
  <2>1. disk' \in [Path -> Content \cup {Missing, Dir}]
    BY <1>1, <1>2
  <2>2. ASSUME NEW q \in Path
        PROVE  /\ disk'[q] \in Content => q \in FilePath
               /\ disk'[q] = Dir => q \in DirPath
               /\ disk'[q] # Missing => \A r \in Path : q \in Below[r] => disk'[r] = Dir
    BY <1>1, <1>2, ContentAssumption DEF HasParent, Path
  <2> QED
    BY <1>1, <1>2, <2>1, <2>2 DEF Trees, Covers, Path
<1>3. ASSUME NEW p \in DirPath, disk' \in {tree \in Trees : tree[p] = Dir},
             \A q \in Path \ {p} : q \notin Below[p] => disk'[q] = disk[q]
      PROVE  /\ disk' \in Trees
             /\ \A q \in Path : ~Covers(p, q) => disk'[q] = disk[q]
  BY <1>3 DEF Covers, Path
<1>4. ASSUME NEW p \in Path,
             disk' = [q \in Path |-> IF q = p \/ q \in Below[p] THEN Missing ELSE disk[q]]
      PROVE  /\ disk' \in Trees
             /\ \A q \in Path : ~Covers(p, q) => disk'[q] = disk[q]
  <2>1. disk' \in [Path -> Content \cup {Missing, Dir}]
    BY <1>1, <1>4
  <2>2. ASSUME NEW q \in Path
        PROVE  /\ disk'[q] \in Content => q \in FilePath
               /\ disk'[q] = Dir => q \in DirPath
               /\ disk'[q] # Missing => \A r \in Path : q \in Below[r] => disk'[r] = Dir
    BY <1>1, <1>4, ContentAssumption, TreeAssumption
  <2> QED
    BY <1>4, <2>1, <2>2 DEF Trees, Covers
<1> QED
  BY <1>2, <1>3, <1>4 DEF WriteDocument, MakeDirectory, RemovePath, Path

\* A file is held under a path of its own.
LEMMA DiskFacts ==
    ASSUME Typed, NEW p \in Path
    PROVE  /\ disk[p] \in Content \cup {Missing, Dir}
           /\ IsFile(p) => p \in FilePath /\ disk[p] # Missing /\ Below[p] = {}
           /\ disk[p] = Dir => p \in DirPath /\ p \notin FilePath
           /\ disk[p] = Missing => \A q \in Below[p] : disk[q] = Missing
  BY ContentAssumption, TreeAssumption, PathAssumption DEF Typed, Trees, IsFile

LEMMA NoBowlIsNoDocuments == NoBowl \notin Documents
  BY ContentAssumption, PathAssumption DEF NoBowl, Documents

\* What documents say is no lock of a newer version.
LEMMA PinsAreSupported ==
    ASSUME NEW documents \in Documents
    PROVE  Pins(documents) \in SUBSET Content /\ Pins(documents) # NewerLock
  BY ModeAssumption DEF Pins, Held, Documents, NewerLock

LEMMA PlanFacts == NoPlan \in Plan /\ NoDocuments \in Documents
  BY ContentAssumption DEF NoPlan, Plan, NoDocuments, Documents, Locks

-----------------------------------------------------------------------------
(* Classification of one path *)

\* After one path that forces no reload was looked at, what the event covers is
\* upserted if it is a file, and otherwise held as it should be.
LEMMA Classified ==
    ASSUME Typed, HeldIsOwned, phase = "classify", bowl # NoBowl,
           NEW e \in Path, ~ForcesReload(e), NEW q \in Path, Covers(e, q)
    PROVE  /\ q \in Upserted(e) => IsFile(q) /\ project[q] = "unique"
           /\ IsFile(q) => project[q] # "ambiguous"
           /\ q \notin Upserted(e) => bowl[q] = Wanted(q)
<1>1. project \in Config /\ bowl \in Documents /\ e # ConfigPath /\ e # LockPath
  BY PathAssumption DEF HeldIsOwned, Resident, Typed
<1>2. bowl[q] \in Content \cup {Missing} /\ bowl[e] \in Content \cup {Missing}
      /\ project[q] \in {"none", "unique", "ambiguous"}
  BY <1>1, ConfigAssumption DEF Documents
<1>3. /\ bowl[q] # Missing => project[q] = "unique" /\ q \in FilePath
      /\ bowl[e] # Missing => project[e] = "unique" /\ e \in FilePath
  BY DEF HeldIsOwned, Resident
<1>4. disk[e] = Dir \/ IsFile(e) \/ disk[e] = Missing
  BY DiskFacts DEF IsFile
<1>5. /\ Relevance(q) = "relevant" <=> bowl[q] # Missing \/ project[q] = "unique"
      /\ Relevance(q) = "ambiguous" <=> bowl[q] = Missing /\ project[q] = "ambiguous"
  BY <1>2 DEF Relevance
<1>6. CASE disk[e] = Dir
  <2>1. ~IsFile(e) /\ bowl[e] = Missing
    BY <1>6, <1>3, DiskFacts, ContentAssumption DEF IsFile
  <2>2. Upserted(e) = Fresh(Below[e]) /\ ~LostBelow(e)
        /\ \A r \in Below[e] : ~(IsFile(r) /\ Relevance(r) = "ambiguous")
    BY <1>1, <1>6, <2>1, ContentAssumption DEF Upserted, ForcesReload
  <2>3. CASE q = e
    <3>1. IsFile(e) = FALSE
      BY <2>1
    <3> QED
      BY <2>1, <2>2, <2>3 DEF Fresh, Wanted
  <2>4. CASE q # e
    <3>1. q \in Below[e]
      BY <2>4 DEF Covers
    <3>2. bowl[q] # Missing => IsFile(q)
      BY <2>2, <3>1 DEF LostBelow
    <3>3. q \in Upserted(e) <=> IsFile(q) /\ Relevance(q) = "relevant" /\ disk[q] # bowl[q]
      BY <2>2, <3>1 DEF Fresh
    <3> QED
      BY <1>2, <1>3, <1>5, <2>2, <3>1, <3>2, <3>3 DEF Wanted
  <2> QED
    BY <2>3, <2>4
<1>7. CASE IsFile(e)
  <2>1. Upserted(e) = Fresh({e}) /\ Relevance(e) # "ambiguous" /\ disk[e] # Dir
    BY <1>1, <1>7, ContentAssumption DEF Upserted, ForcesReload, IsFile
  <2>2. q = e
    BY <1>7, DiskFacts DEF Covers
  <2> QED
    BY <1>2, <1>3, <1>5, <1>7, <2>1, <2>2 DEF Fresh, Wanted
<1>8. CASE disk[e] = Missing
  <2>1. ~HeldUnder(e) /\ ~IsFile(e)
    BY <1>1, <1>8, ContentAssumption DEF ForcesReload, IsFile
  <2>2. disk[q] = Missing /\ ~IsFile(q) /\ bowl[q] = Missing
    BY <1>8, <2>1, DiskFacts, ContentAssumption DEF Covers, IsFile, HeldUnder
  <2>3. q \notin Upserted(e)
    BY <2>2 DEF Upserted, Fresh
  <2> QED
    BY <2>2, <2>3 DEF Wanted
<1> QED
  BY <1>4, <1>6, <1>7, <1>8

-----------------------------------------------------------------------------
(* The initial state, and what users do *)

LEMMA SessionInitially == Init => SessionInv
<1> SUFFICES ASSUME Init PROVE SessionInv
  OBVIOUS
<1>1. Typed
  BY PlanFacts, ModeAssumption DEF Init, Typed, NoAnswer, Say, Answer, Locks
<1>2. Requests /\ AnswerIsLast /\ SettledIsQuiet
  BY DEF Init, Requests, AnswerIsLast, SettledIsQuiet
<1>3. HeldIsOwned /\ LoadingIsCurrent /\ ReadingFollows /\ Follows /\ LastIsOfBowl
  BY DEF Init, HeldIsOwned, Resident, LoadingIsCurrent, ReadingFollows, Follows, LastIsOfBowl
<1>4. ReadIsFresh
  BY DEF Init, ReadIsFresh, NoPlan, NoDocuments
<1> QED
  BY <1>1, <1>2, <1>3, <1>4 DEF SessionInv

\* Any change of the disk is covered by its event.
LEMMA EditStep ==
    ASSUME SessionInv, NEW e \in Path, Happened(e), disk' \in Trees, UNCHANGED <<config, lock, locked>>,
           \A q \in Path : ~Covers(e, q) => disk'[q] = disk[q]
    PROVE  SessionInv'
<1>1. /\ UNCHANGED <<phase, batch, plan, project, bowl, last, lockHash, answer, refused>>
      /\ events' = events \cup {e} /\ settled' = FALSE
  BY DEF Happened, request, resident
<1>2. Typed' /\ Requests' /\ HeldIsOwned' /\ LoadingIsCurrent' /\ SettledIsQuiet'
  BY <1>1 DEF SessionInv, Typed, Requests, HeldIsOwned, Resident, LoadingIsCurrent, SettledIsQuiet
<1>3. \A q \in Path : disk'[q] = disk[q] \/ Reported(events', q)
  BY <1>1 DEF Reported
<1>4. /\ \A q \in Path : Reported(events, q) => Reported(events', q)
      /\ \A q \in Path : Reported(Pending, q) \/ Reported(events', q) => Reported(Pending', q)
  BY <1>1 DEF Reported, Pending
<1>5. ReadIsFresh'
  BY <1>1, <1>3, <1>4 DEF SessionInv, ReadIsFresh
<1>6. Follows' /\ ReadingFollows'
  <2>1. \A q \in Path : disk'[q] = disk[q] =>
            (InStep(q) <=> InStep(q)') /\ (Loaded(q) <=> Loaded(q)')
    BY <1>1 DEF InStep, Planned, Wanted, IsFile, Loaded, Owned
  <2>2. Resident' = Resident /\ Pending \subseteq Pending'
    BY <1>1 DEF Resident, Pending
  <2> QED
    BY <1>1, <1>3, <1>4, <2>1, <2>2 DEF SessionInv, Follows, ReadingFollows
<1>7. LastIsOfBowl'
  BY <1>1 DEF SessionInv, LastIsOfBowl, HasErrors, RefusesLock, Pins, Held, Pending
<1>8. AnswerIsLast'
  BY <1>1 DEF SessionInv, AnswerIsLast
<1> QED
  BY <1>2, <1>5, <1>6, <1>7, <1>8 DEF SessionInv

LEMMA EditConfigStep ==
    ASSUME SessionInv, EditConfig, UNCHANGED locked
    PROVE  SessionInv'
<1>1. /\ UNCHANGED <<phase, batch, plan, project, bowl, last, lockHash, answer, refused, disk, lock>>
      /\ events' = events \cup {ConfigPath} /\ settled' = FALSE /\ config' \in Config \cup {Broken}
  BY DEF EditConfig, Happened, request, resident
<1>2. Typed' /\ Requests' /\ HeldIsOwned' /\ LoadingIsCurrent' /\ SettledIsQuiet'
  BY <1>1 DEF SessionInv, Typed, Requests, HeldIsOwned, Resident, LoadingIsCurrent, SettledIsQuiet
<1>3. /\ \A q \in Path : Reported(events, q) => Reported(events', q)
      /\ \A q \in Path : Reported(Pending, q) => Reported(Pending', q)
  BY <1>1 DEF Reported, Pending
<1>4. ReadIsFresh'
  BY <1>1, <1>3 DEF SessionInv, ReadIsFresh
<1>5. Follows' /\ ReadingFollows'
  BY <1>1, <1>3 DEF SessionInv, Follows, ReadingFollows, Resident, Pending, InStep, Planned, Wanted, IsFile,
     Loaded, Owned
<1>6. LastIsOfBowl' /\ AnswerIsLast'
  BY <1>1 DEF SessionInv, LastIsOfBowl, HasErrors, RefusesLock, Pins, Held, Pending, AnswerIsLast
<1> QED
  BY <1>2, <1>4, <1>5, <1>6 DEF SessionInv

LEMMA EditLockStep ==
    ASSUME SessionInv, EditLock, UNCHANGED locked
    PROVE  SessionInv'
<1>1. /\ UNCHANGED <<phase, batch, plan, project, bowl, last, lockHash, answer, refused, disk, config>>
      /\ events' = events \cup {LockPath} /\ settled' = FALSE /\ lock' \in Locks
  BY ModeAssumption DEF EditLock, Happened, request, resident
<1>2. Typed' /\ Requests' /\ HeldIsOwned' /\ LoadingIsCurrent' /\ SettledIsQuiet'
  BY <1>1 DEF SessionInv, Typed, Requests, HeldIsOwned, Resident, LoadingIsCurrent, SettledIsQuiet
<1>3. /\ \A q \in Path : Reported(events, q) => Reported(events', q)
      /\ \A q \in Path : Reported(Pending, q) => Reported(Pending', q)
  BY <1>1 DEF Reported, Pending
<1>4. ReadIsFresh'
  BY <1>1, <1>3 DEF SessionInv, ReadIsFresh
<1>5. Follows' /\ ReadingFollows'
  BY <1>1, <1>3 DEF SessionInv, Follows, ReadingFollows, Resident, Pending, InStep, Planned, Wanted, IsFile,
     Loaded, Owned
<1>6. LastIsOfBowl' /\ AnswerIsLast'
  BY <1>1 DEF SessionInv, LastIsOfBowl, HasErrors, RefusesLock, Pins, Held, Pending, AnswerIsLast
<1> QED
  BY <1>2, <1>4, <1>5, <1>6 DEF SessionInv

-----------------------------------------------------------------------------
(* Requests and classification *)

LEMMA InitializeStep ==
    ASSUME SessionInv, Initialize, UNCHANGED locked
    PROVE  SessionInv'
<1>1. /\ UNCHANGED <<disk, config, lock, events, changes, batch, plan, bowl, last, answer, refused, settled>>
      /\ phase = "uninitialized" /\ phase' = "idle" /\ project' = config /\ lockHash' = lock
      /\ bowl = NoBowl /\ answer = NoAnswer /\ config \in Config
  BY DEF Initialize, world, history, SessionInv, Requests
<1>2. Typed' /\ Requests' /\ SettledIsQuiet' /\ LoadingIsCurrent' /\ HeldIsOwned' /\ Follows' /\ LastIsOfBowl'
      /\ ReadingFollows'
  BY <1>1 DEF SessionInv, Typed, Requests, SettledIsQuiet, LoadingIsCurrent, HeldIsOwned, Follows,
     Resident, LastIsOfBowl, ReadingFollows
<1>3. ReadIsFresh'
  BY <1>1 DEF SessionInv, ReadIsFresh, Reported
<1>4. AnswerIsLast'
  BY <1>1 DEF AnswerIsLast, NoAnswer, Say
<1> QED
  BY <1>2, <1>3, <1>4 DEF SessionInv

LEMMA RequestCompileStep ==
    ASSUME SessionInv, RequestCompile, UNCHANGED locked
    PROVE  SessionInv'
<1>1. /\ UNCHANGED <<disk, config, lock, events, batch, plan, project, bowl, last, lockHash, answer, refused>>
      /\ phase = "idle" /\ phase' = "load" /\ settled' = FALSE
  BY DEF RequestCompile, resident
<1>2. Typed' /\ Requests' /\ SettledIsQuiet' /\ LoadingIsCurrent' /\ HeldIsOwned' /\ Follows' /\ LastIsOfBowl'
      /\ AnswerIsLast' /\ ReadingFollows'
  BY <1>1 DEF SessionInv, Typed, Requests, SettledIsQuiet, LoadingIsCurrent, HeldIsOwned, Follows,
     Resident, LastIsOfBowl, AnswerIsLast, ReadingFollows
<1>3. ReadIsFresh'
  BY <1>1 DEF SessionInv, ReadIsFresh, Reported
<1> QED
  BY <1>2, <1>3 DEF SessionInv

LEMMA RequestFilesChangedStep ==
    ASSUME SessionInv, RequestFilesChanged, UNCHANGED locked
    PROVE  SessionInv'
<1>1. /\ UNCHANGED <<disk, config, lock, plan, project, bowl, last, lockHash, answer, refused>>
      /\ phase = "idle" /\ batch = {} /\ plan = NoPlan
  BY DEF RequestFilesChanged, resident, SessionInv, Requests
<1>2. PICK paths \in SUBSET events \ {{}} :
        /\ events' = events \ paths
        /\ IF bowl = NoBowl
           THEN phase' = "load" /\ UNCHANGED batch
           ELSE phase' = "classify" /\ batch' = paths
        /\ settled' = (settled /\ ConfigPath \notin paths)
  BY DEF RequestFilesChanged
<1>3. ReadIsFresh'
  BY <1>1 DEF ReadIsFresh, NoPlan, NoDocuments
<1>4. Typed'
  BY <1>1, <1>2 DEF SessionInv, Typed
<1>5. CASE bowl = NoBowl
  BY <1>1, <1>2, <1>3, <1>4, <1>5 DEF SessionInv, Requests, HeldIsOwned, Resident, LoadingIsCurrent, Follows,
     LastIsOfBowl, AnswerIsLast, SettledIsQuiet, ReadingFollows
<1>6. CASE bowl # NoBowl
  <2>1. Pending' = Pending /\ Resident' = Resident /\ phase' = "classify"
    BY <1>1, <1>2, <1>6 DEF Pending, Resident
  <2>2. Requests' /\ HeldIsOwned' /\ LoadingIsCurrent' /\ AnswerIsLast' /\ SettledIsQuiet'
    BY <1>1, <1>2, <1>6, <2>1 DEF SessionInv, Requests, HeldIsOwned, LoadingIsCurrent, AnswerIsLast, SettledIsQuiet
  <2>3. Follows' /\ ReadingFollows'
    BY <1>1, <2>1 DEF SessionInv, Follows, ReadingFollows, Reported, InStep, Planned, Wanted, IsFile
  <2>4. LastIsOfBowl'
    BY <1>1, <2>1 DEF SessionInv, LastIsOfBowl, HasErrors, RefusesLock, Pins, Held
  <2> QED
    BY <1>3, <1>4, <2>2, <2>3, <2>4 DEF SessionInv
<1> QED
  BY <1>5, <1>6

LEMMA ClassifyPathStep ==
    ASSUME SessionInv, ClassifyPath, UNCHANGED locked
    PROVE  SessionInv'
<1>1. /\ UNCHANGED <<disk, config, lock, events, project, bowl, last, lockHash, answer, refused, settled>>
      /\ phase = "classify" /\ phase' = "classify" /\ bowl # NoBowl
  BY DEF ClassifyPath, world, resident, history, SessionInv, Requests
<1>2. PICK e \in batch : plan' = Extended(e) /\ batch' = batch \ {e}
  BY DEF ClassifyPath
<1>3. project \in Config /\ bowl \in Documents /\ plan \in Plan /\ Typed /\ Resident
  BY <1>1 DEF SessionInv, HeldIsOwned, Resident, Typed
<1>4. /\ plan'.reload <=> plan.reload \/ ForcesReload(e)
      /\ plan'.upserts = [q \in Path |-> IF q \in Upserted(e) THEN disk[q] ELSE plan.upserts[q]]
      /\ plan'.lockSeen <=> plan.lockSeen \/ (e = LockPath /\ lock # lockHash)
      /\ plan'.lockIs = IF e = LockPath /\ lock # lockHash THEN lock ELSE plan.lockIs
      /\ plan'.loading = plan.loading
      /\ DOMAIN plan' = DOMAIN plan
  <2>1. plan' = Extended(e)
    BY <1>2
  <2>2. plan'.reload <=> plan.reload \/ ForcesReload(e)
    BY <1>3, <2>1 DEF Extended, Plan
  <2>3. plan'.upserts = [q \in Path |-> IF q \in Upserted(e) THEN disk[q] ELSE plan.upserts[q]]
    BY <1>3, <2>1 DEF Extended, Plan
  <2>4. plan'.lockSeen <=> plan.lockSeen \/ (e = LockPath /\ lock # lockHash)
    BY <1>3, <2>1 DEF Extended, Plan
  <2>5. plan'.lockIs = IF e = LockPath /\ lock # lockHash THEN lock ELSE plan.lockIs
    BY <1>3, <2>1 DEF Extended, Plan
  <2>6. plan'.loading = plan.loading /\ DOMAIN plan' = DOMAIN plan
    BY <1>3, <2>1 DEF Extended, Plan
  <2> QED
    BY <2>2, <2>3, <2>4, <2>5, <2>6
<1>5. \A q \in Path : q \in Upserted(e) => IsFile(q)
  BY DEF Upserted, Fresh
<1>6. \A q \in Path : q \in Upserted(e) => IsFile(q) /\ project[q] = "unique" /\ q \in FilePath
  <2> SUFFICES ASSUME NEW q \in Path, q \in Upserted(e) PROVE project[q] = "unique"
    BY <1>3, <1>5, DiskFacts
  <2>1. e \in Path /\ ~ForcesReload(e)
    BY DEF Upserted
  <2>2. Covers(e, q)
    BY <2>1 DEF Upserted, Fresh, Covers
  <2> QED
    BY <1>1, <2>1, <2>2, Classified DEF SessionInv
<1>7. plan' \in Plan
  <2>1. plan'.upserts \in Documents
    BY <1>3, <1>4, <1>6 DEF Plan, Documents, IsFile
  <2>2. ASSUME NEW r \in BOOLEAN, NEW u \in Documents, NEW b \in BOOLEAN, NEW l \in Locks
        PROVE  [plan EXCEPT !.reload = r, !.upserts = u, !.lockSeen = b, !.lockIs = l] \in Plan
    BY <1>3 DEF Plan
  <2>3. (plan.reload \/ ForcesReload(e)) \in BOOLEAN
        /\ (plan.lockSeen \/ (e = LockPath /\ lock # lockHash)) \in BOOLEAN
    OBVIOUS
  <2>4. (IF e = LockPath /\ lock # lockHash THEN lock ELSE plan.lockIs) \in Locks
    BY <1>3 DEF Plan, Typed
  <2>5. [q \in Path |-> IF q \in Upserted(e) THEN disk[q] ELSE plan.upserts[q]] \in Documents
    BY <1>4, <2>1
  <2>6. plan' = [plan EXCEPT
                    !.reload = plan.reload \/ ForcesReload(e),
                    !.upserts = [q \in Path |-> IF q \in Upserted(e) THEN disk[q] ELSE plan.upserts[q]],
                    !.lockSeen = plan.lockSeen \/ (e = LockPath /\ lock # lockHash),
                    !.lockIs = IF e = LockPath /\ lock # lockHash THEN lock ELSE plan.lockIs]
    BY <1>2, <1>3 DEF Extended, Plan
  <2> QED
    BY <2>2, <2>3, <2>4, <2>5, <2>6
<1>8. Typed' /\ Requests' /\ LoadingIsCurrent' /\ AnswerIsLast' /\ ReadingFollows'
  BY <1>1, <1>2, <1>7 DEF SessionInv, Typed, Requests, LoadingIsCurrent, AnswerIsLast, ReadingFollows
<1>9. HeldIsOwned'
  BY <1>1, <1>3, <1>4, <1>6 DEF SessionInv, HeldIsOwned, Resident
<1>10. ReadIsFresh'
  BY <1>1, <1>4 DEF SessionInv, ReadIsFresh, Reported
<1>11. Follows'
  <2> SUFFICES ASSUME ~refused, ~plan'.reload
               PROVE  /\ project = config \/ ConfigPath \in Pending'
                      /\ \A q \in Path : InStep(q)' \/ Reported(Pending', q)
    BY <1>1 DEF Follows, Resident
  <2>1. ~ForcesReload(e) /\ ~plan.reload
    BY <1>4
  <2>2. e # ConfigPath /\ Pending' = events \cup (batch \ {e})
    <3>1. e # ConfigPath
      BY <2>1, PathAssumption DEF ForcesReload
    <3> QED
      BY <1>1, <1>2, <3>1 DEF Pending
  <2>3. ASSUME NEW q \in Path, ~Covers(e, q)
        PROVE  InStep(q)' \/ Reported(Pending', q)
    <3>1. q \notin Upserted(e)
      BY <2>3 DEF Upserted, Fresh, Covers
    <3>2. InStep(q) => InStep(q)'
      BY <1>1, <1>4, <3>1 DEF InStep, Planned, Wanted, IsFile
    <3>3. Reported(Pending, q) => Reported(Pending', q)
      BY <2>2, <2>3 DEF Reported, Pending
    <3> QED
      BY <1>3, <2>1, <3>2, <3>3 DEF SessionInv, Follows
  <2>4. ASSUME NEW q \in Path, Covers(e, q), ~Reported(events, q)
        PROVE  InStep(q)'
    <3>1. e \in Path
      BY <2>4 DEF Covers
    <3>2. /\ q \in Upserted(e) => IsFile(q) /\ project[q] = "unique"
          /\ IsFile(q) => project[q] # "ambiguous"
          /\ q \notin Upserted(e) => bowl[q] = Wanted(q)
      BY <1>1, <2>1, <2>4, <3>1, Classified DEF SessionInv
    <3>3. Wanted(q)' = Wanted(q) /\ (IsFile(q) <=> IsFile(q)') /\ project' = project /\ bowl' = bowl
      BY <1>1 DEF Wanted, IsFile
    <3>4. CASE q \in Upserted(e)
      BY <1>4, <3>2, <3>3, <3>4, ContentAssumption DEF InStep, Planned, Wanted, IsFile
    <3>5. CASE q \notin Upserted(e) /\ plan.upserts[q] = Missing
      BY <1>4, <3>2, <3>3, <3>5 DEF InStep, Planned
    <3>6. CASE q \notin Upserted(e) /\ plan.upserts[q] # Missing
      <4>1. plan.upserts[q] = disk[q]
        BY <2>4, <3>6 DEF SessionInv, ReadIsFresh
      <4>2. plan.upserts[q] \in Content /\ project[q] = "unique"
        BY <1>3, <3>6 DEF SessionInv, HeldIsOwned, Plan, Documents
      <4> QED
        BY <1>1, <1>4, <3>2, <3>3, <3>6, <4>1, <4>2 DEF InStep, Planned, Wanted, IsFile
    <3> QED
      BY <3>4, <3>5, <3>6
  <2>5. \A q \in Path : Reported(events, q) => Reported(Pending', q)
    BY <2>2 DEF Reported
  <2>6. project = config \/ ConfigPath \in Pending
    BY <1>3, <2>1 DEF SessionInv, Follows
  <2> QED
    BY <2>2, <2>3, <2>4, <2>5, <2>6 DEF Pending
<1>12. LastIsOfBowl'
  BY <1>1, <1>2, <1>4 DEF SessionInv, LastIsOfBowl, HasErrors, RefusesLock, Pins, Held, Pending
<1>13. SettledIsQuiet'
  <2> SUFFICES ASSUME settled PROVE plan' = NoPlan /\ Pending' \subseteq {LockPath}
    BY <1>1 DEF SessionInv, SettledIsQuiet
  <2>1. plan = NoPlan /\ e = LockPath /\ lock = lockHash /\ Pending \subseteq {LockPath}
    BY <1>2 DEF SessionInv, SettledIsQuiet, Pending
  <2>2. ~ForcesReload(e) /\ Upserted(e) = {}
    BY <2>1, PathAssumption DEF ForcesReload, Upserted
  <2>3. plan.upserts = [q \in Path |-> IF q \in Upserted(e) THEN disk[q] ELSE plan.upserts[q]]
    BY <1>3, <2>2 DEF Plan, Documents
  <2>4. plan'.upserts = plan.upserts /\ plan'.reload = plan.reload /\ plan'.lockSeen = plan.lockSeen
        /\ plan'.lockIs = plan.lockIs /\ plan'.loading = plan.loading
    BY <1>3, <1>4, <1>7, <2>1, <2>2, <2>3 DEF Plan
  <2>5. plan' = plan
    BY <1>3, <1>7, <2>4 DEF Plan
  <2> QED
    BY <1>1, <1>2, <2>1, <2>5 DEF Pending
<1> QED
  BY <1>8, <1>9, <1>10, <1>11, <1>12, <1>13 DEF SessionInv

LEMMA RefuseBatchStep ==
    ASSUME SessionInv, RefuseBatch, UNCHANGED locked
    PROVE  SessionInv'
<1>1. /\ UNCHANGED <<disk, config, lock, events, project, bowl, last, lockHash, settled>>
      /\ phase = "classify" /\ phase' = "idle" /\ batch # {} /\ batch' = {} /\ plan' = NoPlan /\ refused' = TRUE
      /\ answer' = Say("refused", NoDocuments)
  BY DEF RefuseBatch, Respond, world, resident
<1>2. Typed'
  BY <1>1, PlanFacts DEF SessionInv, Typed, Say, Answer
<1>3. Requests' /\ LoadingIsCurrent' /\ ReadingFollows' /\ Follows' /\ AnswerIsLast'
  BY <1>1 DEF SessionInv, Requests, LoadingIsCurrent, ReadingFollows, Follows, AnswerIsLast, Say
<1>4. HeldIsOwned' /\ ReadIsFresh'
  BY <1>1 DEF SessionInv, HeldIsOwned, Resident, ReadIsFresh, NoPlan, NoDocuments
<1>5. LastIsOfBowl' /\ SettledIsQuiet'
  BY <1>1 DEF SessionInv, LastIsOfBowl, HasErrors, RefusesLock, Pins, Held, SettledIsQuiet, Pending
<1> QED
  BY <1>2, <1>3, <1>4, <1>5 DEF SessionInv

LEMMA ReplayStep ==
    ASSUME SessionInv, Replay, UNCHANGED locked
    PROVE  SessionInv'
<1>1. /\ UNCHANGED <<disk, config, lock, events, project, bowl, last, lockHash, refused, settled>>
      /\ phase = "classify" /\ phase' = "idle" /\ batch = {} /\ batch' = {} /\ plan = NoPlan /\ plan' = NoPlan
      /\ answer' = last /\ bowl # NoBowl
  BY DEF Replay, Respond, world, resident, history, SessionInv, Requests
<1>2. Typed' /\ Requests' /\ LoadingIsCurrent' /\ HeldIsOwned' /\ SettledIsQuiet'
  BY <1>1 DEF SessionInv, Typed, Requests, LoadingIsCurrent, HeldIsOwned, Resident, SettledIsQuiet, Pending
<1>3. ReadIsFresh' /\ ReadingFollows' /\ Follows'
  BY <1>1 DEF SessionInv, ReadIsFresh, ReadingFollows, Follows, Resident, Reported, InStep, Planned, Wanted, IsFile, Pending
<1>4. LastIsOfBowl'
  BY <1>1 DEF SessionInv, LastIsOfBowl, HasErrors, RefusesLock, Pins, Held, Pending
<1>5. AnswerIsLast'
  BY <1>1 DEF SessionInv, LastIsOfBowl, AnswerIsLast
<1> QED
  BY <1>2, <1>3, <1>4, <1>5 DEF SessionInv

-----------------------------------------------------------------------------
(* Application and reloads *)

LEMMA ApplyStep ==
    ASSUME SessionInv, Apply, UNCHANGED locked
    PROVE  SessionInv'
<1>1. /\ UNCHANGED <<disk, config, lock, events, batch, project, last, answer, refused, settled>>
      /\ phase = "classify" /\ phase' = "compile" /\ batch = {} /\ plan # NoPlan /\ ~plan.reload /\ plan' = NoPlan
      /\ bowl' = [p \in Path |-> IF plan.upserts[p] # Missing THEN plan.upserts[p] ELSE bowl[p]]
      /\ lockHash' = IF plan.lockSeen THEN plan.lockIs ELSE lockHash
      /\ bowl # NoBowl
  BY DEF Apply, NoteLock, world, history, SessionInv, Requests
<1>2. bowl \in Documents /\ plan \in Plan /\ Resident
  BY <1>1 DEF SessionInv, Typed, Resident
<1>3. bowl' \in Documents /\ bowl' # NoBowl /\ lockHash' \in Locks
  BY <1>1, <1>2, NoBowlIsNoDocuments DEF SessionInv, Typed, Plan, Documents
<1>4. Typed'
  BY <1>1, <1>3, PlanFacts DEF SessionInv, Typed
<1>5. Requests' /\ LoadingIsCurrent' /\ ReadingFollows' /\ LastIsOfBowl' /\ AnswerIsLast'
  BY <1>1, <1>3 DEF SessionInv, Requests, LoadingIsCurrent, ReadingFollows, LastIsOfBowl, AnswerIsLast
<1>6. SettledIsQuiet'
  BY <1>1 DEF SessionInv, SettledIsQuiet
<1>7. \A p \in Path : /\ bowl'[p] = Planned(p) /\ Planned(p)' = Planned(p) /\ Wanted(p)' = Wanted(p)
                      /\ plan'.upserts[p] = Missing
  BY <1>1 DEF Planned, Wanted, IsFile, NoPlan, NoDocuments
<1>8. HeldIsOwned'
  BY <1>1, <1>2, <1>7 DEF SessionInv, HeldIsOwned, Planned
<1>9. ReadIsFresh'
  BY <1>7 DEF ReadIsFresh
<1>10. Follows'
  <2>1. \A p \in Path : /\ InStep(p) => InStep(p)'
                        /\ Reported(Pending, p) => Reported(Pending', p)
    BY <1>1, <1>7 DEF InStep, IsFile, Reported, Pending
  <2> QED
    BY <1>1, <1>2, <2>1 DEF SessionInv, Follows, Pending
<1> QED
  BY <1>4, <1>5, <1>6, <1>8, <1>9, <1>10 DEF SessionInv

LEMMA BeginReloadStep ==
    ASSUME SessionInv, BeginReload, UNCHANGED locked
    PROVE  SessionInv'
<1>1. /\ UNCHANGED <<disk, config, lock, events, batch, project, bowl, last, answer, refused, settled>>
      /\ phase = "classify" /\ phase' = "load" /\ batch = {} /\ plan.reload /\ plan' = NoPlan
      /\ lockHash' = IF plan.lockSeen THEN plan.lockIs ELSE lockHash
      /\ bowl # NoBowl
  BY DEF BeginReload, NoteLock, world, history, SessionInv, Requests
<1>2. Typed'
  BY <1>1, PlanFacts DEF SessionInv, Typed, Plan
<1>3. ~settled
  BY <1>1 DEF SessionInv, SettledIsQuiet, NoPlan
<1>4. /\ Requests' /\ LoadingIsCurrent' /\ LastIsOfBowl' /\ AnswerIsLast' /\ HeldIsOwned' /\ Follows'
      /\ SettledIsQuiet' /\ ReadingFollows'
  BY <1>1, <1>3 DEF SessionInv, Requests, LoadingIsCurrent, LastIsOfBowl, AnswerIsLast, HeldIsOwned, Follows,
     Resident, SettledIsQuiet, ReadingFollows
<1>5. ReadIsFresh'
  BY <1>1 DEF ReadIsFresh, NoPlan, NoDocuments
<1> QED
  BY <1>2, <1>4, <1>5 DEF SessionInv

\* A failed load leaves no bowl to be wrong about.
LEMMA FailLoadStep ==
    ASSUME SessionInv, NEW response \in Answer, FailLoad(response), phase \in {"load", "populate", "read"}, UNCHANGED locked,
           \/ response.kind = "transient"
           \/ /\ response = Say("loadFailed", NoDocuments)
              /\ events # {} \/ config = Broken \/ Conflicts(config) # {}
    PROVE  SessionInv'
<1>1. /\ UNCHANGED <<disk, config, lock, events, project, last, lockHash, refused, settled>>
      /\ phase' = "idle" /\ batch' = {} /\ plan' = NoPlan /\ answer' = response /\ bowl' = NoBowl
  BY DEF FailLoad, Respond, BowlAfterFailure, world, history
<1>2. ~settled
  BY DEF SessionInv, SettledIsQuiet
<1>3. Typed'
  BY <1>1, PlanFacts DEF SessionInv, Typed
<1>4. /\ Requests' /\ LoadingIsCurrent' /\ LastIsOfBowl' /\ HeldIsOwned' /\ Follows' /\ SettledIsQuiet'
      /\ ReadingFollows'
  BY <1>1, <1>2 DEF SessionInv, Requests, LoadingIsCurrent, LastIsOfBowl, HeldIsOwned, Follows,
     Resident, SettledIsQuiet, ReadingFollows
<1>5. ReadIsFresh'
  BY <1>1 DEF ReadIsFresh, NoPlan, NoDocuments
<1>6. Conflicts(config)' = Conflicts(config)
  BY <1>1 DEF Conflicts, IsFile
<1>7. AnswerIsLast'
  BY <1>1, <1>6 DEF AnswerIsLast, Say
<1> QED
  BY <1>3, <1>4, <1>5, <1>7 DEF SessionInv

LEMMA LoadProjectStep ==
    ASSUME SessionInv, LoadProject, UNCHANGED locked
    PROVE  SessionInv'
<1>1. phase = "load" /\ batch = {} /\ plan = NoPlan /\ ~settled
  BY DEF LoadProject, SessionInv, Requests, SettledIsQuiet
<1>2. CASE config = Broken
  <2>1. FailLoad(Say("loadFailed", NoDocuments)) /\ Say("loadFailed", NoDocuments) \in Answer
    BY <1>2, PlanFacts DEF LoadProject, Say, Answer
  <2> QED
    BY <1>1, <1>2, <2>1, FailLoadStep
<1>3. CASE config # Broken
  <2>1. /\ UNCHANGED <<disk, config, lock, events, batch, project, bowl, last, lockHash, answer, refused, settled>>
        /\ plan' = [NoPlan EXCEPT !.loading = config] /\ phase' = "populate" /\ config \in Config
    BY <1>1, <1>3 DEF LoadProject, world, resident, history, SessionInv, Typed
  <2>2. /\ plan' \in Plan /\ ~plan'.reload /\ plan'.upserts = NoDocuments /\ plan'.loading = config
    BY <2>1, PlanFacts DEF NoPlan, Plan
  <2>3. Typed'
    BY <2>1, <2>2 DEF SessionInv, Typed
  <2>4. /\ Requests' /\ LoadingIsCurrent' /\ LastIsOfBowl' /\ HeldIsOwned' /\ Follows' /\ SettledIsQuiet'
        /\ AnswerIsLast' /\ ReadingFollows'
    BY <1>1, <2>1, <2>2 DEF SessionInv, Requests, LoadingIsCurrent, LastIsOfBowl, HeldIsOwned, Follows,
       Resident, SettledIsQuiet, AnswerIsLast, ReadingFollows
  <2>5. ReadIsFresh'
    BY <2>2 DEF ReadIsFresh, NoDocuments
  <2> QED
    BY <2>3, <2>4, <2>5 DEF SessionInv
<1> QED
  BY <1>2, <1>3

\* The documents a configuration owns are held as they should be.
LEMMA OwnedFacts ==
    ASSUME Typed, NEW cfg \in Config
    PROVE  /\ Owned(cfg) \in Documents
           /\ \A p \in Path : Owned(cfg)[p] # Missing => cfg[p] = "unique" /\ p \in FilePath
  BY DiskFacts DEF Owned, Documents, IsFile

\* A load that could not read something.
LEMMA TransientLoadStep ==
    ASSUME SessionInv, FailLoad(Say("transient", NoDocuments)), phase \in {"populate", "read"}, UNCHANGED locked
    PROVE  SessionInv'
<1>1. Say("transient", NoDocuments) \in Answer /\ Say("transient", NoDocuments).kind = "transient"
  BY PlanFacts DEF Say, Answer
<1> QED
  BY <1>1, FailLoadStep

LEMMA DiscoverStep ==
    ASSUME SessionInv, Discover, UNCHANGED locked
    PROVE  SessionInv'
<1>1. /\ phase = "populate" /\ batch = {} /\ ~settled /\ plan.loading \in Config
      /\ plan.loading = config \/ ConfigPath \in events
      /\ plan.upserts = NoDocuments /\ Typed
  BY DEF Discover, SessionInv, Requests, SettledIsQuiet, LoadingIsCurrent
<1>2. CASE Conflicts(plan.loading) # {} /\ FailLoad(Say("loadFailed", NoDocuments))
  <2>1. Say("loadFailed", NoDocuments) \in Answer
    BY PlanFacts DEF Say, Answer
  <2> QED
    BY <1>1, <1>2, <2>1, FailLoadStep
<1>3. CASE FailLoad(Say("transient", NoDocuments))
  BY <1>1, <1>3, TransientLoadStep
<1>4. CASE /\ Conflicts(plan.loading) = {}
           /\ batch' = Held(Owned(plan.loading))
           /\ phase' = "read"
           /\ UNCHANGED <<world, plan, resident, answer, history>>
  <2>1. UNCHANGED <<disk, config, lock, events, plan, project, bowl, last, lockHash, answer, refused, settled>>
    BY <1>4 DEF world, resident, history
  <2>2. batch' \subseteq Path
    BY <1>4 DEF Held
  <2>3. Typed'
    BY <1>1, <1>4, <2>1, <2>2 DEF Typed
  <2>4. /\ Requests' /\ LoadingIsCurrent' /\ LastIsOfBowl' /\ HeldIsOwned' /\ Follows' /\ SettledIsQuiet'
        /\ AnswerIsLast' /\ ReadIsFresh'
    BY <1>1, <1>4, <2>1 DEF SessionInv, Requests, LoadingIsCurrent, LastIsOfBowl, HeldIsOwned, Follows,
       Resident, SettledIsQuiet, AnswerIsLast, ReadIsFresh, NoDocuments
  <2>5. ASSUME NEW p \in Path
        PROVE  /\ p \in batch' \/ plan'.upserts[p] # Missing => plan'.loading[p] = "unique" /\ p \in FilePath
               /\ p \in batch' \/ Loaded(p)'
    <3>1. plan'.upserts[p] = Missing /\ ~(IsFile(p) /\ plan.loading[p] = "ambiguous")
      BY <1>1, <1>4, <2>1 DEF NoDocuments, Conflicts
    <3>2. p \in batch' <=> Owned(plan.loading)[p] # Missing
      BY <1>4 DEF Held
    <3>3. Owned(plan.loading)' = Owned(plan.loading) /\ (IsFile(p)' <=> IsFile(p))
      BY <2>1 DEF Owned, IsFile
    <3> QED
      BY <1>1, <2>1, <3>1, <3>2, <3>3, OwnedFacts DEF Loaded
  <2>6. ReadingFollows'
    BY <2>5 DEF ReadingFollows
  <2> QED
    BY <2>3, <2>4, <2>6 DEF SessionInv
<1> QED
  BY <1>2, <1>3, <1>4 DEF Discover

LEMMA ReadDocumentStep ==
    ASSUME SessionInv, ReadDocument, UNCHANGED locked
    PROVE  SessionInv'
<1>1. phase = "read" /\ plan \in Plan /\ plan.loading \in Config /\ ~settled /\ Typed
  BY DEF ReadDocument, SessionInv, Requests, SettledIsQuiet, Typed
<1>2. CASE FailLoad(Say("transient", NoDocuments))
  BY <1>1, <1>2, TransientLoadStep
<1>3. ASSUME NEW p \in batch, IsFile(p),
             plan' = [plan EXCEPT !.upserts[p] = disk[p]],
             batch' = batch \ {p},
             UNCHANGED <<world, phase, resident, answer, history>>
      PROVE  SessionInv'
  <2>1. UNCHANGED <<disk, config, lock, events, phase, project, bowl, last, lockHash, answer, refused, settled>>
    BY <1>3 DEF world, resident, history
  <2>2. disk[p] \in Content
    BY <1>3 DEF IsFile
  <2>3. /\ plan'.upserts = [plan.upserts EXCEPT ![p] = disk[p]] /\ plan'.loading = plan.loading
        /\ plan' \in Plan
    <3>1. plan' = [plan EXCEPT !.upserts = [plan.upserts EXCEPT ![p] = disk[p]]]
      BY <1>1, <1>3 DEF Plan
    <3>2. plan.upserts \in Documents /\ [plan.upserts EXCEPT ![p] = disk[p]] \in Documents
      BY <1>1, <2>2 DEF Plan, Documents
    <3> QED
      BY <1>1, <3>1, <3>2 DEF Plan
  <2>4. Typed'
    BY <1>1, <1>3, <2>1, <2>3 DEF Typed
  <2>5. /\ Requests' /\ LoadingIsCurrent' /\ LastIsOfBowl' /\ HeldIsOwned' /\ Follows' /\ SettledIsQuiet'
        /\ AnswerIsLast'
    BY <1>1, <2>1, <2>3 DEF SessionInv, Requests, LoadingIsCurrent, LastIsOfBowl, HeldIsOwned, Follows,
       Resident, SettledIsQuiet, AnswerIsLast
  <2>6. \A q \in Path : plan'.upserts[q] = IF q = p THEN disk[p] ELSE plan.upserts[q]
    BY <1>1, <2>3 DEF Plan, Documents
  <2>7. ReadIsFresh'
    BY <2>1, <2>6 DEF SessionInv, ReadIsFresh
  <2>8. ASSUME NEW q \in Path
        PROVE  /\ q \in batch' \/ plan'.upserts[q] # Missing => plan'.loading[q] = "unique" /\ q \in FilePath
               /\ q \in batch' \/ Loaded(q)' \/ Reported(events', q)
    <3>1. /\ q \in batch \/ plan.upserts[q] # Missing => plan.loading[q] = "unique" /\ q \in FilePath
          /\ q \in batch \/ Loaded(q) \/ Reported(events, q)
      BY <1>1 DEF SessionInv, ReadingFollows
    <3>2. Owned(plan.loading)' = Owned(plan.loading) /\ (IsFile(q)' <=> IsFile(q))
      BY <2>1, <2>3 DEF Owned, IsFile
    <3>3. CASE q = p
      <4>1. plan.loading[q] = "unique" /\ Owned(plan.loading)[q] = disk[q]
        BY <1>3, <3>1, <3>3 DEF Owned
      <4> QED
        BY <2>3, <2>6, <3>1, <3>2, <3>3, <4>1, <1>3 DEF Loaded
    <3>4. CASE q # p
      BY <1>3, <2>1, <2>3, <2>6, <3>1, <3>2, <3>4 DEF Loaded
    <3> QED
      BY <3>3, <3>4
  <2>9. ReadingFollows'
    BY <2>8 DEF ReadingFollows
  <2> QED
    BY <2>4, <2>5, <2>7, <2>9 DEF SessionInv
<1> QED
  BY <1>2, <1>3 DEF ReadDocument

LEMMA PopulateStep ==
    ASSUME SessionInv, Populate, UNCHANGED locked
    PROVE  SessionInv'
<1>1. /\ phase = "read" /\ batch = {} /\ ~settled /\ plan \in Plan /\ plan.loading \in Config
      /\ plan.loading = config \/ ConfigPath \in events
  BY DEF Populate, SessionInv, Requests, SettledIsQuiet, LoadingIsCurrent, Typed
<1>2. /\ project' = plan.loading /\ bowl' = plan.upserts
      /\ phase' = "compile" /\ plan' = NoPlan /\ refused' = FALSE
      /\ UNCHANGED <<disk, config, lock, events, batch, last, lockHash, answer, settled>>
  BY DEF Populate, world
<1>3. /\ bowl' \in Documents /\ bowl' # NoBowl
      /\ \A p \in Path : bowl'[p] # Missing => project'[p] = "unique" /\ p \in FilePath
  BY <1>1, <1>2, NoBowlIsNoDocuments DEF SessionInv, ReadingFollows, Plan
<1>4. Typed'
  BY <1>1, <1>2, <1>3, PlanFacts DEF SessionInv, Typed
<1>5. \A p \in Path : plan'.upserts[p] = Missing
  BY <1>2 DEF NoPlan, NoDocuments
<1>6. /\ Requests' /\ LoadingIsCurrent' /\ LastIsOfBowl' /\ AnswerIsLast' /\ SettledIsQuiet' /\ ReadingFollows'
  BY <1>1, <1>2, <1>3 DEF SessionInv, Requests, LoadingIsCurrent, LastIsOfBowl, AnswerIsLast, SettledIsQuiet,
     ReadingFollows
<1>7. HeldIsOwned' /\ ReadIsFresh'
  BY <1>1, <1>2, <1>3, <1>5 DEF HeldIsOwned, ReadIsFresh
<1>8. ASSUME NEW p \in Path
      PROVE  InStep(p)' \/ Reported(Pending', p)
  <2>1. Loaded(p) \/ Reported(events, p)
    BY <1>1 DEF SessionInv, ReadingFollows
  <2>2. Planned(p)' = plan.upserts[p]
    BY <1>2, <1>5 DEF Planned
  <2>3. Wanted(p)' = Owned(plan.loading)[p] /\ (IsFile(p)' <=> IsFile(p))
    BY <1>2 DEF Wanted, Owned, IsFile
  <2> QED
    BY <1>2, <2>1, <2>2, <2>3 DEF InStep, Loaded, Reported, Pending
<1>9. Follows'
  BY <1>1, <1>2, <1>8 DEF Follows, Pending
<1> QED
  BY <1>4, <1>6, <1>7, <1>9 DEF SessionInv

-----------------------------------------------------------------------------
(* Compiles *)

\* A compile ends with an outcome that is cached.
LEMMA ConcludeStep ==
    ASSUME SessionInv, phase = "compile", NEW kind \in {"success", "diagnostics", "stale", "transient"},
           Conclude(Say(kind, bowl)),
           UNCHANGED <<disk, config, project, bowl, refused, locked>>,
           events' \in {events, events \cup {LockPath}}, lock' \in Locks, lockHash' \in Locks,
           kind = "diagnostics" => HasErrors(bowl),
           kind = "stale" => ~HasErrors(bowl) /\ RefusesLock(bowl) /\ lock' = lock,
           kind = "success" => ~HasErrors(bowl) /\ lockHash' = Pins(bowl) /\ lock' = lockHash',
           settled' \in BOOLEAN,
           settled' => events = {} /\ lock' = lockHash'
    PROVE  SessionInv'
<1>1. /\ phase' = "idle" /\ batch' = {} /\ plan' = NoPlan
      /\ answer' = Say(kind, bowl) /\ last' = Say(kind, bowl)
  BY DEF Conclude, Respond
<1>2. bowl # NoBowl /\ bowl \in Documents /\ batch = {} /\ plan = NoPlan
  BY DEF SessionInv, Requests, Typed
<1>3. Say(kind, bowl) \in Answer /\ Say(kind, bowl).kind = kind /\ Say(kind, bowl).of = bowl
  BY <1>2 DEF Say, Answer
<1>4. Typed'
  BY <1>1, <1>3, PlanFacts DEF SessionInv, Typed
<1>5. Requests' /\ LoadingIsCurrent' /\ ReadingFollows' /\ AnswerIsLast' /\ SettledIsQuiet'
  BY <1>1, <1>2, <1>3 DEF SessionInv, Requests, LoadingIsCurrent, ReadingFollows, AnswerIsLast, SettledIsQuiet,
     Pending
<1>6. HeldIsOwned'
  BY <1>1, <1>2 DEF SessionInv, HeldIsOwned, Resident
<1>7. ReadIsFresh'
  BY <1>1 DEF ReadIsFresh, NoPlan, NoDocuments
<1>8. Follows'
  BY <1>1, <1>2 DEF SessionInv, Follows, Resident, Pending, Reported, InStep, Planned, Wanted, IsFile
<1>9. LastIsOfBowl'
  BY <1>1, <1>3 DEF LastIsOfBowl, HasErrors, RefusesLock, Pins, Held
<1> QED
  BY <1>4, <1>5, <1>6, <1>7, <1>8, <1>9 DEF SessionInv

LEMMA CompileStep ==
    ASSUME SessionInv, CompileErrors \/ CompileStale \/ CompilePublish \/ CompileFails, UNCHANGED locked
    PROVE  SessionInv'
<1>1. phase = "compile" /\ bowl # NoBowl /\ settled = FALSE
  BY DEF CompileErrors, CompileStale, CompilePublish, CompileFails, SessionInv, Requests, SettledIsQuiet, Typed
<1>2. bowl \in Documents /\ lock \in Locks /\ lockHash \in Locks
  BY <1>1 DEF SessionInv, Typed
<1>3. Pins(bowl) \in Locks
  BY <1>2 DEF Pins, Held, Documents, Locks
<1>4. CASE CompileErrors
  <2>1. HasErrors(bowl) /\ Conclude(Say("diagnostics", bowl))
        /\ UNCHANGED <<disk, config, lock, events, project, bowl, lockHash, refused, settled>>
    BY <1>4 DEF CompileErrors, world, history
  <2> QED
    BY <1>1, <1>2, <2>1, ConcludeStep
<1>5. CASE CompileStale
  <2>1. ~HasErrors(bowl) /\ RefusesLock(bowl) /\ Conclude(Say("stale", bowl))
        /\ UNCHANGED <<disk, config, lock, events, project, bowl, lockHash, refused, settled>>
    BY <1>5 DEF CompileStale, world, history
  <2> QED
    BY <1>1, <1>2, <2>1, ConcludeStep
<1>6. CASE CompilePublish
  <2>1. /\ ~HasErrors(bowl) /\ UNCHANGED <<disk, config, project, bowl, refused>>
        /\ lock' = Pins(bowl) /\ events' \in {events, events \cup {LockPath}}
    BY <1>6 DEF CompilePublish, RefusesLock, WriteLock
  <2>2. CASE Published(Say("success", bowl)) /\ settled' = (events = {})
    <3>1. Conclude(Say("success", bowl)) /\ lockHash' = Pins(bowl) /\ settled' \in BOOLEAN
      BY <2>2 DEF Published, AcceptedLock
    <3> QED
      BY <1>1, <1>3, <2>1, <2>2, <3>1, ConcludeStep
  <2>3. CASE Published(Say("transient", bowl)) /\ UNCHANGED settled
    <3>1. Conclude(Say("transient", bowl)) /\ lockHash' = Pins(bowl) /\ settled' = FALSE
      BY <1>1, <2>3 DEF Published, AcceptedLock
    <3> QED
      BY <1>1, <1>3, <2>1, <3>1, ConcludeStep
  <2> QED
    BY <1>6, <2>2, <2>3 DEF CompilePublish
<1>7. CASE CompileFails
  <2>1. /\ Conclude(Say("transient", bowl)) /\ UNCHANGED <<disk, config, project, bowl, lockHash, refused, settled>>
        /\ lock' \in {lock, Pins(bowl)} /\ events' \in {events, events \cup {LockPath}}
    BY <1>7 DEF CompileFails, WriteLock, history
  <2> QED
    BY <1>1, <1>2, <1>3, <2>1, ConcludeStep
<1> QED
  BY <1>4, <1>5, <1>6, <1>7

-----------------------------------------------------------------------------
(* The theorems *)

LEMMA SessionStep == SessionInv /\ [Next]_vars => SessionInv'
<1> SUFFICES ASSUME SessionInv, [Next]_vars PROVE SessionInv'
  OBVIOUS
<1>1. CASE Initialize /\ UNCHANGED locked
  BY <1>1, InitializeStep
<1>2. CASE RequestCompile /\ UNCHANGED locked
  BY <1>2, RequestCompileStep
<1>3. CASE RequestFilesChanged /\ UNCHANGED locked
  BY <1>3, RequestFilesChangedStep
<1>4. CASE ClassifyPath /\ UNCHANGED locked
  BY <1>4, ClassifyPathStep
<1>5. CASE RefuseBatch /\ UNCHANGED locked
  BY <1>5, RefuseBatchStep
<1>6. CASE Replay /\ UNCHANGED locked
  BY <1>6, ReplayStep
<1>7. CASE Apply /\ UNCHANGED locked
  BY <1>7, ApplyStep
<1>8. CASE BeginReload /\ UNCHANGED locked
  BY <1>8, BeginReloadStep
<1>9. CASE LoadProject /\ UNCHANGED locked
  BY <1>9, LoadProjectStep
<1>10. CASE Discover /\ UNCHANGED locked
  BY <1>10, DiscoverStep
<1>11. CASE ReadDocument /\ UNCHANGED locked
  BY <1>11, ReadDocumentStep
<1>12. CASE Populate /\ UNCHANGED locked
  BY <1>12, PopulateStep
<1>13. CASE (CompileErrors \/ CompileStale \/ CompilePublish \/ CompileFails) /\ UNCHANGED locked
  BY <1>13, CompileStep
<1>14. CASE (WriteDocument \/ MakeDirectory \/ RemovePath) /\ UNCHANGED locked
  BY <1>14, TreeStep, EditStep DEF SessionInv
<1>15. CASE EditConfig /\ UNCHANGED locked
  BY <1>15, EditConfigStep
<1>16. CASE EditLock /\ UNCHANGED locked
  BY <1>16, EditLockStep
<1>17. CASE UNCHANGED vars
  <2>1. UNCHANGED <<disk, config, lock, events, locked, phase, batch, plan, project, bowl, last, lockHash,
                    answer, refused, settled>>
    BY <1>17 DEF vars, world, request, resident, history
  <2>2. Typed' /\ Requests' /\ HeldIsOwned' /\ LoadingIsCurrent'
    BY <2>1 DEF SessionInv, Typed, Requests, HeldIsOwned, Resident, LoadingIsCurrent
  <2>3. ReadIsFresh' /\ ReadingFollows' /\ Follows'
    BY <2>1 DEF SessionInv, ReadIsFresh, ReadingFollows, Loaded, Owned, Follows, Resident, Pending, Reported, InStep, Planned, Wanted, IsFile
  <2>4. LastIsOfBowl' /\ AnswerIsLast' /\ SettledIsQuiet'
    BY <2>1 DEF SessionInv, LastIsOfBowl, AnswerIsLast, SettledIsQuiet, HasErrors, RefusesLock, Pins, Held, Pending,
       Conflicts, IsFile
  <2> QED
    BY <2>2, <2>3, <2>4 DEF SessionInv
<1> QED
  BY <1>1, <1>2, <1>3, <1>4, <1>5, <1>6, <1>7, <1>8, <1>9, <1>10, <1>11, <1>12, <1>13, <1>14,
     <1>15, <1>16, <1>17 DEF Next

\* The inductive invariant: a path is in step with the disk or an unclassified
\* event covers it, and the cached outcome is of the resident bowl.
THEOREM SessionInvariant == Spec => []SessionInv
  BY SessionInitially, SessionStep, PTL DEF Spec

\* In step everywhere and without a pending change of the configuration, the bowl is
\* what a fresh load would put into it.
LEMMA BowlAtRest ==
    ASSUME SessionInv, Quiescent, ~refused, bowl # NoBowl
    PROVE  project = config /\ config \in Config /\ Conflicts(config) = {} /\ bowl = Owned(config)
<1>1. phase = "idle" /\ Pending = {} /\ plan = NoPlan /\ Resident /\ ~plan.reload
  BY DEF Quiescent, SessionInv, Requests, Pending, Resident, NoPlan
<1>2. project = config /\ config \in Config /\ \A p \in Path : InStep(p)
  BY <1>1 DEF SessionInv, HeldIsOwned, Follows, Reported
<1>3. \A p \in Path : bowl[p] = Owned(config)[p] /\ ~(IsFile(p) /\ config[p] = "ambiguous")
  BY <1>1, <1>2 DEF InStep, Planned, Wanted, Owned, NoPlan, NoDocuments, IsFile
<1>4. bowl \in Documents /\ Owned(config) \in Documents
  BY <1>1, <1>2, OwnedFacts DEF SessionInv, Typed, Resident
<1> QED
  BY <1>2, <1>3, <1>4 DEF Documents, Conflicts

\* A bowl kept by upserts and reloads holds what a fresh load would read, whatever was
\* edited during classification, application or a reload (classify_batch, apply).
THEOREM WarmEqualsCold == Spec => []BowlConverges
<1>1. SessionInv => BowlConverges
  BY BowlAtRest DEF BowlConverges
<1> QED
  BY <1>1, SessionInvariant, PTL

\* A fresh daemon's answer, by what it finds.
LEMMA ColdAnswerIs ==
    ASSUME SessionInv
    PROVE  /\ config = Broken \/ Conflicts(config) # {} => ColdAnswer = Say("loadFailed", NoDocuments)
           /\ config \in Config /\ Conflicts(config) = {} =>
                /\ HasErrors(Owned(config)) => ColdAnswer = Say("diagnostics", Owned(config))
                /\ ~HasErrors(Owned(config)) /\ RefusesLock(Owned(config)) =>
                      ColdAnswer = Say("stale", Owned(config))
                /\ ~HasErrors(Owned(config)) /\ ~RefusesLock(Owned(config)) =>
                      ColdAnswer = Say("success", Owned(config))
<1>1. config \in Config \cup {Broken}
  BY DEF SessionInv, Typed
<1>2. CASE config = Broken \/ Conflicts(config) # {}
  BY <1>1, <1>2, ConfigAssumption DEF ColdAnswer
<1>3. CASE config \in Config /\ Conflicts(config) = {}
  <2>1. config # Broken
    BY <1>3, ConfigAssumption
  <2>2. ColdAnswer =
            CASE HasErrors(Owned(config)) -> Say("diagnostics", Owned(config))
              [] ~HasErrors(Owned(config)) /\ RefusesLock(Owned(config)) -> Say("stale", Owned(config))
              [] OTHER -> Say("success", Owned(config))
    BY <1>3, <2>1 DEF ColdAnswer
  <2> QED
    BY <1>3, <2>1, <2>2
<1> QED
  BY <1>1, <1>2, <1>3

\* A success that is still the latest answer is what a fresh daemon would answer: no
\* replay survives a change of a document or of dsql.lock, in either mode.
THEOREM SuccessesStayTrue == Spec => []SuccessIsCurrent
<1>1. ASSUME SessionInv, Quiescent, ~refused, answer.kind = "success"
      PROVE  answer = ColdAnswer
  <2>1. phase = "idle" /\ Pending = {} /\ plan = NoPlan /\ ~plan.lockSeen
    BY <1>1 DEF Quiescent, SessionInv, Requests, Pending, NoPlan
  <2>2. bowl # NoBowl /\ answer = last
    BY <1>1, <2>1 DEF SessionInv, AnswerIsLast
  <2>3. last.of = bowl /\ ~HasErrors(bowl) /\ lock = Pins(bowl)
    BY <1>1, <2>1, <2>2 DEF SessionInv, LastIsOfBowl
  <2>5. ~RefusesLock(bowl)
    BY <1>1, <2>3, PinsAreSupported, <2>2 DEF RefusesLock, SessionInv, Typed
  <2>4. last = Say("success", bowl)
    BY <1>1, <2>2, <2>3 DEF SessionInv, Typed, Answer, Say
  <2> QED
    BY <1>1, <2>2, <2>3, <2>4, <2>5, BowlAtRest, ColdAnswerIs
<1>2. SessionInv => SuccessIsCurrent
  BY <1>1 DEF SuccessIsCurrent
<1> QED
  BY <1>2, SessionInvariant, PTL

\* In either mode an error that is still the latest answer is a fresh daemon's, but for a
\* refused match lock that was put back to the one known before.
THEOREM ErrorsStayTrue == Spec => []ErrorIsCurrent
<1>1. ASSUME SessionInv, Quiescent, ~refused, answer.kind \in {"diagnostics", "stale", "loadFailed"}
      PROVE  \/ answer = ColdAnswer
             \/ config \in Config /\ answer = Say("stale", Owned(config)) /\ lock = lockHash
  <2>1. phase = "idle" /\ events = {} /\ Pending = {} /\ plan = NoPlan /\ ~plan.lockSeen
    BY <1>1 DEF Quiescent, SessionInv, Requests, Pending, NoPlan
  <2>2. answer \in Answer
    BY <1>1 DEF SessionInv, Typed
  <2>3. CASE answer.kind = "loadFailed"
    BY <1>1, <2>1, <2>3, ColdAnswerIs DEF SessionInv, AnswerIsLast
  <2>4. CASE answer.kind \in {"diagnostics", "stale"}
    <3>1. bowl # NoBowl /\ answer = last
      BY <1>1, <2>1, <2>4 DEF SessionInv, AnswerIsLast
    <3>2. last.of = bowl /\ answer = Say(answer.kind, bowl)
      BY <1>1, <2>1, <2>2, <3>1 DEF SessionInv, LastIsOfBowl, Answer, Say
    <3>3. \/ answer.kind = "diagnostics" /\ HasErrors(bowl)
          \/ answer.kind = "stale" /\ ~HasErrors(bowl) /\ (RefusesLock(bowl) \/ lock = lockHash)
      BY <1>1, <2>1, <2>4, <3>1 DEF SessionInv, LastIsOfBowl
    <3>4. config \in Config /\ Conflicts(config) = {} /\ bowl = Owned(config)
      BY <1>1, <3>1, BowlAtRest
    <3>5. CASE answer.kind = "diagnostics"
      BY <1>1, <3>2, <3>3, <3>4, <3>5, ColdAnswerIs
    <3>6. CASE answer.kind = "stale"
      BY <1>1, <3>2, <3>3, <3>4, <3>6, ColdAnswerIs
    <3> QED
      BY <2>4, <3>5, <3>6
  <2> QED
    BY <1>1, <2>3, <2>4
<1>2. SessionInv => ErrorIsCurrent
  BY <1>1 DEF ErrorIsCurrent
<1> QED
  BY <1>2, SessionInvariant, PTL

\* Late events and the daemon's own write of dsql.lock are no-ops after a success.
THEOREM OwnWritesAreNoOps == Spec => NoNeedlessCompile
<1>1. ASSUME SessionInv, [Next]_vars
      PROVE  [settled /\ phase = "classify" => phase' \notin {"load", "compile"}]_vars
  <2> SUFFICES ASSUME Next, settled, phase = "classify" PROVE phase' \notin {"load", "compile"}
    BY <1>1
  <2>1. plan = NoPlan /\ ~plan.reload
    BY <1>1 DEF SessionInv, SettledIsQuiet, NoPlan
  <2> QED
    BY <2>1 DEF Next, Initialize, RequestCompile, RequestFilesChanged, ClassifyPath, RefuseBatch, Replay, Respond,
       Apply, BeginReload, LoadProject, Discover, ReadDocument, Populate, FailLoad, CompileErrors, CompileStale, CompilePublish, CompileFails,
       WriteDocument, MakeDirectory, RemovePath, EditConfig, EditLock, Happened, request
<1> QED
  BY <1>1, SessionInvariant, PTL DEF Spec, NoNeedlessCompile
=============================================================================
