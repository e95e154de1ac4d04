------------------------------ MODULE VitePlugin ------------------------------
(***************************************************************************)
(* The Vite plugin (integrations/typescript/src/vite.ts) and the preflight *)
(* of its renderer (renderDsqlCompileResult in node.ts) while a developer  *)
(* edits files.                                                            *)
(*                                                                         *)
(* JavaScript runs one turn at a time.  A continuation whose promise is    *)
(* settled runs before the next event (Quiet), so a turn that ends in an   *)
(* await and the turns it wakes are separate actions, while everything     *)
(* between two awaits is one.  A compileBatch in progress is a task: the   *)
(* loop has one, and each initial compile is one, since an invalidation    *)
(* lets a second one start while the first still runs.  Callers are the    *)
(* transform and hot update hooks of Vite.  The daemon is seen through     *)
(* CallQueue: calls are settled in order, with an answer or an error.      *)
(***************************************************************************)
EXTENDS Naturals, Sequences, FiniteSets

CONSTANTS
    Host,           \* source files that may embed dsql expressions
    Doc,            \* .dsql documents
    ConfigPath,     \* dsql.toml
    Content,        \* contents of files
    Plain,          \* a host without dsql expressions
    Original,       \* the content files begin with
    Bad,            \* a document or configuration that does not compile
    Caller,         \* calls of transform and handleHotUpdate
    Initial,        \* initial compiles that may be in progress
    MaxEdits,       \* bound on edits
    MaxFaults       \* bound on deaths of the daemon, refused and failing
                    \* requests and failing renderers

Path == Host \cup Doc \cup {ConfigPath}
Loop == "loop"
Task == Initial \cup {Loop}
NoTask == "none"

ASSUME ViteAssumption ==
    /\ {Plain, Bad, Original} \subseteq Content /\ Original \notin {Plain, Bad}
    /\ Loop \notin Initial /\ NoTask \notin Task
    /\ Host \cap Doc = {} /\ ConfigPath \notin Host \cup Doc
    /\ MaxEdits \in Nat /\ MaxFaults \in Nat

VARIABLES
    disk,           \* the files
    events,         \* changes the watcher has not reported yet
    edits, faults,  \* how much of MaxEdits and MaxFaults is used up
    serving,        \* the watcher's listeners are installed
    live,           \* client.info is there
    known,          \* what the daemon has compiled, or Nothing
    last,           \* its last result, or NoResult after an error
    gens,           \* generations published so far
    missed,         \* history: paths of refused batches, not read since
    calls,          \* requests of tasks, the first one is with the daemon
    closing,        \* the client refuses work while a restart is under way
    ready,          \* state: the active result, or NoResult
    epoch,
    initial,        \* the task whose promise ensureInitial returns
    error,          \* lastError is there
    pending,        \* pendingPaths
    waiting,        \* pendingWaiters, by caller
    active,         \* activeBatch, with the callers that wait for it
    loop,           \* where the coalescing loop is
    task,           \* the compileBatch calls
    caller,         \* the hooks
    written,        \* generation whose outputs the renderer's roots hold
    overlap,        \* history: two compiles were in progress at once
    unseen          \* history: a file changed before the watcher was there

files == <<disk, events, edits, serving>>
daemon == <<live, known, last, gens, missed>>
batch == <<pending, waiting, active, loop>>
history == <<overlap, unseen>>
vars == <<files, faults, daemon, calls, closing, ready, epoch, initial, error,
          batch, task, caller, written, history>>

-----------------------------------------------------------------------------
(* Types *)

Contents == [Path -> Content]
Nothing == [p \in Path |-> Bad]

\* A compile result: its generation, the files it was made of, whether the
\* daemon calls it changed.  born is the epoch it was answered in (history).
Result == [gen: Nat, of: Contents, changed: BOOLEAN, born: Nat]
NoResult == [gen |-> 0, of |-> Nothing, changed |-> FALSE, born |-> 0]

Failed == "error"
Outcome == {"none", "success", "unchanged", Failed}

Idle == [stage |-> "idle", paths |-> {}, epoch |-> 0, result |-> NoResult, outcome |-> "none"]
NoBatch == [paths |-> {}, callers |-> {}]

\* code is the buffer a transform got; hash, callsites and modules are what it
\* rewrote with: the content the callsite was compiled from, the generation of
\* the callsite and that of the modules.
Asleep == [stage |-> "idle", kind |-> "none", path |-> ConfigPath, code |-> Plain, on |-> NoTask,
           outcome |-> "none", hash |-> Plain, callsites |-> 0, modules |-> 0]

Running(t) == task[t].stage \notin {"idle", "done"}
Settled(t) == task[t].stage = "done"

\* Some continuation is due.
Due ==
    \/ loop = "settling"
    \/ Settled(Loop)
    \/ \E c \in Caller :
          \/ caller[c].stage = "resume"
          \/ caller[c].stage = "initial" /\ Settled(caller[c].on)

\* The next event is taken when no continuation is due.
Quiet == ~Due

-----------------------------------------------------------------------------
(* The parts of compileBatch *)

Fail(t) == [task EXCEPT ![t].stage = "done", ![t].outcome = Failed]

\* An error reaches the catch block: surfaceError, and an outcome of kind error.
CatchError(t) == task' = Fail(t) /\ error' = TRUE

\* The request of a task in stage s; the client refuses it while it is closed.
\* queue is what is left of the calls in this turn.
Ask(t, s, kind, paths, queue, tasks) ==
    IF closing
    THEN /\ task' = [tasks EXCEPT ![t].stage = "done", ![t].outcome = Failed]
         /\ error' = TRUE
         /\ calls' = queue
    ELSE /\ task' = [tasks EXCEPT ![t].stage = s]
         /\ calls' = Append(queue, [by |-> t, kind |-> kind, paths |-> paths])
         /\ UNCHANGED error

Invalidate == epoch' = epoch + 1 /\ ready' = NoResult /\ initial' = NoTask

\* configChanged
ConfigChanged(paths) == live /\ ConfigPath \in paths

\* The first turn of compileBatch for the loop's batch.
BeginBatch(paths) ==
    LET started == [task EXCEPT ![Loop] = [Idle EXCEPT !.paths = paths, !.epoch = epoch]]
    IN  /\ overlap' = (overlap \/ \E t \in Initial : Running(t))
        /\ IF ConfigChanged(paths)
           THEN /\ Invalidate
                /\ task' = [started EXCEPT ![Loop].stage = "restart"]
                /\ calls' = Append(calls, [by |-> Loop, kind |-> "restart", paths |-> {}])
                /\ closing' = TRUE
                /\ UNCHANGED error
           ELSE /\ Ask(Loop, "call", IF live THEN "files" ELSE "compile", paths, calls, started)
                /\ UNCHANGED <<epoch, ready, initial, closing>>

\* ensureInitial, when there is no initial compile: i is the new one.
BeginInitial(i) ==
    /\ initial = NoTask /\ ~Running(i)
    /\ \A c \in Caller : caller[c].stage = "initial" => caller[c].on # i
    /\ initial' = i
    /\ overlap' = (overlap \/ \E t \in Task : Running(t))
    /\ Ask(i, "call", "compile", {}, calls,
           [task EXCEPT ![i] = [Idle EXCEPT !.epoch = epoch]])

\* Hosts whose bytes on disk are not those the result was compiled from.
Mismatches(r) == {h \in Host : r.of[h] # Plain /\ disk[h] # r.of[h]}

\* renderAndIndex up to the call of the renderer, with result r of task t.
Prepare(t, r, queue) ==
    LET holding == [task EXCEPT ![t].result = r]
    IN  IF Mismatches(r) = {}
        THEN /\ task' = [holding EXCEPT ![t].stage = "render"]
             /\ calls' = queue
             /\ UNCHANGED error
        ELSE IF task[t].stage = "refresh"
             THEN CatchError(t) /\ calls' = queue
             ELSE Ask(t, "refresh", "files", Mismatches(r), queue, holding)

\* Bug: any replay of a success takes the displayed error away.
AnyReplay(r) == TRUE

\* A replay shows that an error is over only if it is of the active result.
Recovers(r) == r.gen = ready.gen

\* The task goes on with an answer.
AfterAnswer(t, r, queue) ==
    IF task[t].stage = "call" /\ ~r.changed /\ ready # NoResult
    THEN /\ task' = [task EXCEPT ![t].stage = "done", ![t].outcome = "unchanged"]
         /\ error' = (error /\ ~Recovers(r))
         /\ calls' = queue
    ELSE Prepare(t, r, queue)

\* Bug: a render of an older epoch is swapped in.
AnyEpoch(t) == TRUE

EpochHolds(t) == task[t].epoch = epoch

\* The renderer is done with task t: outputs are reconciled, and the result
\* becomes the active one unless the session was invalidated meanwhile.
EndRender(t) ==
    /\ Quiet /\ task[t].stage = "render"
    /\ written' = task[t].result.gen
    /\ IF EpochHolds(t)
       THEN /\ ready' = task[t].result
            /\ task' = [task EXCEPT ![t].stage = "done", ![t].outcome = "success"]
            /\ error' = FALSE
       ELSE CatchError(t) /\ UNCHANGED ready
    /\ UNCHANGED <<files, faults, daemon, calls, closing, epoch, initial, batch, caller, history>>

\* The renderer throws, or its render map is refused.
RenderFails(t) ==
    /\ Quiet /\ task[t].stage = "render"
    /\ faults < MaxFaults /\ faults' = faults + 1
    /\ CatchError(t)
    /\ UNCHANGED <<files, daemon, calls, closing, ready, epoch, initial, batch, caller, written, history>>

-----------------------------------------------------------------------------
(* The daemon and its client, seen from the plugin *)

Errors(contents) == \E p \in Path : contents[p] = Bad

\* A session starts for the request at the head.
Initialize ==
    /\ Quiet /\ calls # <<>> /\ ~live /\ Head(calls).kind # "restart"
    /\ live' = TRUE /\ known' = Nothing /\ last' = NoResult /\ missed' = {}
    /\ UNCHANGED <<files, faults, gens, calls, closing, ready, epoch, initial, error, batch,
                   task, caller, written, history>>

\* The request at the head has an answer: r, or an error if there is none.
Answer(r) ==
    LET t == Head(calls).by
    IN  IF r = NoResult
        THEN CatchError(t) /\ calls' = Tail(calls)
        ELSE AfterAnswer(t, r, Tail(calls))

\* A new or different set of contents is compiled and published.
Compile(contents) ==
    IF Errors(contents)
    THEN /\ known' = IF contents[ConfigPath] = Bad THEN Nothing ELSE contents
         /\ last' = NoResult
         /\ Answer(NoResult)
         /\ UNCHANGED gens
    ELSE /\ known' = contents
         /\ gens' = gens + 1
         /\ last' = [gen |-> gens', of |-> contents, changed |-> TRUE, born |-> epoch]
         /\ Answer(last')

\* A compile request loads the project, and so does any request to a session that
\* has none.
FullReload == known = Nothing \/ Head(calls).kind = "compile"

\* What a request makes of the daemon's contents: without a load the paths of the
\* request are read again.
Reread ==
    IF FullReload THEN disk
    ELSE [p \in Path |-> IF p \in Head(calls).paths THEN disk[p] ELSE known[p]]

NoteRead == missed' = IF FullReload THEN {} ELSE missed \ Head(calls).paths

Serve ==
    /\ Quiet /\ calls # <<>> /\ live /\ Head(calls).kind # "restart"
    /\ NoteRead
    /\ IF ~FullReload /\ Reread = known
       THEN /\ Answer(IF last = NoResult THEN NoResult
                      ELSE [last EXCEPT !.changed = FALSE, !.born = epoch])
            /\ UNCHANGED <<known, last, gens>>
       ELSE Compile(Reread)
    /\ UNCHANGED <<files, faults, live, closing, ready, epoch, initial, batch, caller,
                   written, history>>

\* The request at the head fails: the project does not load, or once the files are
\* read publication, a write or the host's generator fails.
ServeFails ==
    /\ Quiet /\ calls # <<>> /\ live /\ Head(calls).kind # "restart"
    /\ faults < MaxFaults /\ faults' = faults + 1
    /\ NoteRead
    /\ \/ known' = Reread
       \/ FullReload /\ known' = Nothing
    /\ last' = NoResult
    /\ Answer(NoResult)
    /\ UNCHANGED <<files, live, gens, closing, ready, epoch, initial, batch, caller, written,
                   history>>

\* A changed path cannot be read: the daemon refuses the batch and stays as it was,
\* its last result included.
Refuse ==
    /\ Quiet /\ calls # <<>> /\ live /\ Head(calls).kind # "restart" /\ ~FullReload
    /\ faults < MaxFaults /\ faults' = faults + 1
    /\ missed' = missed \cup Head(calls).paths
    /\ Answer(NoResult)
    /\ UNCHANGED <<files, live, known, last, gens, closing, ready, epoch, initial, batch, caller,
                   written, history>>

\* The daemon dies: onInvalidate, and the request it was working on fails.  A
\* daemon that is being shut down invalidates nothing.
Die ==
    /\ Quiet /\ live /\ faults < MaxFaults
    /\ faults' = faults + 1
    /\ live' = FALSE /\ known' = Nothing /\ last' = NoResult /\ missed' = {}
    /\ IF calls # <<>> /\ Head(calls).kind = "restart"
       THEN UNCHANGED <<ready, epoch, initial, calls, task, error>>
       ELSE /\ Invalidate
            /\ IF calls # <<>>
               THEN CatchError(Head(calls).by) /\ calls' = Tail(calls)
               ELSE UNCHANGED <<calls, task, error>>
    /\ UNCHANGED <<files, gens, closing, batch, caller, written, history>>

\* The shutdown of restart is over: the task takes the epoch and compiles.
Restarted ==
    /\ Quiet /\ calls # <<>> /\ Head(calls).kind = "restart"
    /\ live' = FALSE /\ known' = Nothing /\ last' = NoResult /\ missed' = {}
    /\ closing' = FALSE
    /\ task' = [task EXCEPT ![Loop].stage = "call", ![Loop].epoch = epoch]
    /\ calls' = Append(Tail(calls), [by |-> Loop, kind |-> "compile", paths |-> {}])
    /\ UNCHANGED <<files, faults, gens, ready, epoch, initial, error, batch, caller, written, history>>

-----------------------------------------------------------------------------
(* The coalescing loop *)

\* Bug: a path of the batch in flight is not queued again.
SkipsActive(p) == p \notin pending /\ p \notin active.paths

\* The watcher listener: a path still pending needs no second delivery.
NeedsDelivery(p) == p \notin pending

StartLoop == loop' = IF loop = "off" THEN "settling" ELSE loop

\* The settled microtask: the loop drains what is pending and compiles it.
Settle ==
    /\ loop = "settling"
    /\ active' = [paths |-> pending, callers |-> waiting]
    /\ pending' = {} /\ waiting' = {}
    /\ loop' = "compiling"
    /\ BeginBatch(pending)
    /\ UNCHANGED <<files, faults, daemon, caller, written, unseen>>

\* Bug: the loop ends with its batch, whatever was queued meanwhile.
Stop == "off"

Continue == IF pending = {} THEN "off" ELSE "settling"

\* compileBatch returned: its waiters get the outcome, and the loop goes on if
\* changes arrived meanwhile.
EndBatch ==
    /\ loop = "compiling" /\ Settled(Loop)
    /\ caller' = [c \in Caller |->
                    IF c \in active.callers
                    THEN [caller[c] EXCEPT !.stage = "resume", !.outcome = task[Loop].outcome]
                    ELSE caller[c]]
    /\ active' = NoBatch
    /\ task' = [task EXCEPT ![Loop] = Idle]
    /\ loop' = Continue
    /\ UNCHANGED <<files, faults, daemon, calls, closing, ready, epoch, initial, error,
                   pending, waiting, written, history>>

-----------------------------------------------------------------------------
(* Files and the watcher *)

\* A host never has a content that fails alone; other files have no callsites.
Edit(p, c) ==
    /\ Quiet /\ edits < MaxEdits
    /\ c # disk[p] /\ c # (IF p \in Host THEN Bad ELSE Plain)
    /\ edits' = edits + 1
    /\ disk' = [disk EXCEPT ![p] = c]
    /\ IF serving
       THEN events' = events \cup {p} /\ UNCHANGED unseen
       ELSE unseen' = TRUE /\ UNCHANGED events
    /\ UNCHANGED <<faults, serving, daemon, calls, closing, ready, epoch, initial, error,
                   batch, task, caller, written, overlap>>

\* configureServer, after the config hook has awaited the initial compile.
ConfigureServer ==
    /\ Quiet /\ ~serving /\ \E i \in Initial : Settled(i)
    /\ serving' = TRUE
    /\ UNCHANGED <<disk, events, edits, faults, daemon, calls, closing, ready, epoch, initial,
                   error, batch, task, caller, written, history>>

\* A change is reported to the watcher's listener alone.
WatchEvent(p) ==
    /\ Quiet /\ p \in events
    /\ events' = events \ {p}
    /\ IF NeedsDelivery(p)
       THEN pending' = pending \cup {p} /\ StartLoop
       ELSE UNCHANGED <<pending, loop>>
    /\ UNCHANGED <<disk, edits, serving, faults, daemon, calls, closing, ready, epoch, initial,
                   error, waiting, active, task, caller, written, history>>

\* A change is reported to the listener and to handleHotUpdate in one turn, in
\* either order.  outcomeFor joins the batch that carries the path.
HotUpdate(p, c) ==
    /\ Quiet /\ p \in events /\ caller[c].stage = "idle"
    /\ events' = events \ {p}
    /\ caller' = [caller EXCEPT ![c] = [@ EXCEPT !.stage = "batch", !.kind = "hot", !.path = p]]
    /\ pending' = pending \cup {p}
    /\ StartLoop
    /\ \/ waiting' = waiting \cup {c} /\ UNCHANGED active
       \/ /\ p \notin pending /\ p \in active.paths
          /\ active' = [active EXCEPT !.callers = @ \cup {c}]
          /\ UNCHANGED waiting
    /\ UNCHANGED <<disk, edits, serving, faults, daemon, calls, closing, ready, epoch, initial,
                   error, task, written, history>>

EndHotUpdate(c) ==
    /\ caller[c].stage = "resume" /\ caller[c].kind = "hot"
    /\ caller' = [caller EXCEPT ![c].stage = "answered"]
    /\ UNCHANGED <<files, faults, daemon, calls, closing, ready, epoch, initial, error, batch,
                   task, written, history>>

-----------------------------------------------------------------------------
(* The transform hook *)

\* A transform of host h with buffer code awaits the initial compile.
Transform(c, h, code) ==
    /\ Quiet /\ caller[c].stage = "idle"
    /\ \E i \in Initial :
          /\ \/ initial = i /\ UNCHANGED <<initial, overlap, task, calls, error>>
             \/ BeginInitial(i)
          /\ caller' = [caller EXCEPT ![c] = [@ EXCEPT
                !.stage = "initial", !.kind = "transform", !.path = h, !.code = code, !.on = i]]
    /\ UNCHANGED <<files, faults, daemon, closing, ready, epoch, batch, written, unseen>>

Return(c, stage) == caller' = [caller EXCEPT ![c].stage = stage]

\* rewriteCallsites, with the callsite of the active result and the modules of
\* generation m.
Rewrite(c, m) ==
    caller' = [caller EXCEPT ![c].stage = "rewritten", ![c].hash = ready.of[caller[c].path],
                             ![c].callsites = ready.gen, ![c].modules = m]

\* The first look at the active result: a buffer that is not the compiled file
\* asks for a refresh.
Lookup(c) ==
    LET compiled == ready.of[caller[c].path]
    IN  /\ caller[c].stage = "initial" /\ Settled(caller[c].on)
        /\ IF ready = NoResult \/ compiled = Plain
           THEN Return(c, "raw") /\ UNCHANGED batch
           ELSE IF compiled = caller[c].code
           THEN Rewrite(c, ready.gen) /\ UNCHANGED batch
           ELSE /\ caller' = [caller EXCEPT ![c].stage = "batch", ![c].modules = ready.gen]
                /\ pending' = pending \cup {caller[c].path}
                /\ waiting' = waiting \cup {c}
                /\ StartLoop
                /\ UNCHANGED active
        /\ UNCHANGED <<files, faults, daemon, calls, closing, ready, epoch, initial, error, task,
                       written, history>>

\* Bug: the modules looked up before the refresh are used after it.
OldModules(c) == caller[c].modules

\* modules = fresh.modulesById
FreshModules(c) == ready.gen

\* The refresh is over: one retry, then the transform fails.
Retry(c) ==
    LET compiled == ready.of[caller[c].path]
    IN  /\ caller[c].stage = "resume" /\ caller[c].kind = "transform"
        /\ IF caller[c].outcome = Failed \/ ready = NoResult THEN Return(c, "thrown")
           ELSE IF compiled = Plain THEN Return(c, "raw")
           ELSE IF compiled = caller[c].code THEN Rewrite(c, FreshModules(c))
           ELSE Return(c, "thrown")
        /\ UNCHANGED <<files, faults, daemon, calls, closing, ready, epoch, initial, error, batch,
                       task, written, history>>

-----------------------------------------------------------------------------
\* The config hook starts the first initial compile.
Init ==
    /\ disk = [p \in Path |-> Original]
    /\ events = {} /\ edits = 0 /\ faults = 0 /\ serving = FALSE
    /\ live = FALSE /\ known = Nothing /\ last = NoResult /\ gens = 0 /\ missed = {}
    /\ closing = FALSE /\ ready = NoResult /\ epoch = 0 /\ error = FALSE
    /\ pending = {} /\ waiting = {} /\ active = NoBatch /\ loop = "off"
    /\ \E i \in Initial :
          /\ initial = i
          /\ calls = <<[by |-> i, kind |-> "compile", paths |-> {}]>>
          /\ task = [t \in Task |-> IF t = i THEN [Idle EXCEPT !.stage = "call"] ELSE Idle]
    /\ caller = [c \in Caller |-> Asleep]
    /\ written = 0 /\ overlap = FALSE /\ unseen = FALSE

TaskStep == \E t \in Task : EndRender(t)
CallerStep(c) == Lookup(c) \/ Retry(c) \/ EndHotUpdate(c)

Next ==
    \/ Initialize \/ Serve \/ ServeFails \/ Refuse \/ Die \/ Restarted
    \/ \E t \in Task : EndRender(t) \/ RenderFails(t)
    \/ Settle \/ EndBatch \/ ConfigureServer
    \/ \E p \in Path :
          \/ WatchEvent(p)
          \/ \E c \in Content : Edit(p, c)
          \/ \E c \in Caller : HotUpdate(p, c)
    \/ \E c \in Caller :
          \/ CallerStep(c)
          \/ \E h \in Host : \E code \in Content \ {Plain, Bad} : Transform(c, h, code)

Spec == Init /\ [][Next]_vars

\* Promises are not forgotten, the client settles every call (CallQueue), and
\* a renderer ends.
FairSpec ==
    /\ Spec
    /\ WF_vars(Initialize) /\ WF_vars(Serve) /\ WF_vars(Restarted)
    /\ \A t \in Task : WF_vars(EndRender(t) \/ RenderFails(t))
    /\ WF_vars(Settle) /\ WF_vars(EndBatch)
    /\ \A c \in Caller : WF_vars(CallerStep(c))

-----------------------------------------------------------------------------
(* Properties *)

\* The active result was answered after the last invalidation: a render that
\* was under way when the daemon died or the configuration changed does not
\* bring the old world back.
ReadyIsTrusted == ready # NoResult => ready.born = epoch

\* Nothing is under way, and the watcher has reported everything.
AtRest ==
    /\ Quiet /\ loop = "off" /\ events = {} /\ calls = <<>>
    /\ \A t \in Task : ~Running(t)

\* When all is at rest and no error is displayed, an active result describes the
\* files as they are: no batch, failed render, drift or replay drops a change
\* silently.  Two compiles that overlapped may finish in the wrong order, and
\* what changed before the watcher was installed is not reported.  A batch that the
\* daemon refused is forgotten: the next replay takes its error away while the
\* result is still of the old files, so of its paths nothing is promised.
NoSilentStaleness ==
    AtRest /\ ready # NoResult /\ ~error /\ ~overlap /\ ~unseen =>
        \A p \in Path \ missed : ready.of[p] = disk[p]

\* A transform that rewrites used the callsites of exactly the buffer it has, and
\* modules of the same generation as the callsites.
RewritesMatch ==
    \A c \in Caller : caller[c].stage = "rewritten" =>
        caller[c].hash = caller[c].code /\ caller[c].callsites = caller[c].modules

\* Every hook that was called returns: no waiter is lost between the batches of
\* the loop, invalidations and initial compiles.
EveryHookReturns ==
    \A c \in Caller : caller[c].stage \in {"initial", "batch", "resume"}
                      ~> caller[c].stage \in {"rewritten", "raw", "thrown", "answered"}
=============================================================================
