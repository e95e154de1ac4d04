--------------------------- MODULE VitePluginProofs ---------------------------
(***************************************************************************)
(* Theorems about VitePlugin, for any files, hooks, initial compiles, edits *)
(* and faults: no result of an invalidated session becomes the active one, *)
(* a transform rewrites with what it was compiled from, and at rest the    *)
(* active result is of what is on disk, or an error is displayed, save for *)
(* the paths of batches that the daemon refused.                           *)
(***************************************************************************)
EXTENDS VitePlugin, SequenceTheorems, TLAPS

TaskStage == {"idle", "restart", "call", "refresh", "render", "done"}
TaskType == [stage: TaskStage, paths: SUBSET Path, epoch: Nat, result: Result, outcome: Outcome]
CallType == [by: Task, kind: {"compile", "files", "restart"}, paths: SUBSET Path]
CallerStage == {"idle", "initial", "batch", "resume", "answered", "raw", "thrown", "rewritten"}
CallerType ==
    [stage: CallerStage, kind: {"none", "transform", "hot"}, path: Path, code: Content,
     on: Task \cup {NoTask}, outcome: Outcome, hash: Content, callsites: Nat, modules: Nat]

TypeOK ==
    /\ disk \in Contents /\ known \in Contents
    /\ last \in Result /\ ready \in Result
    /\ epoch \in Nat /\ gens \in Nat
    /\ calls \in Seq(CallType)
    /\ task \in [Task -> TaskType]
    /\ caller \in [Caller -> CallerType]
    /\ pending \in SUBSET Path /\ active.paths \in SUBSET Path

\* A result in the renderer was answered no earlier than its task took its
\* epoch; so a task whose epoch still holds has a result of that epoch.
Dated(x, e) ==
    /\ x.epoch <= e
    /\ x.stage = "render" => x.epoch <= x.result.born /\ x.result.born <= e
AreDated(tasks, e) == \A t \in Task : Dated(tasks[t], e)
RendersAreDated == AreDated(task, epoch)

\* Tasks that are well typed and dated.
Good(tasks, e) == tasks \in [Task -> TaskType] /\ AreDated(tasks, e)

-----------------------------------------------------------------------------
(* Tasks *)

LEMMA Constants ==
  /\ Loop \in Task /\ Initial \subseteq Task /\ NoTask \notin Task
  /\ Nothing \in Contents /\ NoResult \in Result /\ Idle \in TaskType
  /\ ConfigPath \in Path /\ Host \subseteq Path
<1> USE ViteAssumption
<1>1. /\ Loop \in Task /\ Initial \subseteq Task /\ NoTask \notin Task
      /\ ConfigPath \in Path /\ Host \subseteq Path
  BY DEF Task, Path
<1>2. Nothing \in Contents
  BY DEF Nothing, Contents
<1>3. NoResult \in Result
  BY <1>2 DEF NoResult, Result
<1>4. Idle \in TaskType
  BY <1>3 DEF Idle, TaskType, TaskStage, Outcome
<1> QED
  BY <1>1, <1>2, <1>3, <1>4

\* A task goes to a stage other than that of the renderer.
LEMMA StageGood ==
  ASSUME NEW e \in Nat, NEW tasks, Good(tasks, e), NEW t \in Task,
         NEW s \in TaskStage \ {"render"}
  PROVE  Good([tasks EXCEPT ![t].stage = s], e)
<1> DEFINE x == [tasks[t] EXCEPT !.stage = s]
<1>1. tasks[t] \in TaskType /\ Dated(tasks[t], e)
  BY DEF Good, AreDated
<1>2. x \in TaskType /\ x.stage = s /\ x.epoch = tasks[t].epoch
  BY <1>1 DEF TaskType
<1>3. Dated(x, e)
  BY <1>1, <1>2 DEF Dated
<1>4. [tasks EXCEPT ![t].stage = s] = [tasks EXCEPT ![t] = x]
  BY DEF Good
<1> HIDE DEF x
<1> QED
  BY <1>2, <1>3, <1>4 DEF Good, AreDated

\* A task is over, with an outcome.
LEMMA DoneGood ==
  ASSUME NEW e \in Nat, NEW tasks, Good(tasks, e), NEW t \in Task, NEW o \in Outcome
  PROVE  Good([tasks EXCEPT ![t].stage = "done", ![t].outcome = o], e)
<1> DEFINE x == [tasks[t] EXCEPT !.stage = "done", !.outcome = o]
<1>1. tasks[t] \in TaskType /\ Dated(tasks[t], e)
  BY DEF Good, AreDated
<1>2. x \in TaskType /\ x.stage = "done" /\ x.epoch = tasks[t].epoch
  BY <1>1 DEF TaskType, TaskStage
<1>3. Dated(x, e)
  BY <1>1, <1>2 DEF Dated
<1>4. [tasks EXCEPT ![t].stage = "done", ![t].outcome = o] = [tasks EXCEPT ![t] = x]
  BY DEF Good
<1> HIDE DEF x
<1> QED
  BY <1>2, <1>3, <1>4 DEF Good, AreDated

\* A task begins in a stage before the renderer.
LEMMA BegunGood ==
  ASSUME NEW e \in Nat, NEW tasks, Good(tasks, e), NEW t \in Task, NEW x \in TaskType,
         x.epoch <= e, x.stage # "render"
  PROVE  Good([tasks EXCEPT ![t] = x], e)
  BY DEF Good, AreDated, Dated

\* A task takes a result of the present epoch.
LEMMA HoldingGood ==
  ASSUME NEW e \in Nat, NEW tasks, Good(tasks, e), NEW t \in Task,
         NEW r \in Result, r.born = e
  PROVE  /\ Good([tasks EXCEPT ![t].result = r], e)
         /\ Good([[tasks EXCEPT ![t].result = r] EXCEPT ![t].stage = "render"], e)
<1> DEFINE x == [tasks[t] EXCEPT !.result = r]
           y == [x EXCEPT !.stage = "render"]
<1>1. tasks[t] \in TaskType /\ Dated(tasks[t], e)
  BY DEF Good, AreDated
<1>2. x \in TaskType /\ x.epoch = tasks[t].epoch /\ x.result = r
  BY <1>1 DEF TaskType
<1>3. Dated(x, e)
  BY <1>1, <1>2 DEF Dated
<1>4. [tasks EXCEPT ![t].result = r] = [tasks EXCEPT ![t] = x]
  BY DEF Good
<1>5. y \in TaskType /\ y.epoch = tasks[t].epoch /\ y.result = r
  BY <1>1 DEF TaskType, TaskStage
<1>6. Dated(y, e)
  BY <1>1, <1>5 DEF Dated
<1>7. [[tasks EXCEPT ![t].result = r] EXCEPT ![t].stage = "render"] = [tasks EXCEPT ![t] = y]
  BY DEF Good
<1> HIDE DEF x, y
<1> QED
  BY <1>2, <1>3, <1>4, <1>5, <1>6, <1>7 DEF Good, AreDated

\* An invalidation leaves what is dated dated.
LEMMA LaterGood ==
  ASSUME NEW e \in Nat, NEW tasks, Good(tasks, e)
  PROVE  Good(tasks, e + 1)
<1>1. ASSUME NEW t \in Task PROVE Dated(tasks[t], e + 1)
  <2>1. tasks[t].epoch \in Nat /\ tasks[t].result.born \in Nat /\ Dated(tasks[t], e)
    BY DEF Good, AreDated, TaskType, Result
  <2> QED
    BY <2>1 DEF Dated
<1> QED
  BY <1>1 DEF Good, AreDated

\* What a request, the catch block and an answer make of the tasks.
LEMMA AskGood ==
  ASSUME NEW e \in Nat, NEW tasks, Good(tasks, e), NEW t \in Task,
         NEW s \in TaskStage \ {"render"}, NEW kind \in {"compile", "files"},
         NEW paths \in SUBSET Path, NEW queue \in Seq(CallType), Ask(t, s, kind, paths, queue, tasks)
  PROVE  Good(task', e) /\ calls' \in Seq(CallType)
<1>1. CASE closing
  <2>1. Failed \in Outcome
    BY DEF Outcome
  <2>2. Good([tasks EXCEPT ![t].stage = "done", ![t].outcome = Failed], e)
    BY <2>1, DoneGood
  <2> QED
    BY <1>1, <2>2 DEF Ask
<1>2. CASE ~closing
  <2>1. [by |-> t, kind |-> kind, paths |-> paths] \in CallType
    BY DEF CallType
  <2>2. Good([tasks EXCEPT ![t].stage = s], e)
    BY StageGood
  <2>3. Append(queue, [by |-> t, kind |-> kind, paths |-> paths]) \in Seq(CallType)
    BY <2>1
  <2> QED
    BY <1>2, <2>2, <2>3 DEF Ask
<1> QED
  BY <1>1, <1>2

LEMMA CatchGood ==
  ASSUME NEW e \in Nat, Good(task, e), NEW t \in Task, CatchError(t)
  PROVE  Good(task', e)
<1>1. Failed \in Outcome
  BY DEF Outcome
<1>2. Good([task EXCEPT ![t].stage = "done", ![t].outcome = Failed], e)
  BY <1>1, DoneGood
<1> QED
  BY <1>2 DEF CatchError, Fail

LEMMA AnswerGood ==
  ASSUME NEW e \in Nat, Good(task, e), NEW r \in Result, r = NoResult \/ r.born = e,
         calls \in Seq(CallType), calls # <<>>, Answer(r)
  PROVE  Good(task', e) /\ calls' \in Seq(CallType)
<1> DEFINE t == Head(calls).by
<1>1. t \in Task /\ Tail(calls) \in Seq(CallType)
  <2>1. Head(calls) \in CallType /\ Tail(calls) \in Seq(CallType)
    OBVIOUS
  <2> QED
    BY <2>1 DEF CallType
<1> HIDE DEF t
<1>2. CASE r = NoResult
  BY <1>1, <1>2, CatchGood DEF Answer, t
<1>3. CASE r # NoResult
  <2>1. AfterAnswer(t, r, Tail(calls))
    BY <1>3 DEF Answer, t
  <2>2. CASE task[t].stage = "call" /\ ~r.changed /\ ready # NoResult
    <3>1. Good([task EXCEPT ![t].stage = "done", ![t].outcome = "unchanged"], e)
      BY <1>1, DoneGood DEF Outcome
    <3> QED
      BY <1>1, <2>1, <2>2, <3>1 DEF AfterAnswer
  <2>3. CASE Prepare(t, r, Tail(calls))
    <3>1. CASE Mismatches(r) = {}
      <4>1. Good([[task EXCEPT ![t].result = r] EXCEPT ![t].stage = "render"], e)
        BY <1>1, <1>3, HoldingGood
      <4> QED
        BY <1>1, <2>3, <3>1, <4>1 DEF Prepare
    <3>2. CASE Mismatches(r) # {} /\ task[t].stage = "refresh"
      BY <1>1, <2>3, <3>2, CatchGood DEF Prepare
    <3>3. CASE Mismatches(r) # {} /\ task[t].stage # "refresh"
      <4>1. Ask(t, "refresh", "files", Mismatches(r), Tail(calls), [task EXCEPT ![t].result = r])
        BY <2>3, <3>3 DEF Prepare
      <4>2. Mismatches(r) \in SUBSET Path
        BY Constants DEF Mismatches
      <4>3. Good([task EXCEPT ![t].result = r], e)
        BY <1>1, <1>3, HoldingGood
      <4> QED
        BY <1>1, <4>1, <4>2, <4>3, AskGood DEF TaskStage
    <3> QED
      BY <3>1, <3>2, <3>3
  <2> QED
    BY <2>1, <2>2, <2>3 DEF AfterAnswer
<1> QED
  BY <1>2, <1>3

-----------------------------------------------------------------------------
(* The invariant *)

ViteInv == TypeOK /\ RendersAreDated /\ ReadyIsTrusted /\ RewritesMatch

LEMMA InvInitially == Init => ViteInv
<1> SUFFICES ASSUME Init PROVE ViteInv
  OBVIOUS
<1> USE ViteAssumption, Constants
<1>1. PICK i \in Initial :
        /\ calls = <<[by |-> i, kind |-> "compile", paths |-> {}]>>
        /\ task = [t \in Task |-> IF t = i THEN [Idle EXCEPT !.stage = "call"] ELSE Idle]
  BY DEF Init
<1>2. [Idle EXCEPT !.stage = "call"] \in TaskType /\ [Idle EXCEPT !.stage = "call"].stage = "call"
      /\ [Idle EXCEPT !.stage = "call"].epoch = 0 /\ Idle.epoch = 0 /\ Idle.stage = "idle"
  BY DEF TaskType, TaskStage, Idle
<1>3. Good(task, epoch)
  BY <1>1, <1>2 DEF Init, Good, AreDated, Dated
<1>4. [by |-> i, kind |-> "compile", paths |-> {}] \in CallType
  BY DEF CallType
<1>5. calls \in Seq(CallType)
  BY <1>1, <1>4
<1>6. Asleep \in CallerType /\ Asleep.stage = "idle"
  BY DEF Asleep, CallerType, CallerStage, Outcome
<1>7. disk \in Contents
  BY DEF Init, Contents
<1>8. active.paths = {}
  BY DEF Init, NoBatch
<1>9. caller \in [Caller -> CallerType] /\ RewritesMatch
  BY <1>6 DEF Init, RewritesMatch
<1> QED
  BY <1>3, <1>5, <1>7, <1>8, <1>9 DEF Init, ViteInv, TypeOK, Good, RendersAreDated, ReadyIsTrusted

\* The parts of the state that only types are said of.
Rest ==
    /\ disk \in Contents /\ known \in Contents /\ last \in Result /\ ready \in Result
    /\ epoch \in Nat /\ gens \in Nat
    /\ pending \in SUBSET Path /\ active.paths \in SUBSET Path

\* The hooks, and what they rewrote with.
Hooks == caller \in [Caller -> CallerType] /\ RewritesMatch

LEMMA InvParts ==
  /\ ViteInv => Rest /\ Hooks /\ calls \in Seq(CallType) /\ Good(task, epoch) /\ ReadyIsTrusted
  /\ Rest /\ Hooks /\ calls \in Seq(CallType) /\ Good(task, epoch) /\ ReadyIsTrusted => ViteInv
  BY DEF ViteInv, TypeOK, RendersAreDated, Rest, Hooks, Good

\* A result of the daemon, as a request sees it.
LEMMA ResultTyped ==
  ASSUME ViteInv
  PROVE  /\ Reread \in Contents
         /\ [last EXCEPT !.changed = FALSE, !.born = epoch] \in Result
         /\ [last EXCEPT !.changed = FALSE, !.born = epoch].born = epoch
         /\ \A contents \in Contents :
              LET r == [gen |-> gens + 1, of |-> contents, changed |-> TRUE, born |-> epoch]
              IN  r \in Result /\ r.born = epoch /\ r # NoResult
<1>1. /\ disk \in Contents /\ known \in Contents /\ last \in Result /\ epoch \in Nat /\ gens \in Nat
  BY DEF ViteInv, TypeOK
<1>2. Reread \in Contents
  BY <1>1 DEF Reread, Contents
<1> DEFINE q == [last EXCEPT !.changed = FALSE, !.born = epoch]
<1>3. q \in Result /\ q.born = epoch
  BY <1>1 DEF Result
<1>4. ASSUME NEW contents \in Contents
      PROVE  LET r == [gen |-> gens + 1, of |-> contents, changed |-> TRUE, born |-> epoch]
             IN  r \in Result /\ r.born = epoch /\ r # NoResult
  <2> DEFINE r == [gen |-> gens + 1, of |-> contents, changed |-> TRUE, born |-> epoch]
  <2>1. r \in Result /\ r.born = epoch /\ r.gen = gens + 1
    BY <1>1 DEF Result
  <2>2. NoResult.gen = 0 /\ gens + 1 # 0
    BY <1>1 DEF NoResult
  <2> QED
    BY <2>1, <2>2
<1> QED
  BY <1>2, <1>3, <1>4

\* Steps of the daemon and its client.
LEMMA DaemonStep ==
  ViteInv /\ (Initialize \/ Serve \/ ServeFails \/ Refuse \/ Die \/ Restarted) => ViteInv'
<1> SUFFICES ASSUME ViteInv, Initialize \/ Serve \/ ServeFails \/ Refuse \/ Die \/ Restarted PROVE ViteInv'
  OBVIOUS
<1> USE Constants
<1>1. Rest /\ Hooks /\ calls \in Seq(CallType) /\ Good(task, epoch) /\ ReadyIsTrusted /\ epoch \in Nat
  BY InvParts DEF Rest
<1>2. ASSUME caller' = caller PROVE Hooks'
  BY <1>1, <1>2 DEF Hooks, RewritesMatch
<1>3. ASSUME Rest', Hooks', calls' \in Seq(CallType), Good(task', epoch'), ReadyIsTrusted'
      PROVE  ViteInv'
  BY <1>3 DEF ViteInv, TypeOK, RendersAreDated, Rest, Hooks, Good
<1>4. CASE Initialize
  BY <1>1, <1>2, <1>3, <1>4 DEF Initialize, Rest, files, batch, ReadyIsTrusted
<1>5. CASE Serve
  <2>1. UNCHANGED <<disk, ready, epoch, pending, active, caller>> /\ calls # <<>>
    BY <1>5 DEF Serve, files, batch
  <2>2. known' \in Contents /\ last' \in Result /\ gens' \in Nat
        /\ \E r \in Result : (r = NoResult \/ r.born = epoch) /\ Answer(r)
    <3>1. CASE ~FullReload /\ Reread = known
      <4>1. UNCHANGED <<known, last, gens>>
            /\ Answer(IF last = NoResult THEN NoResult
                      ELSE [last EXCEPT !.changed = FALSE, !.born = epoch])
        BY <1>5, <3>1 DEF Serve
      <4> QED
        BY <1>1, <4>1, ResultTyped DEF Rest
    <3>2. CASE Compile(Reread)
      <4>1. CASE Errors(Reread)
        BY <1>1, <3>2, <4>1, ResultTyped DEF Compile, Rest
      <4>2. CASE ~Errors(Reread)
        <5> DEFINE r == [gen |-> gens + 1, of |-> Reread, changed |-> TRUE, born |-> epoch]
        <5>1. known' = Reread /\ gens' = gens + 1 /\ last' = r /\ Answer(r)
          BY <3>2, <4>2 DEF Compile
        <5>2. r \in Result /\ r.born = epoch /\ Reread \in Contents
          BY ResultTyped
        <5> QED
          BY <1>1, <5>1, <5>2 DEF Rest
      <4> QED
        BY <4>1, <4>2
    <3> QED
      BY <1>5, <3>1, <3>2 DEF Serve
  <2>3. Good(task', epoch) /\ calls' \in Seq(CallType)
    BY <1>1, <2>1, <2>2, AnswerGood
  <2> QED
    BY <1>1, <1>2, <1>3, <2>1, <2>2, <2>3 DEF Rest, ReadyIsTrusted
<1>6. CASE ServeFails
  <2>1. /\ UNCHANGED <<disk, gens, ready, epoch, pending, active, caller>> /\ calls # <<>>
        /\ known' \in {Reread, Nothing} /\ last' = NoResult /\ Answer(NoResult)
    BY <1>6 DEF ServeFails, files, batch
  <2>2. Good(task', epoch) /\ calls' \in Seq(CallType)
    BY <1>1, <2>1, AnswerGood
  <2> QED
    BY <1>1, <1>2, <1>3, <2>1, <2>2, ResultTyped DEF Rest, ReadyIsTrusted
<1>7. CASE Die
  <2>1. UNCHANGED <<disk, gens, pending, active, caller>> /\ known' = Nothing /\ last' = NoResult
    BY <1>7 DEF Die, files, batch
  <2>2. CASE calls # <<>> /\ Head(calls).kind = "restart"
    <3>1. UNCHANGED <<ready, epoch, calls, task>>
      BY <1>7, <2>2 DEF Die
    <3> QED
      BY <1>1, <1>2, <1>3, <2>1, <3>1 DEF Rest, ReadyIsTrusted
  <2>3. CASE ~(calls # <<>> /\ Head(calls).kind = "restart")
    <3>1. epoch' = epoch + 1 /\ ready' = NoResult
      BY <1>7, <2>3 DEF Die, Invalidate
    <3>2. Good(task', epoch) /\ calls' \in Seq(CallType)
      <4>1. CASE calls # <<>>
        <5>1. Head(calls) \in CallType /\ Tail(calls) \in Seq(CallType)
          BY <1>1, <4>1
        <5>2. Head(calls).by \in Task
          BY <5>1 DEF CallType
        <5>3. CatchError(Head(calls).by) /\ calls' = Tail(calls)
          BY <1>7, <2>3, <4>1 DEF Die
        <5> QED
          BY <1>1, <5>1, <5>2, <5>3, CatchGood
      <4>2. CASE calls = <<>>
        BY <1>1, <1>7, <2>3, <4>2 DEF Die
      <4> QED
        BY <4>1, <4>2
    <3>3. Good(task', epoch + 1)
      BY <1>1, <3>2, LaterGood
    <3> QED
      BY <1>1, <1>2, <1>3, <2>1, <3>1, <3>2, <3>3 DEF Rest, ReadyIsTrusted
  <2> QED
    BY <2>2, <2>3
<1>8. CASE Restarted
  <2> DEFINE x == [task[Loop] EXCEPT !.stage = "call", !.epoch = epoch]
  <2>1. /\ UNCHANGED <<disk, gens, ready, epoch, pending, active, caller>>
        /\ known' = Nothing /\ last' = NoResult
        /\ calls' = Append(Tail(calls), [by |-> Loop, kind |-> "compile", paths |-> {}])
        /\ calls # <<>>
        /\ task' = [task EXCEPT ![Loop].stage = "call", ![Loop].epoch = epoch]
    BY <1>8 DEF Restarted, files, batch
  <2>2. task[Loop] \in TaskType
    BY <1>1 DEF Good
  <2>3. x \in TaskType /\ x.stage = "call" /\ x.epoch = epoch
    BY <1>1, <2>2 DEF TaskType, TaskStage
  <2>4. task' = [task EXCEPT ![Loop] = x]
    BY <1>1, <2>1 DEF Good
  <2>5. [by |-> Loop, kind |-> "compile", paths |-> {}] \in CallType
    BY DEF CallType
  <2>6. calls' \in Seq(CallType)
    BY <1>1, <2>1, <2>5
  <2> HIDE DEF x
  <2>7. x.epoch <= epoch /\ x.stage # "render"
    BY <1>1, <2>3
  <2>8. Good([task EXCEPT ![Loop] = x], epoch)
    BY <1>1, <2>3, <2>7, BegunGood
  <2>9. Good(task', epoch)
    BY <2>4, <2>8
  <2> QED
    BY <1>1, <1>2, <1>3, <2>1, <2>6, <2>9 DEF Rest, ReadyIsTrusted
<1>9. CASE Refuse
  <2>1. /\ UNCHANGED <<disk, known, last, gens, ready, epoch, pending, active, caller>>
        /\ calls # <<>> /\ Answer(NoResult)
    BY <1>9 DEF Refuse, files, batch
  <2>2. Good(task', epoch) /\ calls' \in Seq(CallType)
    BY <1>1, <2>1, AnswerGood
  <2> QED
    BY <1>1, <1>2, <1>3, <2>1, <2>2 DEF Rest, ReadyIsTrusted
<1> QED
  BY <1>4, <1>5, <1>6, <1>7, <1>8, <1>9

\* Steps of the renderer.
LEMMA RenderStep ==
  ASSUME ViteInv, NEW t \in Task, EndRender(t) \/ RenderFails(t)
  PROVE  ViteInv'
<1>1. Rest /\ Hooks /\ calls \in Seq(CallType) /\ Good(task, epoch) /\ ReadyIsTrusted /\ epoch \in Nat
  BY InvParts DEF Rest
<1>2. /\ UNCHANGED <<disk, known, last, gens, epoch, calls, pending, active, caller>>
      /\ task[t].stage = "render"
  BY DEF EndRender, RenderFails, files, daemon, batch
<1>3. Hooks' /\ calls' \in Seq(CallType)
  BY <1>1, <1>2 DEF Hooks, RewritesMatch
<1>4. task[t] \in TaskType /\ Dated(task[t], epoch)
  BY <1>1 DEF Good, AreDated
<1>5. CASE EndRender(t) /\ EpochHolds(t)
  <2>1. /\ ready' = task[t].result
        /\ task' = [task EXCEPT ![t].stage = "done", ![t].outcome = "success"]
    BY <1>5 DEF EndRender
  <2>2. Good(task', epoch)
    BY <1>1, <2>1, DoneGood DEF Outcome
  <2>3. ready' \in Result /\ ready'.born = epoch
    BY <1>1, <1>2, <1>4, <1>5, <2>1 DEF TaskType, Result, Dated, EpochHolds
  <2> QED
    BY <1>1, <1>2, <1>3, <2>2, <2>3, InvParts
       DEF Rest, ReadyIsTrusted, ViteInv, TypeOK, RendersAreDated, Good, Hooks
<1>6. CASE RenderFails(t) \/ (EndRender(t) /\ ~EpochHolds(t))
  <2>1. CatchError(t) /\ ready' = ready
    BY <1>6 DEF RenderFails, EndRender
  <2>2. Good(task', epoch)
    BY <1>1, <2>1, CatchGood
  <2> QED
    BY <1>1, <1>2, <1>3, <2>1, <2>2
       DEF Rest, ReadyIsTrusted, ViteInv, TypeOK, RendersAreDated, Good, Hooks
<1> QED
  BY <1>5, <1>6

\* Steps of the coalescing loop: a batch begins, perhaps with a restart, or ends.
LEMMA LoopStep == ViteInv /\ (Settle \/ EndBatch) => ViteInv'
<1> SUFFICES ASSUME ViteInv, Settle \/ EndBatch PROVE ViteInv'
  OBVIOUS
<1> USE Constants
<1>1. Rest /\ Hooks /\ calls \in Seq(CallType) /\ Good(task, epoch) /\ ReadyIsTrusted /\ epoch \in Nat
  BY InvParts DEF Rest
<1>2. CASE Settle
  <2> DEFINE x == [Idle EXCEPT !.paths = pending, !.epoch = epoch]
             y == [x EXCEPT !.stage = "restart"]
             started == [task EXCEPT ![Loop] = x]
  <2>1. /\ UNCHANGED <<disk, known, last, gens, caller>>
        /\ active' = [paths |-> pending, callers |-> waiting] /\ pending' = {}
        /\ BeginBatch(pending)
    BY <1>2 DEF Settle, files, daemon
  <2>2. pending \in SUBSET Path
    BY <1>1 DEF Rest
  <2>3. x \in TaskType /\ x.epoch = epoch /\ x.stage = "idle"
    BY <1>1, <2>2 DEF TaskType, Idle
  <2>4. y \in TaskType /\ y.epoch = epoch /\ y.stage = "restart"
    BY <2>3 DEF TaskType, TaskStage
  <2>5. Good(started, epoch)
    <3>1. x.epoch <= epoch /\ x.stage # "render"
      BY <1>1, <2>3
    <3> HIDE DEF x
    <3> QED
      BY <1>1, <2>3, <3>1, BegunGood
  <2>6. Hooks'
    BY <1>1, <2>1 DEF Hooks, RewritesMatch
  <2>7. pending' \in SUBSET Path /\ active'.paths \in SUBSET Path
    BY <2>1, <2>2
  <2>8. CASE ConfigChanged(pending)
    <3>1. /\ Invalidate
          /\ task' = [started EXCEPT ![Loop].stage = "restart"]
          /\ calls' = Append(calls, [by |-> Loop, kind |-> "restart", paths |-> {}])
      BY <2>1, <2>8 DEF BeginBatch
    <3>2. [by |-> Loop, kind |-> "restart", paths |-> {}] \in CallType
      BY DEF CallType
    <3>3. calls' \in Seq(CallType)
      BY <1>1, <3>1, <3>2
    <3> HIDE DEF started
    <3>4. Good(task', epoch)
      BY <1>1, <2>5, <3>1, StageGood DEF TaskStage
    <3>5. Good(task', epoch + 1) /\ epoch' = epoch + 1 /\ ready' = NoResult
      BY <1>1, <3>1, <3>4, LaterGood DEF Invalidate
    <3> QED
      BY <1>1, <2>1, <2>6, <2>7, <3>3, <3>5
         DEF Rest, ReadyIsTrusted, ViteInv, TypeOK, RendersAreDated, Good, Hooks
  <2>9. CASE ~ConfigChanged(pending)
    <3>1. /\ Ask(Loop, "call", IF live THEN "files" ELSE "compile", pending, calls, started)
          /\ UNCHANGED <<epoch, ready>>
      BY <2>1, <2>9 DEF BeginBatch
    <3> HIDE DEF started
    <3>2. Good(task', epoch) /\ calls' \in Seq(CallType)
      <4>1. (IF live THEN "files" ELSE "compile") \in {"compile", "files"}
            /\ "call" \in TaskStage \ {"render"}
        BY DEF TaskStage
      <4> QED
        BY <1>1, <2>2, <2>5, <3>1, <4>1, AskGood
    <3> QED
      BY <1>1, <2>1, <2>6, <2>7, <3>1, <3>2
         DEF Rest, ReadyIsTrusted, ViteInv, TypeOK, RendersAreDated, Good, Hooks
  <2> QED
    BY <2>8, <2>9
<1>3. CASE EndBatch
  <2>1. /\ UNCHANGED <<disk, known, last, gens, ready, epoch, calls, pending>>
        /\ active' = NoBatch /\ task' = [task EXCEPT ![Loop] = Idle]
        /\ caller' = [c \in Caller |->
              IF c \in active.callers
              THEN [caller[c] EXCEPT !.stage = "resume", !.outcome = task[Loop].outcome]
              ELSE caller[c]]
    BY <1>3 DEF EndBatch, files, daemon
  <2>2. Good(task', epoch)
    <3>1. Idle.epoch <= epoch /\ Idle.stage # "render"
      BY <1>1 DEF Idle
    <3>2. Good([task EXCEPT ![Loop] = Idle], epoch)
      BY <1>1, <3>1, BegunGood
    <3> QED
      BY <2>1, <3>2
  <2>3. task[Loop].outcome \in Outcome
    BY <1>1 DEF Good, TaskType
  <2>4. ASSUME NEW c \in Caller
        PROVE  /\ caller'[c] \in CallerType
               /\ caller'[c].stage = "rewritten" => caller'[c] = caller[c]
    <3>1. caller[c] \in CallerType
      BY <1>1 DEF Hooks
    <3> QED
      BY <2>1, <2>3, <3>1 DEF CallerType, CallerStage
  <2>5. caller' \in [Caller -> CallerType]
    BY <2>1, <2>4
  <2>6. Hooks'
    BY <1>1, <2>4, <2>5 DEF Hooks, RewritesMatch
  <2>7. active'.paths = {}
    BY <2>1 DEF NoBatch
  <2> QED
    BY <1>1, <2>1, <2>2, <2>6, <2>7
       DEF Rest, ReadyIsTrusted, ViteInv, TypeOK, RendersAreDated, Good, Hooks
<1> QED
  BY <1>2, <1>3

\* Steps of the editor and the watcher.
LEMMA WatcherStep ==
  ASSUME ViteInv, NEW p \in Path,
         ConfigureServer \/ WatchEvent(p) \/ \E c \in Content : Edit(p, c)
  PROVE  ViteInv'
<1>1. Rest /\ Hooks /\ calls \in Seq(CallType) /\ Good(task, epoch) /\ ReadyIsTrusted /\ epoch \in Nat
  BY InvParts DEF Rest
<1>2. /\ UNCHANGED <<known, last, gens, ready, epoch, calls, task, caller, active>>
      /\ pending' \in SUBSET Path
  BY <1>1 DEF ConfigureServer, WatchEvent, Edit, daemon, batch, Rest
<1>3. disk' \in Contents
  BY <1>1 DEF ConfigureServer, WatchEvent, Edit, Rest, Contents
<1> QED
  BY <1>1, <1>2, <1>3
     DEF Rest, ReadyIsTrusted, ViteInv, TypeOK, RendersAreDated, Good, Hooks, RewritesMatch

\* One hook goes on; if it rewrites, then with what matches.
LEMMA HookGoesOn ==
  ASSUME Hooks, NEW c \in Caller, NEW x \in CallerType, caller' = [caller EXCEPT ![c] = x],
         x.stage = "rewritten" => x.hash = x.code /\ x.callsites = x.modules
  PROVE  Hooks'
<1>1. caller' \in [Caller -> CallerType]
  BY DEF Hooks
<1>2. \A b \in Caller : caller'[b] = IF b = c THEN x ELSE caller[b]
  BY DEF Hooks
<1> QED
  BY <1>1, <1>2 DEF Hooks, RewritesMatch

\* Steps of handleHotUpdate and transform.
LEMMA HookStep ==
  ASSUME ViteInv, NEW c \in Caller,
         \/ CallerStep(c)
         \/ \E p \in Path : HotUpdate(p, c)
         \/ \E h \in Host : \E code \in Content \ {Plain, Bad} : Transform(c, h, code)
  PROVE  ViteInv'
<1> USE Constants
<1>1. Rest /\ Hooks /\ calls \in Seq(CallType) /\ Good(task, epoch) /\ ReadyIsTrusted
      /\ epoch \in Nat /\ caller[c] \in CallerType
  BY InvParts DEF Rest, Hooks
<1>2. ASSUME UNCHANGED <<disk, known, last, gens, ready, epoch, calls, task>>,
             pending' \in SUBSET Path, active'.paths \in SUBSET Path, Hooks'
      PROVE  ViteInv'
  BY <1>1, <1>2 DEF Rest, ReadyIsTrusted, ViteInv, TypeOK, RendersAreDated, Good, Hooks
<1>3. ASSUME NEW p \in Path, HotUpdate(p, c) PROVE ViteInv'
  <2> DEFINE x == [caller[c] EXCEPT !.stage = "batch", !.kind = "hot", !.path = p]
  <2>1. x \in CallerType /\ x.stage = "batch"
    BY <1>1 DEF CallerType, CallerStage
  <2>2. caller' = [caller EXCEPT ![c] = x]
    BY <1>3 DEF HotUpdate
  <2> HIDE DEF x
  <2>3. Hooks'
    BY <1>1, <2>1, <2>2, HookGoesOn
  <2>4. active'.paths \in SUBSET Path
    <3>1. CASE active' = active
      BY <1>1, <3>1 DEF Rest
    <3>2. CASE active' = [active EXCEPT !.callers = active.callers \cup {c}]
      BY <1>1, <3>2 DEF Rest
    <3> QED
      BY <1>3, <3>1, <3>2 DEF HotUpdate
  <2>5. pending' \in SUBSET Path
    BY <1>1, <1>3 DEF HotUpdate, Rest
  <2>6. UNCHANGED <<disk, known, last, gens, ready, epoch, calls, task>>
    BY <1>3 DEF HotUpdate, daemon
  <2> QED
    BY <1>2, <2>3, <2>4, <2>5, <2>6
<1>4. CASE EndHotUpdate(c)
  <2> DEFINE x == [caller[c] EXCEPT !.stage = "answered"]
  <2>1. x \in CallerType /\ x.stage = "answered"
    BY <1>1 DEF CallerType, CallerStage
  <2>2. caller' = [caller EXCEPT ![c] = x]
    BY <1>4 DEF EndHotUpdate
  <2> HIDE DEF x
  <2>3. Hooks'
    BY <1>1, <2>1, <2>2, HookGoesOn
  <2> QED
    BY <1>1, <1>2, <1>4, <2>3 DEF EndHotUpdate, files, daemon, batch, Rest
<1>5. ASSUME NEW h \in Host, NEW code \in Content \ {Plain, Bad}, Transform(c, h, code)
      PROVE  ViteInv'
  <2>1. PICK i \in Initial :
          /\ \/ initial = i /\ UNCHANGED <<initial, overlap, task, calls, error>>
             \/ BeginInitial(i)
          /\ caller' = [caller EXCEPT ![c] = [caller[c] EXCEPT
                !.stage = "initial", !.kind = "transform", !.path = h, !.code = code, !.on = i]]
    BY <1>5 DEF Transform
  <2> DEFINE x == [caller[c] EXCEPT
                !.stage = "initial", !.kind = "transform", !.path = h, !.code = code, !.on = i]
  <2>2. x \in CallerType /\ x.stage = "initial"
    BY <1>1 DEF CallerType, CallerStage
  <2>3. caller' = [caller EXCEPT ![c] = x]
    BY <2>1
  <2> HIDE DEF x
  <2>4. Hooks'
    BY <1>1, <2>2, <2>3, HookGoesOn
  <2>5. Good(task', epoch) /\ calls' \in Seq(CallType)
    <3>1. CASE UNCHANGED <<initial, overlap, task, calls, error>>
      BY <1>1, <3>1
    <3>2. CASE BeginInitial(i)
      <4> DEFINE y == [Idle EXCEPT !.epoch = epoch]
      <4>1. y \in TaskType /\ y.epoch <= epoch /\ y.stage # "render"
        BY <1>1 DEF TaskType, Idle
      <4>2. Ask(i, "call", "compile", {}, calls, [task EXCEPT ![i] = y])
        BY <3>2 DEF BeginInitial
      <4> HIDE DEF y
      <4>3. Good([task EXCEPT ![i] = y], epoch)
        BY <1>1, <4>1, BegunGood
      <4>4. "call" \in TaskStage \ {"render"} /\ {} \in SUBSET Path
        BY DEF TaskStage
      <4> QED
        BY <1>1, <4>2, <4>3, <4>4, AskGood
    <3> QED
      BY <2>1, <3>1, <3>2
  <2>6. UNCHANGED <<disk, known, last, gens, ready, epoch, pending, active>>
    BY <1>5 DEF Transform, files, daemon, batch
  <2> QED
    BY <1>1, <2>4, <2>5, <2>6
       DEF Rest, ReadyIsTrusted, ViteInv, TypeOK, RendersAreDated, Good, Hooks
<1>6. ready \in Result /\ ready.gen \in Nat /\ ready.of \in Contents
      /\ \A p \in Path : ready.of[p] \in Content
  BY <1>1 DEF Rest, Result, Contents
<1>7. ASSUME NEW s \in CallerStage \ {"rewritten"}, Return(c, s) PROVE Hooks'
  <2> DEFINE x == [caller[c] EXCEPT !.stage = s]
  <2>1. x \in CallerType /\ x.stage = s
    BY <1>1 DEF CallerType
  <2>2. caller' = [caller EXCEPT ![c] = x]
    BY <1>7 DEF Return
  <2> HIDE DEF x
  <2> QED
    BY <1>1, <2>1, <2>2, HookGoesOn
<1>8. ASSUME Rewrite(c, ready.gen), ready.of[caller[c].path] = caller[c].code PROVE Hooks'
  <2> DEFINE x == [caller[c] EXCEPT !.stage = "rewritten", !.hash = ready.of[caller[c].path],
                                    !.callsites = ready.gen, !.modules = ready.gen]
  <2>1. caller[c].path \in Path
    BY <1>1 DEF CallerType
  <2>2. x \in CallerType /\ x.hash = x.code /\ x.callsites = x.modules
    BY <1>1, <1>6, <1>8, <2>1 DEF CallerType, CallerStage
  <2>3. caller' = [caller EXCEPT ![c] = x]
    BY <1>8 DEF Rewrite
  <2> HIDE DEF x
  <2> QED
    BY <1>1, <2>2, <2>3, HookGoesOn
<1>9. CASE Lookup(c)
  <2>1. UNCHANGED <<disk, known, last, gens, ready, epoch, calls, task>>
    BY <1>9 DEF Lookup, files, daemon
  <2>2. CASE ready = NoResult \/ ready.of[caller[c].path] = Plain
    <3>1. Return(c, "raw") /\ UNCHANGED <<pending, active>>
      BY <1>9, <2>2 DEF Lookup, batch
    <3>2. Hooks'
      BY <1>7, <3>1 DEF CallerStage
    <3> QED
      BY <1>1, <1>2, <2>1, <3>1, <3>2 DEF Rest
  <2>3. CASE ~(ready = NoResult \/ ready.of[caller[c].path] = Plain)
             /\ ready.of[caller[c].path] = caller[c].code
    <3>1. Rewrite(c, ready.gen) /\ UNCHANGED <<pending, active>>
      BY <1>9, <2>3 DEF Lookup, batch
    <3>2. Hooks'
      BY <1>8, <2>3, <3>1
    <3> QED
      BY <1>1, <1>2, <2>1, <3>1, <3>2 DEF Rest
  <2>4. CASE ~(ready = NoResult \/ ready.of[caller[c].path] = Plain)
             /\ ready.of[caller[c].path] # caller[c].code
    <3> DEFINE x == [caller[c] EXCEPT !.stage = "batch", !.modules = ready.gen]
    <3>1. /\ caller' = [caller EXCEPT ![c].stage = "batch", ![c].modules = ready.gen]
          /\ pending' = pending \cup {caller[c].path} /\ UNCHANGED active
      BY <1>9, <2>4 DEF Lookup
    <3>2. x \in CallerType /\ x.stage = "batch"
      BY <1>1, <1>6 DEF CallerType, CallerStage
    <3>3. caller' = [caller EXCEPT ![c] = x]
      BY <1>1, <3>1 DEF Hooks
    <3> HIDE DEF x
    <3>4. Hooks'
      BY <1>1, <3>2, <3>3, HookGoesOn
    <3>5. caller[c].path \in Path
      BY <1>1 DEF CallerType
    <3> QED
      BY <1>1, <1>2, <2>1, <3>1, <3>4, <3>5 DEF Rest
  <2> QED
    BY <2>2, <2>3, <2>4
<1>10. CASE Retry(c)
  <2>1. UNCHANGED <<disk, known, last, gens, ready, epoch, calls, task, pending, active>>
    BY <1>10 DEF Retry, files, daemon, batch
  <2>2. ASSUME Return(c, "thrown") \/ Return(c, "raw") PROVE Hooks'
    BY <1>7, <2>2 DEF CallerStage
  <2>3. ASSUME ready.of[caller[c].path] = caller[c].code, Rewrite(c, FreshModules(c)) PROVE Hooks'
    BY <1>8, <2>3 DEF FreshModules
  <2>4. Hooks'
    BY <1>10, <2>2, <2>3 DEF Retry
  <2> QED
    BY <1>1, <1>2, <2>1, <2>4 DEF Rest
<1> QED
  BY <1>3, <1>4, <1>5, <1>9, <1>10 DEF CallerStep

-----------------------------------------------------------------------------
(* What the daemon has, and what of it is active *)

\* One compile at a time, and no change before the watcher was there.
Serial == ~overlap /\ ~unseen

\* The loop has a task exactly while it compiles, and ends with nothing pending.
LoopWorks ==
    /\ loop = "compiling" <=> task[Loop].stage # "idle"
    /\ loop = "off" => pending = {}

\* The last result is of what the daemon has; a daemon that is gone has nothing.
LastIsKnown ==
    /\ ~live => known = Nothing /\ last = NoResult
    /\ last # NoResult => last.of = known /\ known # Nothing /\ last.gen <= gens

Requests(t) == task[t].stage \in {"restart", "call", "refresh"}

Restarting == calls # <<>> /\ calls[1].kind = "restart"

\* A compile in progress is the only one, and so is its request.  While the daemon
\* restarts nothing is active.
OneAtATime ==
    /\ \A s, t \in Task : Running(s) /\ Running(t) => s = t
    /\ calls # <<>> => Len(calls) = 1 /\ Requests(calls[1].by)
    /\ closing => Restarting
    /\ Restarting => ready = NoResult /\ calls[1].by = Loop

\* What differs from the disk will be read again, or was in a batch that was refused.
KnownFollows ==
    known # Nothing /\ ~Restarting =>
        \A p \in Path : \/ known[p] = disk[p] \/ p \in events \/ p \in pending
                        \/ calls # <<>> /\ p \in calls[1].paths
                        \/ p \in missed

Same(r, q) == r.gen = q.gen /\ r.of = q.of

\* What is active is the daemon's last result, or the task in progress will replace it
\* or display an error.
ReadyIsLast ==
    /\ ready.gen <= gens
    /\ ready # NoResult /\ last # NoResult /\ ready.gen = last.gen => ready.of = last.of
    /\ ready # NoResult /\ ~error =>
         /\ last # NoResult
         /\ Same(ready, last) \/ \E t \in Task : task[t].stage \in {"refresh", "render"}

\* What is rendered, and will be swapped in, is the daemon's last result.
RenderIsLast ==
    \A t \in Task :
        task[t].stage = "render" /\ EpochHolds(t) => last # NoResult /\ Same(task[t].result, last)

Follows ==
    LoopWorks /\ LastIsKnown /\ OneAtATime /\ KnownFollows /\ ReadyIsLast /\ RenderIsLast
FollowsDisk == Serial => Follows

\* Where nothing was done yet, there is nothing to follow.
LEMMA FollowsInitially == Init => FollowsDisk
<1> SUFFICES ASSUME Init PROVE Follows
  BY DEF FollowsDisk
<1> USE ViteAssumption, Constants
<1>1. PICK i \in Initial :
        /\ calls = <<[by |-> i, kind |-> "compile", paths |-> {}]>>
        /\ task = [t \in Task |-> IF t = i THEN [Idle EXCEPT !.stage = "call"] ELSE Idle]
  BY DEF Init
<1>2. \A t \in Task : task[t].stage = IF t = i THEN "call" ELSE "idle"
  BY <1>1 DEF Idle
<1>3. Len(calls) = 1 /\ calls[1].by = i /\ calls[1].kind = "compile" /\ i # Loop
  BY <1>1
<1>4. LoopWorks /\ LastIsKnown
  BY <1>2, <1>3 DEF Init, LoopWorks, LastIsKnown
<1>5. OneAtATime
  BY <1>2, <1>3 DEF Init, OneAtATime, Running, Requests, Restarting
<1>6. KnownFollows
  BY DEF Init, KnownFollows
<1>7. ReadyIsLast
  BY DEF Init, ReadyIsLast, NoResult
<1>8. RenderIsLast
  BY <1>2 DEF RenderIsLast
<1> QED
  BY <1>4, <1>5, <1>6, <1>7, <1>8 DEF Follows

\* A step that leaves compiles and the daemon alone, and forgets no change.
LEMMA OthersFollow ==
  ASSUME Follows, LoopWorks',
         UNCHANGED <<live, known, last, gens, missed, calls, closing, ready, epoch, error, task>>,
         \A p \in Path : known[p] = disk[p] \/ p \in events \/ p \in pending =>
            known[p] = disk'[p] \/ p \in events' \/ p \in pending'
  PROVE  Follows'
<1>1. LastIsKnown' /\ OneAtATime'
  BY DEF Follows, LastIsKnown, OneAtATime, Running, Requests, Restarting
<1>2. KnownFollows'
  BY DEF Follows, KnownFollows, Restarting
<1>3. ReadyIsLast' /\ RenderIsLast'
  BY DEF Follows, ReadyIsLast, RenderIsLast, Same, EpochHolds
<1> QED
  BY <1>1, <1>2, <1>3 DEF Follows

\* Steps of the editor and the watcher.
LEMMA WatcherFollows ==
  ASSUME ViteInv, Follows, Serial', NEW p \in Path,
         ConfigureServer \/ WatchEvent(p) \/ \E c \in Content : Edit(p, c)
  PROVE  Follows'
<1>1. UNCHANGED <<live, known, last, gens, missed, calls, closing, ready, epoch, error, task>>
  BY DEF ConfigureServer, WatchEvent, Edit, daemon
<1>2. disk \in Contents /\ known \in Contents
  BY DEF ViteInv, TypeOK
<1>3. CASE ConfigureServer
  <2>1. UNCHANGED <<disk, events, pending, loop>>
    BY <1>3 DEF ConfigureServer, batch
  <2>2. LoopWorks'
    BY <1>1, <2>1 DEF Follows, LoopWorks
  <2> QED
    BY <1>1, <2>1, <2>2, OthersFollow
<1>4. CASE WatchEvent(p)
  <2>1. /\ events' = events \ {p} /\ disk' = disk
        /\ \/ pending' = pending \cup {p} /\ StartLoop
           \/ p \in pending /\ UNCHANGED <<pending, loop>>
    BY <1>4 DEF WatchEvent, NeedsDelivery
  <2>2. LoopWorks'
    BY <1>1, <2>1 DEF Follows, LoopWorks, StartLoop
  <2>3. p \in pending' /\ pending \subseteq pending'
    BY <2>1
  <2>4. \A q \in Path : known[q] = disk[q] \/ q \in events \/ q \in pending =>
            known[q] = disk'[q] \/ q \in events' \/ q \in pending'
    BY <2>1, <2>3
  <2> QED
    BY <1>1, <2>2, <2>4, OthersFollow
<1>5. ASSUME NEW c \in Content, Edit(p, c) PROVE Follows'
  <2>1. disk' = [disk EXCEPT ![p] = c] /\ events' = events \cup {p} /\ UNCHANGED <<pending, loop>>
    BY <1>5 DEF Edit, Serial, batch
  <2>2. LoopWorks'
    BY <1>1, <2>1 DEF Follows, LoopWorks
  <2>3. \A q \in Path : q = p \/ disk'[q] = disk[q]
    BY <1>2, <2>1 DEF Contents
  <2>4. \A q \in Path : known[q] = disk[q] \/ q \in events \/ q \in pending =>
            known[q] = disk'[q] \/ q \in events' \/ q \in pending'
    BY <2>1, <2>3
  <2> QED
    BY <1>1, <2>2, <2>4, OthersFollow
<1> QED
  BY <1>3, <1>4, <1>5

\* Steps of handleHotUpdate and transform that start no compile.
LEMMA HookFollows ==
  ASSUME ViteInv, Follows, NEW c \in Caller, CallerStep(c) \/ \E p \in Path : HotUpdate(p, c)
  PROVE  Follows'
<1>1. UNCHANGED <<disk, live, known, last, gens, missed, calls, closing, ready, epoch, error, task>>
  BY DEF CallerStep, Lookup, Retry, EndHotUpdate, HotUpdate, files, daemon
<1>2. /\ \A p \in Path : p \in events => p \in events' \/ p \in pending'
      /\ pending \subseteq pending'
      /\ StartLoop \/ UNCHANGED <<pending, loop>>
  <2>1. CASE \E p \in Path : HotUpdate(p, c)
    BY <2>1 DEF HotUpdate
  <2>2. CASE Lookup(c)
    BY <2>2 DEF Lookup, files, batch
  <2>3. CASE Retry(c) \/ EndHotUpdate(c)
    BY <2>3 DEF Retry, EndHotUpdate, files, batch
  <2> QED
    BY <2>1, <2>2, <2>3 DEF CallerStep
<1>3. LoopWorks'
  BY <1>1, <1>2 DEF Follows, LoopWorks, StartLoop
<1> QED
  BY <1>1, <1>2, <1>3, OthersFollow

\* A task asks when nobody else does: it has the one request, or is over with an error.
LEMMA AskDoes ==
  ASSUME NEW tasks \in [Task -> TaskType], NEW t \in Task, NEW s, NEW kind, NEW paths,
         Ask(t, s, kind, paths, <<>>, tasks)
  PROVE  /\ \A u \in Task \ {t} : task'[u] = tasks[u]
         /\ task'[t].epoch = tasks[t].epoch /\ task'[t].result = tasks[t].result
         /\ \/ closing /\ error' /\ calls' = <<>> /\ task'[t].stage = "done"
            \/ /\ ~closing /\ error' = error /\ task'[t].stage = s
               /\ Len(calls') = 1 /\ calls'[1] = [by |-> t, kind |-> kind, paths |-> paths]
<1>1. tasks[t] \in TaskType
  OBVIOUS
<1>2. CASE closing
  <2>1. task' = [tasks EXCEPT ![t].stage = "done", ![t].outcome = Failed] /\ error' /\ calls' = <<>>
    BY <1>2 DEF Ask
  <2> QED
    BY <1>1, <1>2, <2>1 DEF TaskType
<1>3. CASE ~closing
  <2>1. /\ task' = [tasks EXCEPT ![t].stage = s] /\ UNCHANGED error
        /\ calls' = Append(<<>>, [by |-> t, kind |-> kind, paths |-> paths])
    BY <1>3 DEF Ask
  <2>2. Len(calls') = 1 /\ calls'[1] = [by |-> t, kind |-> kind, paths |-> paths]
    BY <2>1
  <2> QED
    BY <1>1, <1>3, <2>1, <2>2 DEF TaskType
<1> QED
  BY <1>2, <1>3

LEMMA CatchDoes ==
  ASSUME task \in [Task -> TaskType], NEW t \in Task, CatchError(t)
  PROVE  /\ \A u \in Task \ {t} : task'[u] = task[u]
         /\ task'[t].stage = "done" /\ error'
  BY DEF CatchError, Fail, TaskType

\* What an answer makes of the task that asked, when it is the only one: an error, the
\* news that nothing changed, or a result that is rendered now or after a refresh.
LEMMA AnswerDoes ==
  ASSUME ViteInv, OneAtATime, calls # <<>>, NEW r \in Result, Answer(r)
  PROVE  LET t == calls[1].by IN
         /\ t \in Task /\ \A u \in Task \ {t} : task'[u] = task[u]
         /\ \/ calls' = <<>> /\ task'[t].stage = "done" /\ error'
            \/ /\ task[t].stage = "call" /\ calls' = <<>> /\ task'[t].stage = "done"
               /\ r # NoResult /\ ~r.changed /\ ready # NoResult
               /\ error' = (error /\ ~Recovers(r))
            \/ /\ r # NoResult /\ error' = error /\ task'[t].result = r
               /\ \/ calls' = <<>> /\ task'[t].stage = "render"
                  \/ /\ Len(calls') = 1 /\ calls'[1].by = t /\ calls'[1].kind = "files"
                     /\ ~closing /\ task'[t].stage = "refresh"
<1> DEFINE t == calls[1].by
<1>1. /\ calls \in Seq(CallType) /\ task \in [Task -> TaskType] /\ Len(calls) = 1
      /\ Head(calls) = calls[1] /\ Tail(calls) = <<>> /\ calls[1] \in CallType
  <2>1. calls \in Seq(CallType) /\ task \in [Task -> TaskType] /\ Len(calls) = 1
    BY DEF ViteInv, TypeOK, OneAtATime
  <2>2. Head(calls) = calls[1] /\ calls[1] \in CallType
    BY <2>1
  <2>3. Tail(calls) \in Seq(CallType) /\ Len(Tail(calls)) = 0
    BY <2>1
  <2> QED
    BY <2>1, <2>2, <2>3, EmptySeq
<1>2. t \in Task /\ Head(calls).by = t
  BY <1>1 DEF CallType
<1> HIDE DEF t
<1>3. CASE r = NoResult
  <2>1. CatchError(t) /\ calls' = <<>>
    BY <1>1, <1>2, <1>3 DEF Answer
  <2> QED
    BY <1>1, <1>2, <2>1, CatchDoes DEF t
<1>4. CASE r # NoResult
  <2>1. AfterAnswer(t, r, <<>>)
    BY <1>1, <1>2, <1>4 DEF Answer
  <2>2. CASE task[t].stage = "call" /\ ~r.changed /\ ready # NoResult
    <3>1. /\ task' = [task EXCEPT ![t].stage = "done", ![t].outcome = "unchanged"]
          /\ error' = (error /\ ~Recovers(r)) /\ calls' = <<>>
      BY <2>1, <2>2 DEF AfterAnswer
    <3>2. task'[t].stage = "done" /\ \A u \in Task \ {t} : task'[u] = task[u]
      BY <1>1, <1>2, <3>1 DEF TaskType
    <3> QED
      BY <1>2, <1>4, <2>2, <3>1, <3>2 DEF t
  <2>3. CASE Prepare(t, r, <<>>)
    <3> DEFINE holding == [task EXCEPT ![t].result = r]
    <3>1. /\ holding \in [Task -> TaskType] /\ holding[t].result = r
          /\ \A u \in Task \ {t} : holding[u] = task[u]
      BY <1>1, <1>2 DEF TaskType
    <3>2. CASE Mismatches(r) = {}
      <4>1. task' = [holding EXCEPT ![t].stage = "render"] /\ calls' = <<>> /\ error' = error
        BY <2>3, <3>2 DEF Prepare
      <4> HIDE DEF holding
      <4>2. /\ task'[t].stage = "render" /\ task'[t].result = r
            /\ \A u \in Task \ {t} : task'[u] = task[u]
        BY <1>2, <3>1, <4>1 DEF TaskType
      <4> QED
        BY <1>2, <1>4, <4>1, <4>2 DEF t
    <3>3. CASE Mismatches(r) # {} /\ task[t].stage = "refresh"
      <4>1. CatchError(t) /\ calls' = <<>>
        BY <2>3, <3>3 DEF Prepare
      <4> QED
        BY <1>1, <1>2, <4>1, CatchDoes DEF t
    <3>4. CASE Mismatches(r) # {} /\ task[t].stage # "refresh"
      <4>1. Ask(t, "refresh", "files", Mismatches(r), <<>>, holding)
        BY <2>3, <3>4 DEF Prepare
      <4> HIDE DEF holding
      <4>2. /\ \A u \in Task \ {t} : task'[u] = task[u]
            /\ task'[t].result = r
            /\ \/ error' /\ calls' = <<>> /\ task'[t].stage = "done"
               \/ /\ ~closing /\ error' = error /\ task'[t].stage = "refresh"
                  /\ Len(calls') = 1 /\ calls'[1].by = t /\ calls'[1].kind = "files"
        <5>1. /\ \A u \in Task \ {t} : task'[u] = holding[u]
              /\ task'[t].result = holding[t].result
              /\ \/ error' /\ calls' = <<>> /\ task'[t].stage = "done"
                 \/ /\ ~closing /\ error' = error /\ task'[t].stage = "refresh" /\ Len(calls') = 1
                    /\ calls'[1] = [by |-> t, kind |-> "files", paths |-> Mismatches(r)]
          BY <1>2, <3>1, <4>1, AskDoes
        <5> QED
          BY <3>1, <5>1
      <4> QED
        BY <1>2, <1>4, <4>2 DEF t
    <3> QED
      BY <3>2, <3>3, <3>4
  <2> QED
    BY <2>1, <2>2, <2>3 DEF AfterAnswer
<1> QED
  BY <1>3, <1>4

\* The daemon has read what the request named, or everything, or has refused, and answers
\* with its last result or an error.
LEMMA AnswerFollows ==
  ASSUME ViteInv, Follows, calls # <<>>, ~Restarting, NEW r \in Result, Answer(r),
         UNCHANGED <<disk, events, pending, loop, live, closing, ready, epoch>>, live,
         known' = Nothing \/ \A p \in Path :
            \/ known'[p] = disk[p] \/ p \in missed'
            \/ known # Nothing /\ known'[p] = known[p] /\ p \notin calls[1].paths \cup missed,
         last' # NoResult => last'.of = known' /\ known' # Nothing /\ last'.gen <= gens',
         r # NoResult => last' # NoResult /\ Same(r, last'),
         \/ UNCHANGED <<last, gens>>
         \/ gens' \in Nat /\ gens' > gens /\ last'.gen = gens' /\ r.changed
         \/ UNCHANGED gens /\ last' = NoResult /\ r = NoResult
  PROVE  Follows'
<1> DEFINE t == calls[1].by
<1>1. /\ t \in Task /\ \A u \in Task \ {t} : task'[u] = task[u]
      /\ \/ calls' = <<>> /\ task'[t].stage = "done" /\ error'
         \/ /\ task[t].stage = "call" /\ calls' = <<>> /\ task'[t].stage = "done"
            /\ r # NoResult /\ ~r.changed /\ ready # NoResult
            /\ error' = (error /\ ~Recovers(r))
         \/ /\ r # NoResult /\ error' = error /\ task'[t].result = r
            /\ \/ calls' = <<>> /\ task'[t].stage = "render"
               \/ /\ Len(calls') = 1 /\ calls'[1].by = t /\ calls'[1].kind = "files"
                  /\ ~closing /\ task'[t].stage = "refresh"
  BY AnswerDoes DEF Follows
<1>2. /\ Requests(t) /\ (\A u \in Task \ {t} : ~Running(u)) /\ ~closing
  BY <1>1 DEF Follows, OneAtATime, Running, Requests
<1>3. /\ ready \in Result /\ last \in Result /\ gens \in Nat /\ known \in Contents
  BY DEF ViteInv, TypeOK
<1> HIDE DEF t
<1>4. LoopWorks'
  <2>1. task[Loop].stage = "idle" <=> task'[Loop].stage = "idle"
    <3>1. CASE t = Loop
      BY <1>1, <1>2, <3>1 DEF Requests
    <3>2. CASE t # Loop
      BY <1>1, <3>2, Constants
    <3> QED
      BY <3>1, <3>2
  <2> QED
    BY <2>1 DEF Follows, LoopWorks
<1>5. LastIsKnown'
  BY DEF LastIsKnown
<1>6. OneAtATime'
  <2>1. \A u \in Task : Running(u)' => u = t
    BY <1>1, <1>2 DEF Running
  <2>2. calls' # <<>> => Len(calls') = 1 /\ calls'[1].by = t /\ task'[t].stage = "refresh"
                         /\ calls'[1].kind = "files"
    BY <1>1
  <2> QED
    BY <1>2, <2>1, <2>2 DEF OneAtATime, Requests, Restarting
<1>7. KnownFollows'
  <2> SUFFICES ASSUME known' # Nothing, NEW p \in Path
               PROVE  known'[p] = disk[p] \/ p \in events \/ p \in pending \/ p \in missed'
    BY DEF KnownFollows
  <2> QED
    BY DEF Follows, KnownFollows
<1>8. ready.gen <= gens /\ (ready # NoResult /\ last # NoResult /\ ready.gen = last.gen => ready.of = last.of)
      /\ (ready # NoResult /\ ~error =>
            /\ last # NoResult
            /\ Same(ready, last) \/ \E u \in Task : task[u].stage \in {"refresh", "render"})
  BY DEF Follows, ReadyIsLast
<1>9. ready.gen <= gens'
      /\ (ready # NoResult /\ last' # NoResult /\ ready.gen = last'.gen => ready.of = last'.of)
  <2>1. ready.gen \in Nat
    BY <1>3 DEF Result
  <2> QED
    BY <1>3, <1>8, <2>1
<1>10. ASSUME ready # NoResult, ~error'
       PROVE  /\ last' # NoResult
              /\ Same(ready, last') \/ \E u \in Task : task'[u].stage \in {"refresh", "render"}
  <2>1. CASE r # NoResult /\ task'[t].stage \in {"refresh", "render"}
    BY <1>1, <2>1
  <2>2. CASE /\ task[t].stage = "call" /\ r # NoResult /\ ~r.changed
             /\ error' = (error /\ ~Recovers(r))
    <3>1. last' = last /\ last # NoResult /\ Same(r, last)
      BY <2>2
    <3>2. CASE ~error
      <4>1. \A u \in Task : task[u].stage \notin {"refresh", "render"}
        BY <1>2, <2>2 DEF Running
      <4> QED
        BY <1>8, <1>10, <3>1, <3>2, <4>1
    <3>3. CASE Recovers(r)
      BY <1>8, <1>10, <3>1, <3>3 DEF Recovers, Same
    <3> QED
      BY <1>10, <2>2, <3>2, <3>3
  <2> QED
    BY <1>1, <1>10, <2>1, <2>2
<1>11. ReadyIsLast'
  BY <1>9, <1>10 DEF ReadyIsLast, Same
<1>12. RenderIsLast'
  <2> SUFFICES ASSUME NEW u \in Task, task'[u].stage = "render"
               PROVE  last' # NoResult /\ Same(task'[u].result, last')
    BY DEF RenderIsLast, Same
  <2>1. u = t
    BY <1>1, <1>2 DEF Running
  <2> QED
    BY <1>1, <2>1
<1> QED
  BY <1>4, <1>5, <1>6, <1>7, <1>11, <1>12 DEF Follows

\* A request is served, fails after the files were read, or is refused.
LEMMA ServeFollows ==
  ASSUME ViteInv, Follows, Serve \/ ServeFails \/ Refuse
  PROVE  Follows'
<1>1. /\ calls # <<>> /\ live /\ Head(calls).kind # "restart"
      /\ UNCHANGED <<disk, events, pending, loop, live, closing, ready, epoch>>
  BY DEF Serve, ServeFails, Refuse, files, batch
<1>2. /\ calls \in Seq(CallType) /\ known \in Contents /\ disk \in Contents /\ last \in Result
      /\ gens \in Nat /\ epoch \in Nat /\ NoResult \in Result
  BY Constants DEF ViteInv, TypeOK
<1>3. Head(calls) = calls[1] /\ ~Restarting
  BY <1>1, <1>2 DEF Restarting
<1>4. ASSUME NoteRead
      PROVE  \A p \in Path :
                \/ Reread[p] = disk[p] \/ p \in missed'
                \/ known # Nothing /\ Reread[p] = known[p] /\ p \notin calls[1].paths \cup missed
  <2> SUFFICES ASSUME NEW p \in Path
               PROVE  \/ Reread[p] = disk[p] \/ p \in missed'
                      \/ known # Nothing /\ Reread[p] = known[p] /\ p \notin calls[1].paths \cup missed
    OBVIOUS
  <2>1. CASE FullReload
    <3>1. Reread = disk
      BY <2>1 DEF Reread
    <3> QED
      BY <3>1
  <2>2. CASE ~FullReload
    <3>1. /\ known # Nothing /\ missed' = missed \ calls[1].paths
          /\ Reread[p] = IF p \in calls[1].paths THEN disk[p] ELSE known[p]
      BY <1>3, <1>4, <2>2 DEF Reread, NoteRead, FullReload
    <3> QED
      BY <3>1
  <2> QED
    BY <2>1, <2>2
<1>5. last # NoResult => last.of = known /\ known # Nothing /\ last.gen <= gens
  BY DEF Follows, LastIsKnown
<1>6. CASE ServeFails
  <2>1. /\ known' = Nothing \/ known' = Reread
        /\ NoteRead /\ last' = NoResult /\ Answer(NoResult) /\ gens' = gens
    BY <1>6 DEF ServeFails
  <2> QED
    BY <1>1, <1>2, <1>3, <1>4, <2>1, AnswerFollows
<1>7. CASE Serve /\ ~FullReload /\ Reread = known
  <2> DEFINE q == [last EXCEPT !.changed = FALSE, !.born = epoch]
             r == IF last = NoResult THEN NoResult ELSE q
  <2>1. NoteRead /\ UNCHANGED <<known, last, gens>> /\ Answer(r)
    BY <1>7 DEF Serve
  <2>2. q \in Result /\ Same(q, last)
    BY <1>2 DEF Result, Same
  <2>3. r \in Result /\ (r # NoResult => last # NoResult /\ Same(r, last))
    BY <1>2, <2>2
  <2> HIDE DEF r
  <2>4. r # NoResult => last' # NoResult /\ Same(r, last')
    BY <2>1, <2>3
  <2>5. last' # NoResult => last'.of = known' /\ known' # Nothing /\ last'.gen <= gens'
    BY <1>5, <2>1
  <2> QED
    BY <1>1, <1>3, <1>4, <1>7, <2>1, <2>3, <2>4, <2>5, AnswerFollows
<1>8. CASE NoteRead /\ Compile(Reread) /\ Errors(Reread)
  <2>1. /\ known' = Nothing \/ known' = Reread
        /\ last' = NoResult /\ gens' = gens /\ Answer(NoResult)
    BY <1>8 DEF Compile
  <2> QED
    BY <1>1, <1>2, <1>3, <1>4, <1>8, <2>1, AnswerFollows
<1>9. CASE NoteRead /\ Compile(Reread) /\ ~Errors(Reread)
  <2> DEFINE r == [gen |-> gens + 1, of |-> Reread, changed |-> TRUE, born |-> epoch]
  <2>1. known' = Reread /\ gens' = gens + 1 /\ last' = r /\ Answer(r)
    BY <1>9 DEF Compile
  <2>2. r \in Result /\ r # NoResult /\ r.gen = gens + 1 /\ r.of = Reread /\ r.changed
    BY ResultTyped
  <2>3. Reread # Nothing
    BY <1>9, Constants DEF Errors, Nothing
  <2> HIDE DEF r
  <2>4. r # NoResult => last' # NoResult /\ Same(r, last')
    BY <2>1, <2>2 DEF Same
  <2>5. last' # NoResult => last'.of = known' /\ known' # Nothing /\ last'.gen <= gens'
    BY <1>2, <2>1, <2>2, <2>3
  <2>6. gens' \in Nat /\ gens' > gens /\ last'.gen = gens'
    BY <1>2, <2>1, <2>2
  <2> QED
    BY <1>1, <1>3, <1>4, <1>9, <2>1, <2>2, <2>4, <2>5, <2>6, AnswerFollows
<1>10. CASE Refuse
  <2>1. /\ UNCHANGED <<known, last, gens>> /\ Answer(NoResult) /\ known # Nothing
        /\ missed' = missed \cup calls[1].paths
    BY <1>3, <1>10 DEF Refuse, FullReload
  <2>2. \A p \in Path : p \in missed' \/ p \notin calls[1].paths \cup missed
    BY <2>1
  <2>3. last' # NoResult => last'.of = known' /\ known' # Nothing /\ last'.gen <= gens'
    BY <1>5, <2>1
  <2> QED
    BY <1>1, <1>2, <1>3, <2>1, <2>2, <2>3, AnswerFollows
<1> QED
  BY <1>6, <1>7, <1>8, <1>9, <1>10 DEF Serve

\* A session starts, dies or is ended for a restart: it knows nothing, and nothing is
\* active.
LEMMA SessionFollows ==
  ASSUME ViteInv, Follows, Initialize \/ Die \/ Restarted
  PROVE  Follows'
<1>1. /\ known' = Nothing /\ last' = NoResult
      /\ UNCHANGED <<disk, events, pending, loop, gens>>
  BY DEF Initialize, Die, Restarted, files, batch
<1>2. /\ calls \in Seq(CallType) /\ task \in [Task -> TaskType] /\ epoch \in Nat /\ gens \in Nat
      /\ ready \in Result /\ NoResult \in Result
      /\ \A t \in Task : task[t].epoch \in Nat /\ task[t].epoch <= epoch
  BY Constants DEF ViteInv, TypeOK, RendersAreDated, AreDated, Dated, TaskType
<1>3. /\ LoopWorks /\ LastIsKnown /\ OneAtATime /\ ReadyIsLast /\ RenderIsLast
  BY DEF Follows
<1>4. LastIsKnown' /\ KnownFollows'
  BY <1>1 DEF LastIsKnown, KnownFollows
<1>5. calls # <<>> => /\ Len(calls) = 1 /\ Head(calls) = calls[1] /\ Tail(calls) = <<>>
                      /\ calls[1].by \in Task /\ Requests(calls[1].by)
  <2> SUFFICES ASSUME calls # <<>>
               PROVE  /\ Len(calls) = 1 /\ Head(calls) = calls[1] /\ Tail(calls) = <<>>
                      /\ calls[1].by \in Task /\ Requests(calls[1].by)
    OBVIOUS
  <2>1. Len(calls) = 1 /\ Requests(calls[1].by)
    BY <1>3 DEF OneAtATime
  <2>2. Head(calls) = calls[1] /\ calls[1] \in CallType
    BY <1>2, <2>1
  <2>3. Tail(calls) \in Seq(CallType) /\ Len(Tail(calls)) = 0
    BY <1>2, <2>1
  <2> QED
    BY <2>1, <2>2, <2>3, EmptySeq DEF CallType
<1>6. calls # <<>> => \A t \in Task : task[t].stage # "render"
  BY <1>3, <1>5 DEF OneAtATime, Requests, Running
<1>7. CASE Initialize
  <2>1. UNCHANGED <<calls, closing, ready, epoch, error, task>> /\ ~live /\ calls # <<>>
    BY <1>7 DEF Initialize, batch
  <2>2. ~(ready # NoResult /\ ~error)
    BY <1>3, <2>1 DEF ReadyIsLast, LastIsKnown
  <2>3. ReadyIsLast' /\ RenderIsLast'
    BY <1>1, <1>3, <1>6, <2>1, <2>2 DEF ReadyIsLast, RenderIsLast
  <2>4. LoopWorks' /\ OneAtATime'
    BY <1>1, <1>3, <2>1 DEF LoopWorks, OneAtATime, Running, Requests, Restarting
  <2> QED
    BY <1>4, <2>3, <2>4 DEF Follows
<1>8. CASE Die /\ Restarting
  <2>1. UNCHANGED <<calls, closing, ready, epoch, error, task>> /\ ready = NoResult /\ calls # <<>>
    BY <1>3, <1>5, <1>8 DEF Die, Restarting, OneAtATime
  <2>2. ReadyIsLast' /\ RenderIsLast'
    BY <1>1, <1>3, <1>6, <2>1 DEF ReadyIsLast, RenderIsLast
  <2>3. LoopWorks' /\ OneAtATime'
    BY <1>1, <1>3, <2>1 DEF LoopWorks, OneAtATime, Running, Requests, Restarting
  <2> QED
    BY <1>4, <2>2, <2>3 DEF Follows
<1>9. CASE Die /\ ~Restarting
  <2>1. /\ epoch' = epoch + 1 /\ ready' = NoResult /\ closing' = closing
        /\ IF calls # <<>>
           THEN CatchError(Head(calls).by) /\ calls' = Tail(calls)
           ELSE UNCHANGED <<calls, task, error>>
    BY <1>5, <1>9 DEF Die, Restarting, Invalidate
  <2>2. /\ calls' = <<>>
        /\ \A t \in Task :
             \/ task'[t] = task[t]
             \/ task[t].stage \in {"restart", "call", "refresh"} /\ task'[t].stage = "done"
    <3>1. CASE calls # <<>>
      <4>1. CatchError(calls[1].by) /\ calls' = <<>>
        BY <1>5, <2>1, <3>1
      <4> QED
        BY <1>2, <1>5, <3>1, <4>1, CatchDoes DEF Requests
    <3>2. CASE calls = <<>>
      BY <2>1, <3>2
    <3> QED
      BY <3>1, <3>2
  <2>3. ReadyIsLast'
    <3>1. NoResult.gen = 0
      BY DEF NoResult
    <3> QED
      BY <1>1, <1>2, <2>1, <3>1 DEF ReadyIsLast
  <2>4. RenderIsLast'
    <3> SUFFICES ASSUME NEW t \in Task, task'[t].stage = "render", task'[t].epoch = epoch'
                 PROVE  FALSE
      BY DEF RenderIsLast, EpochHolds
    <3>1. task'[t] = task[t]
      BY <2>2
    <3> QED
      BY <1>2, <2>1, <3>1
  <2>5. LoopWorks'
    BY <1>1, <1>3, <2>2, Constants DEF LoopWorks
  <2>6. ~closing'
    BY <1>3, <1>9, <2>1 DEF OneAtATime
  <2>7. \A t \in Task : Running(t)' => Running(t)
    BY <2>2 DEF Running
  <2>8. OneAtATime'
    BY <1>3, <2>2, <2>6, <2>7 DEF OneAtATime, Restarting
  <2> QED
    BY <1>4, <2>3, <2>4, <2>5, <2>8 DEF Follows
<1>10. CASE Restarted
  <2>1. /\ Restarting /\ ready = NoResult /\ calls[1].by = Loop
        /\ UNCHANGED <<ready, epoch>> /\ ~closing'
        /\ task' = [task EXCEPT ![Loop].stage = "call", ![Loop].epoch = epoch]
        /\ calls' = Append(<<>>, [by |-> Loop, kind |-> "compile", paths |-> {}])
    BY <1>3, <1>5, <1>10 DEF Restarted, Restarting, OneAtATime
  <2>2. Len(calls') = 1 /\ calls'[1].by = Loop /\ calls'[1].kind = "compile"
    BY <2>1
  <2>3. task'[Loop].stage = "call" /\ \A t \in Task \ {Loop} : task'[t] = task[t]
    BY <1>2, <2>1, Constants DEF TaskType
  <2>4. \A t \in Task \ {Loop} : ~Running(t)
    BY <1>3, <1>5, <2>1, Constants DEF OneAtATime, Requests, Running, Restarting
  <2>5. LoopWorks'
    BY <1>1, <1>3, <1>5, <2>1, <2>3 DEF LoopWorks, Requests, Restarting
  <2>6. OneAtATime'
    <3>1. \A u \in Task : Running(u)' => u = Loop
      BY <2>3, <2>4 DEF Running
    <3>2. task'[calls'[1].by].stage = "call" /\ calls'[1].kind # "restart"
      BY <2>2, <2>3
    <3> QED
      BY <2>1, <2>2, <3>1, <3>2 DEF OneAtATime, Requests, Restarting
  <2>7. ReadyIsLast'
    BY <1>1, <1>3, <2>1 DEF ReadyIsLast
  <2>8. RenderIsLast'
    BY <2>3, <2>4 DEF RenderIsLast, Running
  <2> QED
    BY <1>4, <2>5, <2>6, <2>7, <2>8 DEF Follows
<1> QED
  BY <1>7, <1>8, <1>9, <1>10

\* Without a task that waits for the daemon, nothing is asked of it.
LEMMA NobodyAsks ==
  ASSUME ViteInv, Follows, \A u \in Task : ~Requests(u)
  PROVE  calls = <<>> /\ ~closing
<1>1. ASSUME calls # <<>> PROVE FALSE
  <2>1. Requests(calls[1].by) /\ Len(calls) = 1 /\ calls \in Seq(CallType)
    BY <1>1 DEF Follows, OneAtATime, ViteInv, TypeOK
  <2>2. calls[1] \in CallType
    BY <2>1
  <2> QED
    BY <2>1, <2>2 DEF CallType
<1> QED
  BY <1>1 DEF Follows, OneAtATime, Restarting

\* The renderer ends: the daemon's last result is active, or an error is displayed.
LEMMA RendererFollows ==
  ASSUME ViteInv, Follows, NEW t \in Task, EndRender(t) \/ RenderFails(t)
  PROVE  Follows'
<1>1. /\ UNCHANGED <<disk, events, pending, loop, live, known, last, gens, missed, calls, closing,
                 epoch>>
      /\ task[t].stage = "render"
  BY DEF EndRender, RenderFails, files, daemon, batch
<1>2. task \in [Task -> TaskType] /\ last \in Result /\ gens \in Nat
  BY DEF ViteInv, TypeOK
<1>3. /\ task'[t].stage = "done" /\ \A u \in Task \ {t} : task'[u] = task[u]
      /\ \/ error' /\ ready' = ready
         \/ EpochHolds(t) /\ ready' = task[t].result
  <2>1. CASE CatchError(t) /\ ready' = ready
    BY <1>2, <2>1, CatchDoes
  <2>2. CASE /\ EpochHolds(t) /\ ready' = task[t].result
             /\ task' = [task EXCEPT ![t].stage = "done", ![t].outcome = "success"]
    BY <1>2, <2>2 DEF TaskType
  <2> QED
    BY <2>1, <2>2 DEF EndRender, RenderFails
<1>4. (\A u \in Task \ {t} : ~Running(u)) /\ calls = <<>> /\ ~closing
  <2>1. \A u \in Task \ {t} : ~Running(u)
    BY <1>1 DEF Follows, OneAtATime, Running
  <2>2. \A u \in Task : ~Requests(u)
    BY <1>1, <2>1 DEF Requests, Running
  <2> QED
    BY <2>1, <2>2, NobodyAsks
<1>5. LastIsKnown' /\ KnownFollows'
  BY <1>1 DEF Follows, LastIsKnown, KnownFollows, Restarting
<1>6. LoopWorks'
  BY <1>1, <1>3, Constants DEF Follows, LoopWorks
<1>7. OneAtATime'
  BY <1>1, <1>3, <1>4 DEF OneAtATime, Running, Requests, Restarting
<1>8. RenderIsLast'
  BY <1>3, <1>4 DEF RenderIsLast, Running
<1>9. ReadyIsLast'
  <2>1. CASE error' /\ ready' = ready
    BY <1>1, <2>1 DEF Follows, ReadyIsLast
  <2>2. CASE EpochHolds(t) /\ ready' = task[t].result
    <3>1. last # NoResult /\ Same(ready', last)
      BY <1>1, <2>2 DEF Follows, RenderIsLast
    <3>2. last.gen <= gens
      BY <3>1 DEF Follows, LastIsKnown
    <3> QED
      BY <1>1, <3>1, <3>2 DEF ReadyIsLast, Same
  <2> QED
    BY <1>3, <2>1, <2>2
<1> QED
  BY <1>5, <1>6, <1>7, <1>8, <1>9 DEF Follows

\* A compile starts when there is no other: what was pending is in its request.
LEMMA StartFollows ==
  ASSUME ViteInv, Follows, \A u \in Task : ~Running(u),
         NEW t \in Task, NEW x \in TaskType, NEW kind \in {"compile", "files"}, NEW paths \in SUBSET Path,
         Ask(t, "call", kind, paths, calls, [task EXCEPT ![t] = x]),
         UNCHANGED <<disk, events, live, known, last, gens, missed, closing, ready, epoch>>,
         pending \subseteq pending' \cup paths, LoopWorks'
  PROVE  Follows'
<1>1. calls = <<>> /\ ~closing
  BY NobodyAsks DEF Requests, Running
<1>2. task \in [Task -> TaskType]
  BY DEF ViteInv, TypeOK
<1> DEFINE tasks == [task EXCEPT ![t] = x]
<1>3. tasks \in [Task -> TaskType] /\ \A u \in Task \ {t} : tasks[u] = task[u]
  BY <1>2
<1>4. Ask(t, "call", kind, paths, <<>>, tasks)
  BY <1>1
<1> HIDE DEF tasks
<1>5. /\ \A u \in Task \ {t} : task'[u] = task[u]
      /\ error' = error /\ task'[t].stage = "call"
      /\ Len(calls') = 1 /\ calls'[1] = [by |-> t, kind |-> kind, paths |-> paths]
  BY <1>1, <1>3, <1>4, AskDoes
<1>6. calls'[1].by = t /\ calls'[1].kind \in {"compile", "files"} /\ calls'[1].paths = paths
      /\ calls' # <<>>
  BY <1>5, EmptySeq
<1>7. LastIsKnown'
  BY DEF Follows, LastIsKnown
<1>8. OneAtATime'
  BY <1>1, <1>5, <1>6 DEF OneAtATime, Running, Requests, Restarting
<1>9. KnownFollows'
  BY <1>1, <1>6 DEF Follows, KnownFollows, Restarting
<1>10. ReadyIsLast'
  <2>1. \A u \in Task : task[u].stage \notin {"refresh", "render"}
    BY DEF Running
  <2> QED
    BY <1>5, <2>1 DEF Follows, ReadyIsLast
<1>11. RenderIsLast'
  BY <1>5 DEF RenderIsLast, Running
<1> QED
  BY <1>7, <1>8, <1>9, <1>10, <1>11 DEF Follows

\* transform awaits an initial compile, which may have to begin.
LEMMA TransformFollows ==
  ASSUME ViteInv, Follows, Serial', NEW c \in Caller, NEW h \in Host, NEW code, Transform(c, h, code)
  PROVE  Follows'
<1>1. PICK i \in Initial : UNCHANGED <<initial, overlap, task, calls, error>> \/ BeginInitial(i)
  BY DEF Transform
<1>2. UNCHANGED <<disk, events, live, known, last, gens, missed, closing, ready, epoch, pending, loop>>
  BY DEF Transform, files, daemon, batch
<1>3. CASE UNCHANGED <<initial, overlap, task, calls, error>>
  <2>1. LoopWorks'
    BY <1>2, <1>3 DEF Follows, LoopWorks
  <2> QED
    BY <1>2, <1>3, <2>1, OthersFollow
<1>4. CASE BeginInitial(i)
  <2> DEFINE x == [Idle EXCEPT !.epoch = epoch]
  <2>1. /\ \A u \in Task : ~Running(u)
        /\ Ask(i, "call", "compile", {}, calls, [task EXCEPT ![i] = x])
    BY <1>4 DEF BeginInitial, Serial
  <2>2. i \in Task /\ i # Loop /\ x \in TaskType /\ task \in [Task -> TaskType]
    BY Constants, ViteAssumption DEF ViteInv, TypeOK, TaskType
  <2> HIDE DEF x
  <2>3. task'[Loop] = task[Loop]
    BY <2>1, <2>2, Constants DEF Ask
  <2>4. LoopWorks'
    BY <1>2, <2>3 DEF Follows, LoopWorks
  <2>5. {} \in SUBSET Path
    OBVIOUS
  <2> QED
    BY <1>2, <2>1, <2>2, <2>4, <2>5, StartFollows
<1> QED
  BY <1>1, <1>3, <1>4

\* Steps of the coalescing loop: a batch begins, perhaps with a restart, or ends.
LEMMA LoopFollows ==
  ASSUME ViteInv, Follows, Serial', Settle \/ EndBatch
  PROVE  Follows'
<1>1. task \in [Task -> TaskType] /\ pending \in SUBSET Path /\ epoch \in Nat /\ Idle \in TaskType
      /\ Idle.stage = "idle"
  BY Constants DEF ViteInv, TypeOK, Idle
<1>2. CASE Settle
  <2> DEFINE x == [Idle EXCEPT !.paths = pending, !.epoch = epoch]
             started == [task EXCEPT ![Loop] = x]
  <2>1. /\ UNCHANGED <<disk, events, live, known, last, gens, missed>>
        /\ loop = "settling" /\ loop' = "compiling" /\ pending' = {}
        /\ BeginBatch(pending)
    BY <1>2 DEF Settle, files, daemon
  <2>2. x \in TaskType /\ started \in [Task -> TaskType]
    BY <1>1, Constants DEF TaskType
  <2>3. \A u \in Task : ~Running(u)
    <3>1. task[Loop].stage = "idle"
      BY <2>1 DEF Follows, LoopWorks
    <3>2. \A i \in Initial : ~Running(i)
      BY <2>1 DEF BeginBatch, Serial
    <3> QED
      BY <3>1, <3>2 DEF Task, Running
  <2>4. calls = <<>> /\ ~closing
    BY <2>3, NobodyAsks DEF Requests, Running
  <2>5. CASE ConfigChanged(pending)
    <3>1. /\ Invalidate /\ closing' /\ error' = error
          /\ task' = [started EXCEPT ![Loop].stage = "restart"]
          /\ calls' = Append(<<>>, [by |-> Loop, kind |-> "restart", paths |-> {}])
      BY <2>1, <2>4, <2>5 DEF BeginBatch
    <3>2. Len(calls') = 1 /\ calls'[1].by = Loop /\ calls'[1].kind = "restart" /\ calls' # <<>>
      BY <3>1, EmptySeq
    <3>3. task'[Loop].stage = "restart" /\ \A u \in Task \ {Loop} : task'[u] = task[u]
      BY <1>1, <2>2, <3>1, Constants DEF TaskType
    <3>4. LoopWorks' /\ LastIsKnown'
      BY <2>1, <3>3 DEF Follows, LoopWorks, LastIsKnown
    <3>5. ready' = NoResult
      BY <3>1 DEF Invalidate
    <3>6. OneAtATime'
      BY <2>3, <3>2, <3>3, <3>5 DEF OneAtATime, Running, Requests, Restarting
    <3>7. KnownFollows'
      BY <3>2 DEF KnownFollows, Restarting
    <3>8. ReadyIsLast'
      <4>1. NoResult.gen = 0 /\ gens' \in Nat
        BY <2>1 DEF NoResult, ViteInv, TypeOK
      <4> QED
        BY <3>5, <4>1 DEF ReadyIsLast
    <3>9. RenderIsLast'
      BY <2>3, <3>3 DEF RenderIsLast, Running
    <3> QED
      BY <3>4, <3>6, <3>7, <3>8, <3>9 DEF Follows
  <2>6. CASE ~ConfigChanged(pending)
    <3> DEFINE kind == IF live THEN "files" ELSE "compile"
    <3>1. Ask(Loop, "call", kind, pending, calls, started) /\ UNCHANGED <<epoch, ready, closing>>
      BY <2>1, <2>6 DEF BeginBatch
    <3>2. kind \in {"compile", "files"}
      OBVIOUS
    <3> HIDE DEF kind, x
    <3>3. task'[Loop].stage \in {"call", "done"}
      BY <2>2, <3>1, Constants DEF Ask, TaskType
    <3>4. LoopWorks'
      BY <2>1, <3>3 DEF LoopWorks
    <3> QED
      BY <1>1, <2>1, <2>2, <2>3, <3>1, <3>2, <3>4, Constants, StartFollows
  <2> QED
    BY <2>5, <2>6
<1>3. CASE EndBatch
  <2>1. /\ UNCHANGED <<disk, events, live, known, last, gens, missed, calls, closing, ready, epoch, error,
                    pending>>
        /\ task[Loop].stage = "done" /\ task' = [task EXCEPT ![Loop] = Idle]
        /\ loop' = IF pending = {} THEN "off" ELSE "settling"
    BY <1>3 DEF EndBatch, files, daemon, Settled, Continue
  <2>2. task'[Loop].stage = "idle" /\ \A u \in Task \ {Loop} : task'[u] = task[u]
    BY <1>1, <2>1, Constants
  <2>3. LoopWorks' /\ LastIsKnown' /\ KnownFollows'
    BY <2>1, <2>2 DEF Follows, LoopWorks, LastIsKnown, KnownFollows, Restarting
  <2>4. calls # <<>> => Len(calls) = 1 /\ Requests(calls[1].by) /\ calls[1].by \in Task \ {Loop}
    <3> SUFFICES ASSUME calls # <<>>
                 PROVE  Len(calls) = 1 /\ Requests(calls[1].by) /\ calls[1].by \in Task \ {Loop}
      OBVIOUS
    <3>1. Len(calls) = 1 /\ Requests(calls[1].by) /\ calls \in Seq(CallType)
      BY DEF Follows, OneAtATime, ViteInv, TypeOK
    <3>2. calls[1] \in CallType
      BY <3>1
    <3> QED
      BY <2>1, <3>1, <3>2 DEF CallType, Requests
  <2>5. OneAtATime'
    <3>1. \A u \in Task : Running(u)' => Running(u)
      BY <2>2 DEF Running
    <3>2. calls # <<>> => Requests(calls[1].by)'
      BY <2>1, <2>2, <2>4 DEF Requests
    <3> QED
      BY <2>1, <2>4, <3>1, <3>2 DEF Follows, OneAtATime, Restarting
  <2>6. ReadyIsLast'
    <3>1. \A u \in Task : task[u].stage \in {"refresh", "render"} => task'[u] = task[u]
      BY <2>1, <2>2
    <3> QED
      BY <2>1, <3>1 DEF Follows, ReadyIsLast, Same
  <2>7. RenderIsLast'
    BY <2>1, <2>2 DEF Follows, RenderIsLast, Same, EpochHolds
  <2> QED
    BY <2>3, <2>5, <2>6, <2>7 DEF Follows
<1> QED
  BY <1>2, <1>3

\* What overlapped or was not seen stays so.
LEMMA SerialBefore == [Next]_vars /\ Serial' => Serial
<1> SUFFICES ASSUME [Next]_vars, Serial' PROVE Serial
  OBVIOUS
<1>1. CASE UNCHANGED vars
  BY <1>1 DEF vars, history, Serial
<1>2. CASE Initialize \/ Serve \/ ServeFails \/ Refuse \/ Die \/ Restarted
  BY <1>2 DEF Initialize, Serve, ServeFails, Refuse, Die, Restarted, history, Serial
<1>3. CASE \E t \in Task : EndRender(t) \/ RenderFails(t)
  BY <1>3 DEF EndRender, RenderFails, history, Serial
<1>4. CASE EndBatch
  BY <1>4 DEF EndBatch, history, Serial
<1>5. CASE Settle
  <2>1. unseen' = unseen /\ overlap' = (overlap \/ \E t \in Initial : Running(t))
    BY <1>5 DEF Settle, BeginBatch
  <2> QED
    BY <2>1 DEF Serial
<1>6. CASE ConfigureServer \/ \E p \in Path : WatchEvent(p) \/ (\E c \in Caller : HotUpdate(p, c))
  <2>1. UNCHANGED history
    BY <1>6 DEF ConfigureServer, WatchEvent, HotUpdate
  <2> QED
    BY <2>1 DEF history, Serial
<1>7. ASSUME NEW p \in Path, NEW c \in Content, Edit(p, c) PROVE Serial
  <2>1. overlap' = overlap /\ (unseen' = unseen \/ unseen' = TRUE)
    BY <1>7 DEF Edit
  <2> QED
    BY <2>1 DEF Serial
<1>8. CASE \E c \in Caller : CallerStep(c)
  <2>1. UNCHANGED history
    BY <1>8 DEF CallerStep, Lookup, Retry, EndHotUpdate
  <2> QED
    BY <2>1 DEF history, Serial
<1>9. ASSUME NEW c \in Caller, NEW h \in Host, NEW code, Transform(c, h, code) PROVE Serial
  <2>1. unseen' = unseen /\ (overlap' = overlap \/ overlap' = (overlap \/ \E t \in Task : Running(t)))
    BY <1>9 DEF Transform, BeginInitial
  <2>2. CASE overlap' = overlap
    BY <2>1, <2>2 DEF Serial
  <2>3. CASE overlap' = (overlap \/ \E t \in Task : Running(t))
    BY <2>1, <2>3 DEF Serial
  <2> QED
    BY <2>1, <2>2, <2>3
<1> QED
  BY <1>1, <1>2, <1>3, <1>4, <1>5, <1>6, <1>7, <1>8, <1>9 DEF Next

-----------------------------------------------------------------------------
(* The theorems *)

\* The inductive invariant of the plugin: results in the renderer carry the
\* epoch of their answer, and the active one is of the present epoch.
THEOREM ViteInvariant == Spec => []ViteInv
<1>1. ViteInv /\ [Next]_vars => ViteInv'
  <2> SUFFICES ASSUME ViteInv, [Next]_vars PROVE ViteInv'
    OBVIOUS
  <2>1. CASE UNCHANGED vars
    BY <2>1 DEF vars, files, daemon, batch, history, ViteInv, TypeOK, RendersAreDated, AreDated,
                ReadyIsTrusted, RewritesMatch
  <2> QED
    BY <2>1, DaemonStep, RenderStep, LoopStep, WatcherStep, HookStep, Constants DEF Next
<1> QED
  BY InvInitially, <1>1, PTL DEF Spec

\* renderAndIndex compares its epoch before it swaps its result in: what was
\* compiled before the daemon died or the configuration changed never becomes,
\* or stays, the active result, with any number of compiles in progress.
THEOREM ReadyTrusted == Spec => []ReadyIsTrusted
<1>1. ViteInv => ReadyIsTrusted
  BY DEF ViteInv
<1> QED
  BY ViteInvariant, <1>1, PTL

\* transform rewrites a buffer with the callsites that were compiled from
\* exactly it, and with the modules of the same generation.
THEOREM RewritesAreMatched == Spec => []RewritesMatch
<1>1. ViteInv => RewritesMatch
  BY DEF ViteInv
<1> QED
  BY ViteInvariant, <1>1, PTL

\* Why nothing is stale when all is at rest and no two compiles overlapped: what the
\* daemon has differs from the disk only where an event, the pending set or the request
\* in flight says so, or where it refused a batch, and what is active is the daemon's
\* last result, unless the task in progress will replace it or an error is displayed.
THEOREM DiskIsFollowed == Spec => []FollowsDisk
<1>1. ViteInv /\ FollowsDisk /\ [Next]_vars => FollowsDisk'
  <2> SUFFICES ASSUME ViteInv, FollowsDisk, [Next]_vars, Serial' PROVE Follows'
    BY DEF FollowsDisk
  <2>1. Follows
    BY SerialBefore DEF FollowsDisk
  <2>2. CASE UNCHANGED vars
    <3>1. UNCHANGED <<disk, events, live, known, last, gens, missed, calls, closing, ready, epoch, error,
                      task, loop, pending>>
      BY <2>2 DEF vars, files, daemon, batch
    <3>2. LoopWorks'
      BY <2>1, <3>1 DEF Follows, LoopWorks
    <3> QED
      BY <2>1, <3>1, <3>2, OthersFollow
  <2>3. CASE Initialize \/ Serve \/ ServeFails \/ Refuse \/ Die \/ Restarted
    BY <2>1, <2>3, ServeFollows, SessionFollows
  <2>4. CASE \E t \in Task : EndRender(t) \/ RenderFails(t)
    BY <2>1, <2>4, RendererFollows
  <2>5. CASE Settle \/ EndBatch
    BY <2>1, <2>5, LoopFollows
  <2>6. CASE ConfigureServer \/ \E p \in Path : WatchEvent(p) \/ (\E c \in Content : Edit(p, c))
    BY <2>1, <2>6, WatcherFollows, Constants
  <2>7. CASE \E c \in Caller : CallerStep(c) \/ \E p \in Path : HotUpdate(p, c)
    BY <2>1, <2>7, HookFollows
  <2>8. CASE \E c \in Caller : \E h \in Host : \E code \in Content \ {Plain, Bad} : Transform(c, h, code)
    BY <2>1, <2>8, TransformFollows
  <2> QED
    BY <2>2, <2>3, <2>4, <2>5, <2>6, <2>7, <2>8 DEF Next
<1> QED
  BY FollowsInitially, <1>1, ViteInvariant, PTL DEF Spec

\* No batch, failed render, drift or replay drops a change silently, except of the paths
\* of a batch that the daemon refused and that nothing made it read since.
THEOREM NothingIsStale == Spec => []NoSilentStaleness
<1>1. ViteInv /\ FollowsDisk => NoSilentStaleness
  <2> SUFFICES ASSUME ViteInv, Follows, AtRest, ready # NoResult, ~error,
                      NEW p \in Path \ missed
               PROVE  ready.of[p] = disk[p]
    BY DEF FollowsDisk, NoSilentStaleness, Serial
  <2>1. /\ loop = "off" /\ events = {} /\ calls = <<>> /\ \A t \in Task : ~Running(t)
    BY DEF AtRest
  <2>2. last # NoResult /\ ready.of = last.of
    BY <2>1 DEF Follows, ReadyIsLast, Same, Running
  <2>3. last.of = known /\ known # Nothing
    BY <2>2 DEF Follows, LastIsKnown
  <2>4. pending = {}
    BY <2>1 DEF Follows, LoopWorks
  <2>5. known[p] = disk[p]
    BY <2>1, <2>3, <2>4 DEF Follows, KnownFollows, Restarting
  <2> QED
    BY <2>2, <2>3, <2>5
<1> QED
  BY <1>1, DiskIsFollowed, ViteInvariant, PTL
=============================================================================
