---------------------------- MODULE DaemonClient ----------------------------
(***************************************************************************)
(* The client of the build daemon                                          *)
(* (integrations/typescript/src/daemon.ts): calls queue on a promise       *)
(* chain, the head of the chain uses the live session, spawns one if there *)
(* is none, and waits for the answer to its one request, while the events  *)
(* of this session and of earlier ones arrive in whatever order the        *)
(* processes and pipes produce.                                            *)
(*                                                                         *)
(* JavaScript runs a handler to its end, and then the continuations of the *)
(* promises it settled, before the next event.  Handlers and continuations *)
(* are actions; an event waits until no continuation is due (Quiet).  Only *)
(* the lines of one chunk of stdout follow each other without a pause.     *)
(*                                                                         *)
(* The daemon is seen from outside: it answers requests in order, may stop *)
(* at any moment, close its stdout, or print a line it should not.  A call *)
(* is its number, and an answer the number of the call it answers.         *)
(***************************************************************************)
EXTENDS Integers, Sequences

CONSTANTS
    Methods,    \* what callers call: a subset of {"work", "shutdown", "restart"}
    MaxCalls,   \* bound on calls
    MaxCrashes, \* bound on daemons that stop, do not start or close stdout
    MaxStrays,  \* bound on lines a daemon should not have printed
    TopRung     \* backoff delays double this often: 250 ms to 8 s is 5

ASSUME BoundsAssumption ==
    /\ Methods \subseteq {"work", "shutdown", "restart"}
    /\ MaxCalls \in Nat /\ MaxCrashes \in Nat /\ MaxStrays \in Nat /\ TopRung \in Nat

VARIABLES
    calls,          \* calls made so far
    answer,         \* what each call was settled with
    chain,          \* #chain: the calls not settled yet, the first one runs
    stage,          \* what the first call of the chain is waiting for
    using,          \* the session it is using
    reply,          \* what settled the promise it awaits, or NoReply
    reopening,      \* restart calls that have yet to open the client again
    closing,        \* #closing
    fatal,          \* #fatal is set
    session,        \* #session, 0 for null
    spawned,        \* how many sessions were spawned
    link,           \* the sessions, their processes and their pipes
    nextId,         \* #nextId
    rung,           \* #backoffMs: 250 * 2^rung ms
    restartLater,   \* #restartNotBefore may lie ahead
    crashes, strays,\* how much of the bounds is used up
    disposed,       \* history: was shutdown called, and no restart since?  "overlapping"
                    \* if a restart was under way then
    seen            \* history of each session, as callers see it

queueVars == <<calls, answer, chain>>
taskVars == <<stage, using, reply>>
openVars == <<reopening, closing, disposed>>
ladderVars == <<rung, restartLater>>
faultVars == <<crashes, strays>>
vars == <<queueVars, taskVars, openVars, ladderVars, faultVars, fatal, session,
          spawned, link, nextId, seen>>

Session == 1..MaxCalls
Unsettled == 0
Error == -1

\* Settlements of the promise a task awaits.
NoReply == [says |-> "none", ask |-> 0]
Reply == [says : {"none", "result", "refusal", "unsupported", "internal", "closed"},
          ask : 0..MaxCalls]
Broken == [says |-> "closed", ask |-> 0]

\* A line that answers no request there is.
Garbage == [id |-> 0, says |-> "result", ask |-> 0]
Line == [id : Nat, says : {"result", "refusal", "unsupported", "internal"}, ask : 0..MaxCalls]
Request == [id : Nat, method : {"initialize", "work", "shutdown"}, ask : 0..MaxCalls]

NoSession ==
    [proc |-> "none",       \* "running", "exited"; "unborn" if spawn fails
     reaped |-> FALSE,      \* its exit (or spawn error) event was delivered
     muted |-> FALSE,       \* it closed its stdout
     closed |-> FALSE,      \* the close event of its stdout was delivered
     killed |-> FALSE,      \* it was sent a signal
     inbox |-> <<>>,        \* its stdin
     outbox |-> <<>>,       \* its stdout
     last |-> Garbage,      \* the line it printed last
     pending |-> 0,         \* id of the request in flight
     dead |-> FALSE, failed |-> FALSE,
     ending |-> FALSE]      \* session.closing

Unseen == [invalidated |-> 0, climbed |-> 0, served |-> FALSE]

(***************************************************************************)
(* The helpers handlers share.                                             *)
(***************************************************************************)
Live(s) == s # 0 /\ ~link[s].dead

\* The head of the chain awaits a request it sent on s.
Awaits(s) == using = s /\ stage \in {"initialize", "request", "goodbye"}

Continuation == reply # NoReply \/ reopening # {} \/ (stage = "rest" /\ chain # <<>>)
Quiet == ~Continuation

\* #scheduleBackoff
Climb ==
    /\ rung' = IF rung < TopRung THEN rung + 1 ELSE TopRung
    /\ restartLater' = TRUE

\* Bug: every report of a failure is handled.
NeverFailed(l) == FALSE

AlreadyFailed(l) == l.failed

\* Bug: a session found dead needs no more handling.
InvalidatesAlive(l) == ~l.ending /\ ~l.dead

\* A failure invalidates the caller's caches unless the client wanted the end.
Invalidates(l) == ~l.ending

\* #failSession for session s, which the handler has brought to state l, when
\* the handler has settled the promise the task awaits with r.
FailSession(s, l, r) ==
    IF AlreadyFailed(l)
    THEN /\ link' = [link EXCEPT ![s] = l]
         /\ reply' = r
         /\ UNCHANGED <<ladderVars, session, seen>>
    ELSE /\ Climb
         /\ link' = [link EXCEPT ![s] =
                [l EXCEPT !.failed = TRUE, !.dead = TRUE, !.pending = 0,
                          !.killed = @ \/ ~l.dead]]
         /\ reply' = IF l.pending # 0 /\ Awaits(s) THEN Broken ELSE r
         /\ session' = IF session = s THEN 0 ELSE session
         /\ seen' = [seen EXCEPT
                ![s].climbed = @ + 1,
                ![s].invalidated = IF Invalidates(l) THEN @ + 1 ELSE @]

\* #send of a request on session s, which is in state l.
CanSend(l) == ~l.dead /\ l.pending = 0
Sent(l, method, ask) ==
    [l EXCEPT !.pending = nextId,
              !.inbox = Append(@, [id |-> nextId, method |-> method, ask |-> ask])]

Send(s, l, method, ask) ==
    IF CanSend(l)
    THEN /\ link' = [link EXCEPT ![s] = Sent(l, method, ask)]
         /\ nextId' = nextId + 1
         /\ reply' = NoReply
    ELSE /\ link' = [link EXCEPT ![s] = l]
         /\ reply' = Broken
         /\ UNCHANGED nextId

\* The head of the chain is settled with a, and the next call is its turn.
Settle(a) ==
    /\ answer' = [answer EXCEPT ![Head(chain).ask] = a]
    /\ chain' = Tail(chain)
    /\ stage' = "rest"
    /\ using' = 0
    /\ reply' = NoReply
    /\ UNCHANGED calls

(***************************************************************************)
(* Calls.                                                                  *)
(***************************************************************************)
Init ==
    /\ calls = 0 /\ chain = <<>>
    /\ answer = [c \in 1..MaxCalls |-> Unsettled]
    /\ stage = "rest" /\ using = 0 /\ reply = NoReply
    /\ reopening = {} /\ closing = FALSE /\ disposed = "no"
    /\ fatal = FALSE /\ session = 0 /\ spawned = 0
    /\ link = [s \in Session |-> NoSession]
    /\ nextId = 1 /\ rung = 0 /\ restartLater = FALSE
    /\ crashes = 0 /\ strays = 0
    /\ seen = [s \in Session |-> Unseen]

\* Bug: work is queued behind shutdown.
AlwaysOpen == TRUE

\* #assertOpen
AssertOpen == ~closing

\* compile or filesChanged
CallWork ==
    /\ "work" \in Methods /\ calls < MaxCalls
    /\ calls' = calls + 1
    /\ \/ /\ AssertOpen
          /\ chain' = Append(chain, [ask |-> calls', method |-> "work"])
          /\ UNCHANGED answer
       \/ /\ ~AssertOpen
          /\ answer' = [answer EXCEPT ![calls'] = Error]
          /\ UNCHANGED chain
    /\ UNCHANGED <<taskVars, openVars, ladderVars, faultVars, fatal, session, spawned,
                   link, nextId, seen>>

\* A restart waits for its shutdown, or is about to open the client again.
Restarting ==
    reopening # {} \/ \E i \in 1..Len(chain) : chain[i].method = "restart"

\* shutdown, and restart up to its await
CallShutdown(method) ==
    /\ method \in Methods \ {"work"} /\ calls < MaxCalls
    /\ calls' = calls + 1
    /\ closing' = TRUE
    /\ chain' = Append(chain, [ask |-> calls', method |-> method])
    /\ disposed' = CASE method = "restart"                 -> "no"
                     [] method = "shutdown" /\ Restarting  -> "overlapping"
                     [] method = "shutdown" /\ ~Restarting -> "yes"
    /\ UNCHANGED <<taskVars, ladderVars, faultVars, answer, reopening, fatal, session,
                   spawned, link, nextId, seen>>

\* restart after its await
Reopen(ask) ==
    /\ ask \in reopening
    /\ reopening' = reopening \ {ask}
    /\ closing' = FALSE
    /\ restartLater' = FALSE
    /\ rung' = 0
    /\ UNCHANGED <<queueVars, taskVars, faultVars, disposed, fatal, session, spawned,
                   link, nextId, seen>>

(***************************************************************************)
(* The head of the chain.                                                  *)
(***************************************************************************)
Turn(methods) == stage = "rest" /\ chain # <<>> /\ Head(chain).method \in methods

\* #spawn, and the initialize request ensureSession sends to the new session.
Spawn ==
    \E proc \in {"running", "unborn"} :
        /\ proc = "unborn" => crashes < MaxCrashes
        /\ crashes' = IF proc = "unborn" THEN crashes + 1 ELSE crashes
        /\ spawned' = spawned + 1
        /\ session' = spawned'
        /\ using' = spawned'
        /\ stage' = "initialize"
        /\ restartLater' = FALSE
        /\ Send(spawned', [NoSession EXCEPT !.proc = proc], "initialize", 0)
        /\ UNCHANGED <<queueVars, openVars, rung, strays, fatal, seen>>

\* #request when the client is unusable for good
StartFatal ==
    /\ Turn({"work"}) /\ fatal
    /\ Settle(Error)
    /\ UNCHANGED <<openVars, ladderVars, faultVars, fatal, session, spawned, link,
                   nextId, seen>>

\* #request on the live session
StartLive ==
    /\ Turn({"work"}) /\ ~fatal /\ Live(session)
    /\ using' = session
    /\ stage' = "request"
    /\ Send(session, link[session], "work", Head(chain).ask)
    /\ UNCHANGED <<queueVars, openVars, ladderVars, faultVars, fatal, session, spawned,
                   seen>>

\* #ensureSession without a live session: the deadline lies ahead ...
StartBackoff ==
    /\ Turn({"work"}) /\ ~fatal /\ ~Live(session)
    /\ restartLater
    /\ session' = 0
    /\ stage' = "backoff"
    /\ UNCHANGED <<queueVars, using, reply, openVars, ladderVars, faultVars, fatal,
                   spawned, link, nextId, seen>>

\* ... or has passed
StartSpawn ==
    /\ Turn({"work"}) /\ ~fatal /\ ~Live(session)
    /\ Spawn

EndBackoff ==
    /\ stage = "backoff" /\ Quiet
    /\ Spawn

InitializeOk ==
    /\ stage = "initialize" /\ reply.says = "result"
    /\ stage' = "request"
    /\ Send(using, link[using], "work", Head(chain).ask)
    /\ UNCHANGED <<queueVars, using, openVars, ladderVars, faultVars, fatal, session,
                   spawned, seen>>

\* Bug: a failed initialize always backs off.
ClimbAgain(s) == Climb /\ seen' = [seen EXCEPT ![s].climbed = @ + 1]

\* The catch block of ensureSession
ClimbUnlessFailed(s) ==
    IF link[s].failed
    THEN UNCHANGED <<ladderVars, seen>>
    ELSE Climb /\ seen' = [seen EXCEPT ![s].climbed = @ + 1]

\* Bug: a refused session is dropped and its process kept.
DismissedAlive(l) == [l EXCEPT !.ending = TRUE]

Dismissed(l) == [l EXCEPT !.ending = TRUE, !.killed = TRUE]

InitializeFails ==
    /\ stage = "initialize" /\ reply.says \notin {"none", "result"}
    /\ fatal' = (fatal \/ reply.says = "unsupported")
    /\ ClimbUnlessFailed(using)
    /\ link' = [link EXCEPT ![using] = Dismissed(@)]
    /\ session' = IF session = using THEN 0 ELSE session
    /\ Settle(Error)
    /\ UNCHANGED <<openVars, faultVars, spawned, nextId>>

\* The rest of #request: an answer, which may report errors, ...
RequestOk ==
    /\ stage = "request" /\ reply.says \in {"result", "refusal", "unsupported"}
    /\ rung' = 0
    /\ seen' = [seen EXCEPT ![using].served = TRUE]
    /\ Settle(reply.ask)
    /\ UNCHANGED <<openVars, restartLater, faultVars, fatal, session, spawned, link,
                   nextId>>

\* ... or a failure of the session
RequestFails ==
    /\ stage = "request" /\ reply.says \in {"internal", "closed"}
    /\ Settle(Error)
    /\ UNCHANGED <<openVars, ladderVars, faultVars, fatal, session, spawned, link, nextId,
                   seen>>

\* #shutdownNow returns, and restart is about to go on
EndShutdown ==
    /\ Settle(Head(chain).ask)
    /\ reopening' = IF Head(chain).method = "restart"
                    THEN reopening \cup {Head(chain).ask} ELSE reopening
    /\ UNCHANGED <<closing, disposed, ladderVars, faultVars, fatal, spawned, nextId, seen>>

ShutdownIdle ==
    /\ Turn({"shutdown", "restart"}) /\ ~Live(session)
    /\ session' = 0
    /\ EndShutdown
    /\ UNCHANGED link

ShutdownLive ==
    /\ Turn({"shutdown", "restart"}) /\ Live(session)
    /\ session' = 0
    /\ using' = session
    /\ stage' = "goodbye"
    /\ Send(session, [link[session] EXCEPT !.ending = TRUE], "shutdown", 0)
    /\ UNCHANGED <<queueVars, openVars, ladderVars, faultVars, fatal, spawned, seen>>

\* Bug: shutdown has no timeout.
WaitsForGoodbye == reply # NoReply

\* The daemon said goodbye or its time is up.
GoodbyeOver == reply # NoReply \/ Quiet

EndGoodbye ==
    /\ stage = "goodbye" /\ GoodbyeOver
    /\ IF link[using].dead
       THEN EndShutdown /\ UNCHANGED <<link, session>>
       ELSE /\ link' = [link EXCEPT ![using].killed = TRUE]
            /\ stage' = "killing"
            /\ reply' = NoReply
            /\ UNCHANGED <<queueVars, using, openVars, ladderVars, faultVars, fatal, session,
                           spawned, nextId, seen>>

\* It exited, or its time is up and SIGKILL follows.
EndKilling ==
    /\ stage = "killing" /\ Quiet
    /\ EndShutdown
    /\ UNCHANGED <<link, session>>

(***************************************************************************)
(* The events of a session.                                                *)
(***************************************************************************)
eventFrame == <<queueVars, stage, using, openVars, faultVars, fatal, spawned, nextId>>

\* "exit"
ExitEvent(s) ==
    /\ Quiet /\ link[s].proc = "exited" /\ ~link[s].reaped
    /\ LET l == [link[s] EXCEPT !.reaped = TRUE, !.dead = TRUE] IN
           IF l.ending
           THEN link' = [link EXCEPT ![s] = l] /\ UNCHANGED <<reply, session, ladderVars, seen>>
           ELSE FailSession(s, l, reply)
    /\ UNCHANGED eventFrame

\* "error": the process could not be started
ErrorEvent(s) ==
    /\ Quiet /\ link[s].proc = "unborn" /\ ~link[s].reaped
    /\ FailSession(s, [link[s] EXCEPT !.reaped = TRUE], reply)
    /\ UNCHANGED eventFrame

\* "close" of its stdout
CloseEvent(s) ==
    /\ Quiet /\ ~link[s].closed /\ link[s].outbox = <<>>
    /\ link[s].muted \/ link[s].proc = "exited" \/ (link[s].proc = "unborn" /\ link[s].reaped)
    /\ LET l == [link[s] EXCEPT !.closed = TRUE] IN
           IF ~l.dead /\ ~l.ending
           THEN FailSession(s, l, reply)
           ELSE link' = [link EXCEPT ![s] = l] /\ UNCHANGED <<reply, session, ladderVars, seen>>
    /\ UNCHANGED eventFrame

\* Bug: the promise is rejected, and the request stays in flight.
KeepsPending(l) == l

\* The callback of stdin.write reports that the process is gone.
ForgetsPending(l) == [l EXCEPT !.pending = 0]
WriteError(s) ==
    /\ Quiet /\ link[s].proc = "exited"
    /\ \E i \in 1..Len(link[s].inbox) : link[s].inbox[i].id = link[s].pending
    /\ link' = [link EXCEPT ![s] = ForgetsPending(@)]
    /\ reply' = IF Awaits(s) THEN Broken ELSE reply
    /\ UNCHANGED <<eventFrame, session, ladderVars, seen>>

\* Bug: a line answers whatever is in flight.
AnswersAny(line, l) == l.pending # 0

\* A line answers the request in flight if it has its id.
Answers(line, l) == l.pending # 0 /\ line.id = l.pending

\* #receive
Receive(s) ==
    /\ Quiet \/ (using = s /\ reply # NoReply)
    /\ ~link[s].closed /\ link[s].outbox # <<>>
    /\ LET line == Head(link[s].outbox)
           l == [link[s] EXCEPT !.outbox = Tail(@)]
           done == [l EXCEPT !.pending = 0]
           r == IF Awaits(s) THEN [says |-> line.says, ask |-> line.ask] ELSE reply
       IN CASE l.dead ->
                 link' = [link EXCEPT ![s] = l] /\ UNCHANGED <<reply, session, ladderVars, seen>>
            [] ~l.dead /\ ~Answers(line, l) -> FailSession(s, l, reply)
            [] ~l.dead /\ Answers(line, l) /\ line.says = "internal" -> FailSession(s, done, r)
            [] ~l.dead /\ Answers(line, l) /\ line.says # "internal" ->
                 /\ link' = [link EXCEPT ![s] = done]
                 /\ reply' = r
                 /\ UNCHANGED <<session, ladderVars, seen>>
    /\ UNCHANGED eventFrame

(***************************************************************************)
(* The daemon process, from outside.                                       *)
(***************************************************************************)
processFrame == <<queueVars, taskVars, openVars, ladderVars, fatal, session, spawned,
                  nextId, seen>>

Says(method) ==
    CASE method = "initialize" -> {"result", "refusal", "unsupported", "internal"}
      [] method = "work"       -> {"result", "refusal", "internal"}
      [] method = "shutdown"   -> {"result"}

\* Requests are answered in order.  After shutdown the process may exit, or hang
\* in a read of its stdin (DaemonServer).
Serve(s) ==
    /\ link[s].proc = "running" /\ ~link[s].muted /\ link[s].inbox # <<>>
    /\ LET request == Head(link[s].inbox) IN
         \E says \in Says(request.method),
            proc \in IF request.method = "shutdown" THEN {"running", "exited"} ELSE {"running"} :
           LET line == [id |-> request.id, says |-> says, ask |-> request.ask] IN
             link' = [link EXCEPT
                 ![s].inbox = Tail(@),
                 ![s].outbox = Append(@, line),
                 ![s].last = line,
                 ![s].proc = proc]
    /\ UNCHANGED <<processFrame, faultVars>>

\* A signal ends it.
Die(s) ==
    /\ link[s].proc = "running" /\ link[s].killed
    /\ link' = [link EXCEPT ![s].proc = "exited"]
    /\ UNCHANGED <<processFrame, faultVars>>

Crash(s) ==
    /\ link[s].proc = "running" /\ crashes < MaxCrashes
    /\ crashes' = crashes + 1
    /\ link' = [link EXCEPT ![s].proc = "exited"]
    /\ UNCHANGED <<processFrame, strays>>

Mute(s) ==
    /\ link[s].proc = "running" /\ ~link[s].muted /\ crashes < MaxCrashes
    /\ crashes' = crashes + 1
    /\ link' = [link EXCEPT ![s].muted = TRUE]
    /\ UNCHANGED <<processFrame, strays>>

\* It prints something that is no answer, or its last answer once more.
Stray(s) ==
    /\ link[s].proc = "running" /\ ~link[s].muted /\ strays < MaxStrays
    /\ strays' = strays + 1
    /\ \E line \in {Garbage, link[s].last} :
           link' = [link EXCEPT ![s].outbox = Append(@, line)]
    /\ UNCHANGED <<processFrame, crashes>>

(***************************************************************************)
(* The specification.                                                      *)
(***************************************************************************)
Task ==
    \/ StartFatal \/ StartLive \/ StartBackoff \/ StartSpawn \/ EndBackoff
    \/ InitializeOk \/ InitializeFails \/ RequestOk \/ RequestFails
    \/ ShutdownIdle \/ ShutdownLive \/ EndGoodbye \/ EndKilling
    \/ \E ask \in reopening : Reopen(ask)

Event(s) == ExitEvent(s) \/ ErrorEvent(s) \/ CloseEvent(s) \/ WriteError(s) \/ Receive(s)

Next ==
    \/ CallWork
    \/ \E method \in {"shutdown", "restart"} : CallShutdown(method)
    \/ Task
    \/ \E s \in Session :
          \/ Event(s)
          \/ Serve(s) \/ Die(s) \/ Crash(s) \/ Mute(s) \/ Stray(s)

\* Promises and timers are not forgotten, events are delivered, a daemon with
\* a request answers it, and signals end processes.  Nobody has to call.
Fairness ==
    /\ WF_vars(Task)
    /\ \A s \in Session :
          WF_vars(Event(s)) /\ WF_vars(Serve(s)) /\ WF_vars(Die(s))

Spec == Init /\ [][Next]_vars
FairSpec == Spec /\ Fairness

(***************************************************************************)
(* Properties.                                                             *)
(***************************************************************************)

\* Whatever sessions die and whatever they print, a call is settled with its own
\* answer or with an error.
AnswersMatch == \A c \in 1..MaxCalls : answer[c] \in {Unsettled, Error, c}

\* Strict FIFO: whenever the next call gets its turn on a live session, that
\* session has no request in flight, so #send never refuses an overlapping one.
NeverOverlapping ==
    stage = "rest" /\ Live(session) => link[session].pending = 0

\* onInvalidate runs at most once for each session, and never after a later
\* session has answered a call: a late one would wipe what was just built.
InvalidatesInTime ==
    [][\A s \in Session :
          seen'[s].invalidated # seen[s].invalidated =>
              /\ seen[s].invalidated = 0
              /\ \A t \in Session : t > s => ~seen[t].served]_vars

\* Whoever got an answer from a session was told to drop it before the next
\* session was spawned, unless the client itself ended that session.
CachesDropped ==
    \A s \in 1..spawned :
        s < spawned /\ seen[s].served => seen[s].invalidated = 1 \/ link[s].ending

\* A session that fails, in whatever way and however often it is noticed, moves
\* the backoff ladder one rung.
LadderClimbsOnce == \A s \in Session : seen[s].climbed <= 1

\* A daemon the client no longer works with is gone or was sent a signal: failures,
\* refusals and restarts that drop a session leave no process behind.  Once shutdown
\* was called, with no restart under way or made since, and all calls are settled,
\* there is no other.
NothingLeftBehind ==
    /\ \A s \in 1..spawned :
           s \notin {session, using} /\ link[s].proc = "running" => link[s].killed
    /\ disposed = "yes" /\ chain = <<>> => session = 0 /\ using = 0

\* Work arriving after shutdown is rejected, until restart is called.
ShutdownIsFinal == disposed # "no" => closing

\* Every call is settled in its turn, once, with its own answer or an error.
Promise == INSTANCE CallQueue WITH
    asked <- calls,
    queue <- [i \in 1..Len(chain) |-> chain[i].ask]
ImplementsQueue == Promise!CallSpec
=============================================================================
