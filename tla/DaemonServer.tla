---------------------------- MODULE DaemonServer ----------------------------
(***************************************************************************)
(* The serving loop of the build daemon (crates/dsql-daemon/src/lib.rs).   *)
(* A reader task moves lines from stdin to a queue and remembers the end   *)
(* of stdin; the executor takes one line after the other, handles it,      *)
(* answers unless the end of stdin is known by then, and maintains.        *)
(* Meanwhile the consumer writes, hangs up, or stops reading, whenever it  *)
(* likes.                                                                  *)
(*                                                                         *)
(* Lines are told apart by what the loop does with them.  What a compile   *)
(* does to the project is DaemonSession and Publication; here it may leave *)
(* pruning to be done.                                                     *)
(***************************************************************************)
EXTENDS Naturals, Sequences

CONSTANTS
    Kind,       \* the lines consumers write
    MaxLines    \* bound on their number

ASSUME KindAssumption ==
    /\ Kind \subseteq {"blank", "notUtf8", "bad", "initialize", "compile", "shutdown"}
    /\ MaxLines \in Nat

VARIABLES
    written,    \* every line the consumer wrote, history
    input,      \* stdin: lines written and not read yet
    hungUp,     \* the consumer closed its end of stdin
    deaf,       \* the consumer closed its end of stdout
    reading,    \* the reader task is still in its loop
    queue,      \* the channel between the two tasks
    eof,        \* the watch the reader task sets
    pc,         \* where the executor is
    line,       \* the line it took from the queue
    response,   \* the response it composed
    ready,      \* the daemon is initialized
    pruning,    \* pending_prune is set
    output,     \* every response written
    late        \* history: lines handled that were taken when eof was set

consumerVars == <<written, hungUp, deaf>>
readerVars == <<reading, eof>>
daemonVars == <<ready, pruning>>
vars == <<consumerVars, input, readerVars, queue, pc, line, response, daemonVars, output, late>>

NoLine == [number |-> 0, kind |-> "blank"]
NoResponse == [number |-> 0, says |-> "none"]
Says == {"none", "InvalidRequest", "NotInitialized", "AlreadyInitialized", "failed", "ok"}

Init ==
    /\ written = <<>> /\ input = <<>> /\ hungUp = FALSE /\ deaf = FALSE
    /\ reading = TRUE /\ queue = <<>> /\ eof = FALSE
    /\ pc = "receive" /\ line = NoLine /\ response = NoResponse
    /\ ready = FALSE /\ pruning = FALSE
    /\ output = <<>> /\ late = 0

(***************************************************************************)
(* The consumer.                                                           *)
(***************************************************************************)
Write(kind) ==
    /\ Len(written) < MaxLines /\ ~hungUp
    /\ LET l == [number |-> Len(written) + 1, kind |-> kind] IN
           written' = Append(written, l) /\ input' = Append(input, l)
    /\ UNCHANGED <<hungUp, deaf, readerVars, queue, pc, line, response, daemonVars, output, late>>

HangUp ==
    /\ ~hungUp /\ hungUp' = TRUE
    /\ UNCHANGED <<written, deaf, input, readerVars, queue, pc, line, response, daemonVars,
                   output, late>>

StopListening ==
    /\ ~deaf /\ deaf' = TRUE
    /\ UNCHANGED <<written, hungUp, input, readerVars, queue, pc, line, response, daemonVars,
                   output, late>>

(***************************************************************************)
(* The reader task.                                                        *)
(***************************************************************************)
Running == pc \notin {"returned", "exited"}

\* A line goes to the queue, unless the executor dropped its end.
ReadLine ==
    /\ reading /\ input # <<>> /\ pc # "exited"
    /\ input' = Tail(input)
    /\ \/ Running /\ queue' = Append(queue, Head(input)) /\ UNCHANGED readerVars
       \/ ~Running /\ reading' = FALSE /\ eof' = TRUE /\ UNCHANGED queue
    /\ UNCHANGED <<consumerVars, pc, line, response, daemonVars, output, late>>

ReadEof ==
    /\ reading /\ input = <<>> /\ hungUp /\ pc # "exited"
    /\ reading' = FALSE
    /\ eof' = TRUE
    /\ UNCHANGED <<consumerVars, input, queue, pc, line, response, daemonVars, output, late>>

(***************************************************************************)
(* The executor.                                                           *)
(***************************************************************************)
Receive ==
    /\ pc = "receive" /\ queue # <<>>
    /\ queue' = Tail(queue)
    /\ IF Head(queue).kind = "blank"
       THEN UNCHANGED <<pc, line, late>>
       ELSE /\ line' = Head(queue)
            /\ pc' = "handle"
            /\ late' = IF eof THEN late + 1 ELSE late
    /\ UNCHANGED <<consumerVars, input, readerVars, response, daemonVars, output>>

\* Bug: the executor keeps a sender of its own channel alive.
NeverDisconnects == FALSE

\* The channel is empty and the reader task is gone.
Disconnected == queue = <<>> /\ ~reading

Disconnect ==
    /\ pc = "receive" /\ Disconnected
    /\ pc' = "returned"
    /\ UNCHANGED <<consumerVars, input, readerVars, queue, line, response, daemonVars, output, late>>

Respond(says) == response' = [number |-> line.number, says |-> says]

\* Request::parse and Daemon::handle, to their end.  A compile that fails in the
\* host generator has published as well.
Handle ==
    /\ pc = "handle"
    /\ pc' = "check"
    /\ \/ /\ line.kind \in {"notUtf8", "bad"}
          /\ Respond("InvalidRequest") /\ UNCHANGED daemonVars
       \/ /\ line.kind = "shutdown"
          /\ Respond("ok") /\ UNCHANGED daemonVars
       \/ /\ line.kind = "initialize" /\ ready
          /\ Respond("AlreadyInitialized") /\ UNCHANGED daemonVars
       \/ /\ line.kind = "initialize" /\ ~ready
          /\ \E initialized \in BOOLEAN :
                /\ Respond(IF initialized THEN "ok" ELSE "failed")
                /\ ready' = initialized
          /\ UNCHANGED pruning
       \/ /\ line.kind = "compile" /\ ~ready
          /\ Respond("NotInitialized") /\ UNCHANGED daemonVars
       \/ /\ line.kind = "compile" /\ ready
          /\ \E says \in {"ok", "failed"} : Respond(says)
          /\ \E published \in BOOLEAN : pruning' = (pruning \/ published)
          /\ UNCHANGED ready
    /\ UNCHANGED <<consumerVars, input, readerVars, queue, line, output, late>>

\* Bug: the end of stdin is not looked at.
NeverEof == FALSE

\* is_eof
EofKnown == eof

CheckEof ==
    /\ pc = "check"
    /\ pc' = IF EofKnown THEN "returned" ELSE "write"
    /\ UNCHANGED <<consumerVars, input, readerVars, queue, line, response, daemonVars, output, late>>

\* Bug: the loop maintains whether or not the response was written.
MaintainAnyway ==
    CASE line.kind = "notUtf8" -> "receive"
      [] line.kind = "shutdown" -> "returned"
      [] OTHER -> "maintain"

\* Where the loop goes once the response is written, or could not be.
AfterWrite ==
    CASE line.kind = "notUtf8" -> "receive"
      [] line.kind # "notUtf8" /\ (deaf \/ line.kind = "shutdown") -> "returned"
      [] OTHER -> "maintain"

\* Bug: a line that is not UTF-8 is skipped.
SkipsNotUtf8 == IF deaf \/ line.kind = "notUtf8" THEN output ELSE Append(output, response)

Written == IF deaf THEN output ELSE Append(output, response)

WriteResponse ==
    /\ pc = "write"
    /\ output' = Written
    /\ pc' = AfterWrite
    /\ UNCHANGED <<consumerVars, input, readerVars, queue, line, response, daemonVars, late>>

\* Daemon::after_respond
AfterRespond ==
    /\ pc = "maintain"
    /\ pruning' = FALSE
    /\ pc' = "receive"
    /\ UNCHANGED <<consumerVars, input, readerVars, queue, line, response, ready, output, late>>

\* A read of stdin the runtime has begun cannot be cancelled: the process exits
\* once it returns.
ReadIsOver == ~reading \/ input # <<>> \/ hungUp

Exit ==
    /\ pc = "returned" /\ ReadIsOver
    /\ pc' = "exited"
    /\ UNCHANGED <<consumerVars, input, readerVars, queue, line, response, daemonVars, output, late>>

Daemon ==
    \/ ReadLine \/ ReadEof
    \/ Receive \/ Disconnect \/ Handle \/ CheckEof \/ WriteResponse \/ AfterRespond
    \/ Exit

Next ==
    \/ \E kind \in Kind : Write(kind)
    \/ HangUp \/ StopListening
    \/ Daemon

Spec == Init /\ [][Next]_vars

\* Both tasks go on as long as they can; handling ends.  The consumer owes nothing.
FairSpec ==
    /\ Spec
    /\ WF_vars(ReadLine) /\ WF_vars(ReadEof)
    /\ WF_vars(Receive \/ Disconnect \/ Handle \/ CheckEof \/ WriteResponse \/ AfterRespond \/ Exit)

(***************************************************************************)
(* Properties.                                                             *)
(***************************************************************************)

\* Every line that is not blank gets one answer, in the order of the lines and
\* with none left out before another.
AnswersInOrder ==
    \A i \in 1..Len(output) :
        LET n == output[i].number IN
        /\ n \in 1..Len(written) /\ written[n].kind # "blank"
        /\ \A j \in 1..i - 1 : output[j].number < n
        /\ \A k \in 1..n : written[k].kind # "blank" => \E j \in 1..i : output[j].number = k

\* At most one line is handled that was still queued when the end of stdin was
\* known: whatever else was queued is dropped.
OneLateRequest == late <= 1

\* Pruning is done by the time the next line is taken, and never before the
\* request that called for it was answered.
RespondThenMaintain ==
    /\ pc = "receive" => ~pruning
    /\ pc = "maintain" => output # <<>> /\ output[Len(output)] = response

\* A consumer that goes away never leaks a daemon.
NoLeakedDaemon == hungUp ~> (pc = "exited")
=============================================================================
