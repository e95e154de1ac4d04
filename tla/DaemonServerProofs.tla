------------------------- MODULE DaemonServerProofs -------------------------
(***************************************************************************)
(* Theorems about DaemonServer, for any set of line kinds and any number   *)
(* of lines.                                                               *)
(***************************************************************************)
EXTENDS DaemonServer, Integers, TLAPS

LineType == [number : Nat, kind : Kind \cup {"blank"}]
ResponseType == [number : Nat, says : Says]

\* What the invariants below need of types.
Typed ==
    /\ input \in Seq(LineType) /\ queue \in Seq(LineType) /\ line \in LineType
    /\ written \in Seq(LineType)
    /\ response \in ResponseType /\ output \in Seq(ResponseType)
    /\ eof \in BOOLEAN /\ pruning \in BOOLEAN

\* Why no second line is handled late: the first one is taken when the end of
\* stdin is known, which is never forgotten, so that CheckEof ends the loop.
LateEnds ==
    /\ late \in {0, 1}
    /\ late = 1 => eof /\ pc \in {"handle", "check", "returned", "exited"}

\* Why nothing is left to prune when a line is taken: pruning is set while
\* a compile request is handled, and then only maintenance leads back to the
\* queue; lines that are not UTF-8 skip it, and are no compile requests.
PruningIsDue ==
    /\ pc \in {"receive", "handle"} => ~pruning
    /\ pc \in {"check", "write"} /\ line.kind = "notUtf8" => ~pruning

\* What is maintained for was answered last.
MaintainedIsWritten ==
    pc = "maintain" => output # <<>> /\ output[Len(output)] = response

\* Nothing was read, queued or answered at first.
LEMMA TypedInitially == Init => Typed
  <1> SUFFICES ASSUME Init PROVE Typed
    OBVIOUS
  <1>1. NoLine \in LineType /\ NoResponse \in ResponseType
    BY DEF NoLine, LineType, NoResponse, ResponseType, Says
  <1>2. input \in Seq(LineType) /\ queue \in Seq(LineType) /\ written \in Seq(LineType)
    BY DEF Init
  <1>3. output \in Seq(ResponseType)
    BY DEF Init
  <1> QED
    BY <1>1, <1>2, <1>3 DEF Init, Typed

\* Each step keeps the types: lines move from stdin to the queue to the
\* executor, and responses to the output.
LEMMA TypedStep == Typed /\ [Next]_vars => Typed'
  <1> SUFFICES ASSUME Typed, [Next]_vars PROVE Typed'
    OBVIOUS
  <1> USE KindAssumption DEF Typed
  <1>1. ASSUME NEW kind \in Kind, Write(kind) PROVE Typed'
    <2> DEFINE l == [number |-> Len(written) + 1, kind |-> kind]
    <2>1. l \in LineType
      BY DEF LineType
    <2>2. written' = Append(written, l) /\ input' = Append(input, l)
      BY <1>1 DEF Write
    <2>3. written' \in Seq(LineType) /\ input' \in Seq(LineType)
      BY <2>1, <2>2
    <2> QED
      BY <1>1, <2>3 DEF Write, readerVars, daemonVars
  <1>2. CASE HangUp
    BY <1>2 DEF HangUp, readerVars, daemonVars
  <1>3. CASE StopListening
    BY <1>3 DEF StopListening, readerVars, daemonVars
  <1>4. CASE ReadLine
    <2>1. input' \in Seq(LineType) /\ Head(input) \in LineType
      BY <1>4 DEF ReadLine
    <2>2. CASE Running /\ queue' = Append(queue, Head(input)) /\ UNCHANGED readerVars
      <3>1. queue' \in Seq(LineType)
        BY <2>1, <2>2
      <3> QED
        BY <1>4, <2>1, <2>2, <3>1 DEF ReadLine, consumerVars, readerVars, daemonVars
    <2>3. CASE ~Running /\ reading' = FALSE /\ eof' = TRUE /\ UNCHANGED queue
      BY <1>4, <2>1, <2>3 DEF ReadLine, consumerVars, daemonVars
    <2> QED
      BY <1>4, <2>2, <2>3 DEF ReadLine
  <1>5. CASE ReadEof
    BY <1>5 DEF ReadEof, consumerVars, daemonVars
  <1>6. CASE Receive
    <2>1. queue' \in Seq(LineType) /\ Head(queue) \in LineType
      BY <1>6 DEF Receive
    <2> QED
      BY <1>6, <2>1 DEF Receive, consumerVars, readerVars, daemonVars
  <1>7. CASE Disconnect
    BY <1>7 DEF Disconnect, consumerVars, readerVars, daemonVars
  <1>8. CASE Handle
    <2>1. \A says \in Says : Respond(says) => response' \in ResponseType
      BY DEF Respond, ResponseType, LineType
    <2>2. \E says \in Says : Respond(says)
      BY <1>8 DEF Handle, Says
    <2>3. pruning' \in BOOLEAN
      BY <1>8 DEF Handle, daemonVars
    <2> QED
      BY <1>8, <2>1, <2>2, <2>3 DEF Handle, consumerVars, readerVars
  <1>9. CASE CheckEof
    BY <1>9 DEF CheckEof, consumerVars, readerVars, daemonVars
  <1>10. CASE WriteResponse
    <2>1. output' \in Seq(ResponseType)
      BY <1>10 DEF WriteResponse, Written
    <2> QED
      BY <1>10, <2>1 DEF WriteResponse, consumerVars, readerVars, daemonVars
  <1>11. CASE AfterRespond
    BY <1>11 DEF AfterRespond, consumerVars, readerVars
  <1>12. CASE Exit
    BY <1>12 DEF Exit, consumerVars, readerVars, daemonVars
  <1>13. CASE UNCHANGED vars
    BY <1>13 DEF vars, consumerVars, readerVars, daemonVars
  <1> QED
    BY <1>1, <1>2, <1>3, <1>4, <1>5, <1>6, <1>7, <1>8, <1>9, <1>10, <1>11, <1>12, <1>13
       DEF Next, Daemon

\* Each step keeps what is known about late lines, due pruning and maintenance.
LEMMA LoopStep ==
  Typed /\ LateEnds /\ PruningIsDue /\ MaintainedIsWritten /\ [Next]_vars
    => LateEnds' /\ PruningIsDue' /\ MaintainedIsWritten'
  <1> SUFFICES ASSUME Typed, LateEnds, PruningIsDue, MaintainedIsWritten, [Next]_vars
               PROVE LateEnds' /\ PruningIsDue' /\ MaintainedIsWritten'
    OBVIOUS
  <1> USE DEF LateEnds, PruningIsDue, MaintainedIsWritten
  <1>1. CASE (\E kind \in Kind : Write(kind)) \/ HangUp \/ StopListening
    <2>1. UNCHANGED <<eof, pc, line, response, pruning, output, late>>
      <3>1. ASSUME NEW kind \in Kind, Write(kind)
            PROVE UNCHANGED <<eof, pc, line, response, pruning, output, late>>
        BY <3>1 DEF Write, readerVars, daemonVars
      <3> QED
        BY <1>1, <3>1 DEF HangUp, StopListening, readerVars, daemonVars
    <2> QED
      BY <2>1
  <1>2. CASE ReadLine
    <2>1. UNCHANGED <<pc, line, response, pruning, output, late>>
      BY <1>2 DEF ReadLine, daemonVars
    <2>2. UNCHANGED eof \/ eof' = TRUE
      BY <1>2 DEF ReadLine, readerVars
    <2> QED
      BY <2>1, <2>2
  <1>3. CASE ReadEof
    BY <1>3 DEF ReadEof, daemonVars
  <1>4. CASE Receive
    <2>1. UNCHANGED <<eof, pruning, response, output>> /\ pc = "receive"
      BY <1>4 DEF Receive, readerVars, daemonVars
    <2>2. ~pruning /\ late = 0
      BY <2>1
    <2>3. CASE UNCHANGED <<pc, line, late>>
      BY <2>1, <2>2, <2>3
    <2>4. CASE pc' = "handle" /\ late' = IF eof THEN late + 1 ELSE late
      <3>1. late' \in {0, 1} /\ (late' = 1 => eof)
        BY <2>2, <2>4
      <3> QED
        BY <2>1, <2>2, <2>4, <3>1
    <2> QED
      BY <1>4, <2>3, <2>4 DEF Receive
  <1>5. CASE Disconnect
    BY <1>5 DEF Disconnect, readerVars, daemonVars
  <1>6. CASE Handle
    <2>1. line' = line /\ pc' = "check" /\ UNCHANGED <<late, eof>>
      BY <1>6 DEF Handle, readerVars
    <2>2. line.kind = "notUtf8" => UNCHANGED pruning
      BY <1>6 DEF Handle, daemonVars
    <2> QED
      BY <1>6, <2>1, <2>2 DEF Handle
  <1>7. CASE CheckEof
    BY <1>7 DEF CheckEof, EofKnown, readerVars, daemonVars
  <1>8. CASE WriteResponse
    <2>1. pc' = "receive" => line.kind = "notUtf8"
      BY <1>8 DEF WriteResponse, AfterWrite
    <2>2. pc' \in {"receive", "returned", "maintain"} /\ late = 0
      BY <1>8 DEF WriteResponse, AfterWrite
    <2>3. pc' = "maintain" => output' = Append(output, response)
      BY <1>8 DEF WriteResponse, AfterWrite, Written
    <2>4. pc' = "maintain" => output' # <<>> /\ output'[Len(output')] = response
      BY <2>3 DEF Typed
    <2> QED
      BY <1>8, <2>1, <2>2, <2>4 DEF WriteResponse, readerVars, daemonVars
  <1>9. CASE AfterRespond
    BY <1>9 DEF AfterRespond, readerVars
  <1>10. CASE Exit
    BY <1>10 DEF Exit, readerVars, daemonVars
  <1>11. CASE UNCHANGED vars
    BY <1>11 DEF vars, readerVars, daemonVars
  <1> QED
    BY <1>1, <1>2, <1>3, <1>4, <1>5, <1>6, <1>7, <1>8, <1>9, <1>10, <1>11 DEF Next, Daemon

-----------------------------------------------------------------------------
(* The order of the answers *)

\* The executor has line written[Taken], or was done with it, unless it is blank.
Working == pc \in {"handle", "check", "write"}
Taken == Len(written) - Len(input) - Len(queue)
NotBlank(k) == written[k].kind # "blank"

\* The lines of the queue and of stdin are the last ones the consumer wrote.
LinesWait ==
    /\ \A k \in 1..Len(written) : written[k].number = k
    /\ Len(input) <= Len(written)
    /\ Running =>
          /\ Len(input) + Len(queue) <= Len(written)
          /\ \A k \in 1..Len(queue) : queue[k] = written[Taken + k]
          /\ \A k \in 1..Len(input) : input[k] = written[Taken + Len(queue) + k]

\* The executor works on the last line that was taken.
LineIsLast ==
    /\ Working => Taken \in 1..Len(written) /\ line = written[Taken] /\ NotBlank(Taken)
    /\ pc \in {"check", "write"} => response.number = line.number

Before(k) == IF Working THEN k < Taken ELSE k <= Taken

\* The answers are those to the lines that were taken, but the one in work, as
\* long as somebody listens.
TakenAreAnswered ==
    Running =>
        /\ \A i \in 1..Len(output) : Before(output[i].number)
        /\ ~deaf => \A k \in 1..Taken :
              Before(k) /\ NotBlank(k) => \E i \in 1..Len(output) : output[i].number = k

Order == LinesWait /\ LineIsLast /\ TakenAreAnswered /\ AnswersInOrder

LEMMA OrderInitially == Init => Order
  <1> SUFFICES ASSUME Init PROVE Order
    OBVIOUS
  <1>1. Len(written) = 0 /\ Len(input) = 0 /\ Len(queue) = 0 /\ Len(output) = 0 /\ pc = "receive"
    BY DEF Init
  <1> QED
    BY <1>1 DEF Order, LinesWait, LineIsLast, TakenAreAnswered, AnswersInOrder, Working, Running, Taken

\* What is known of lines and answers depends on these variables only.
LEMMA OrderOfVariables ==
  ASSUME Order, UNCHANGED <<written, input, queue, output, line>>,
         Running' => Running, deaf => deaf',
         Working' => Working, Running' /\ Working => Working',
         pc' \in {"check", "write"} => response'.number = line.number
  PROVE  Order'
  <1>1. Taken' = Taken /\ \A k : NotBlank(k)' <=> NotBlank(k)
    BY DEF Taken, NotBlank
  <1>2. LinesWait'
    BY <1>1 DEF Order, LinesWait
  <1>3. LineIsLast'
    BY <1>1 DEF Order, LineIsLast
  <1>4. \A k : Running' => (Before(k)' <=> Before(k))
    BY <1>1 DEF Before
  <1>5. TakenAreAnswered'
    BY <1>1, <1>4 DEF Order, TakenAreAnswered
  <1>6. AnswersInOrder'
    BY DEF Order, AnswersInOrder
  <1> QED
    BY <1>2, <1>3, <1>5, <1>6 DEF Order

\* The consumer's line is the last one of stdin.
LEMMA WriteKeepsOrder ==
  ASSUME Typed, Order, NEW kind \in Kind, Write(kind)
  PROVE  Order'
  <1> DEFINE l == [number |-> Len(written) + 1, kind |-> kind]
  <1>1. l \in LineType
    BY DEF LineType, Typed
  <1>2. /\ written' = Append(written, l) /\ input' = Append(input, l)
        /\ UNCHANGED <<queue, pc, line, response, output, deaf>>
    BY DEF Write
  <1>3. /\ Len(written') = Len(written) + 1 /\ written'[Len(written) + 1] = l
        /\ \A k \in 1..Len(written) : written'[k] = written[k]
        /\ Len(input') = Len(input) + 1 /\ input'[Len(input) + 1] = l
        /\ \A k \in 1..Len(input) : input'[k] = input[k]
        /\ Len(written) \in Nat /\ Len(input) \in Nat /\ Len(queue) \in Nat /\ Len(output) \in Nat
    BY <1>1, <1>2 DEF Typed
  <1>4. l.number = Len(written) + 1
    OBVIOUS
  <1> HIDE DEF l
  <1>5. Taken' = Taken /\ Taken \in Int /\ (Running <=> Running') /\ (Working <=> Working')
    BY <1>2, <1>3 DEF Taken, Running, Working
  <1>6. LinesWait'
    <2>1. \A k \in 1..Len(written') : written'[k].number = k
      BY <1>3, <1>4 DEF Order, LinesWait
    <2>2. Running => Taken >= 0 /\ Taken + Len(queue) + Len(input) = Len(written)
      BY <1>3 DEF Order, LinesWait, Taken
    <2>3. ASSUME Running, NEW k \in 1..Len(queue) PROVE queue[k] = written'[Taken + k]
      <3>1. Taken + k \in 1..Len(written)
        BY <1>3, <1>5, <2>2, <2>3
      <3> QED
        BY <1>3, <2>3, <3>1 DEF Order, LinesWait
    <2>4. ASSUME Running, NEW k \in 1..Len(input') PROVE input'[k] = written'[Taken + Len(queue) + k]
      <3>1. CASE k \in 1..Len(input)
        <4>1. Taken + Len(queue) + k \in 1..Len(written)
          BY <1>3, <1>5, <2>2, <2>4, <3>1
        <4> QED
          BY <1>3, <2>4, <3>1, <4>1 DEF Order, LinesWait
      <3>2. CASE k = Len(input) + 1
        BY <1>3, <1>5, <2>2, <2>4, <3>2
      <3> QED
        BY <1>3, <3>1, <3>2
    <2>5. Len(input) <= Len(written)
      BY DEF Order, LinesWait
    <2>6. Running => Len(input) + Len(queue) <= Len(written)
      BY DEF Order, LinesWait
    <2>7. Running' => \A k \in 1..Len(queue') : queue'[k] = written'[Taken' + k]
      BY <1>2, <1>5, <2>3
    <2>8. Running' => \A k \in 1..Len(input') : input'[k] = written'[Taken' + Len(queue') + k]
      BY <1>2, <1>5, <2>4
    <2>9. /\ Len(input') <= Len(written')
          /\ Running' => Len(input') + Len(queue') <= Len(written')
      BY <1>2, <1>3, <1>5, <2>5, <2>6
    <2> QED
      BY <2>1, <2>7, <2>8, <2>9 DEF LinesWait
  <1>7. LineIsLast'
    BY <1>2, <1>3, <1>5 DEF Order, LineIsLast, NotBlank
  <1>8. TakenAreAnswered'
    <2>1. Running => Taken <= Len(written)
      BY <1>3 DEF Order, LinesWait, Taken
    <2>2. \A k : Before(k)' <=> Before(k)
      BY <1>5 DEF Before
    <2>3. \A k \in 1..Len(written) : NotBlank(k)' <=> NotBlank(k)
      BY <1>3 DEF NotBlank
    <2> QED
      BY <1>2, <1>5, <2>1, <2>2, <2>3, <1>3 DEF Order, TakenAreAnswered
  <1>9. AnswersInOrder'
    BY <1>2, <1>3 DEF Order, AnswersInOrder
  <1> QED
    BY <1>6, <1>7, <1>8, <1>9 DEF Order

\* A line goes from the front of stdin to the end of the queue.
LEMMA ReadLineKeepsOrder ==
  ASSUME Typed, Order, ReadLine
  PROVE  Order'
  <1>1. /\ input # <<>> /\ input' = Tail(input)
        /\ UNCHANGED <<written, pc, line, response, output, deaf>>
    BY DEF ReadLine, consumerVars
  <1>2. /\ Len(input') = Len(input) - 1 /\ Len(input) >= 1 /\ Head(input) = input[1]
        /\ \A k \in 1..Len(input') : input'[k] = input[k + 1]
        /\ Len(written) \in Nat /\ Len(input) \in Nat /\ Len(queue) \in Nat /\ Len(output) \in Nat
        /\ Head(input) \in LineType
    BY <1>1 DEF Typed
  <1>3. (Running <=> Running') /\ (Working <=> Working') /\ (Working => Running)
    BY <1>1 DEF Running, Working
  <1>4. CASE Running /\ queue' = Append(queue, Head(input))
    <2>1. /\ Len(queue') = Len(queue) + 1 /\ queue'[Len(queue) + 1] = input[1]
          /\ \A k \in 1..Len(queue) : queue'[k] = queue[k]
      BY <1>2, <1>4 DEF Typed
    <2>2. Taken' = Taken /\ Taken \in Int
      BY <1>1, <1>2, <2>1 DEF Taken
    <2>3. LinesWait'
      <3>1. \A k \in 1..Len(queue') : queue'[k] = written'[Taken' + k]
        <4> SUFFICES ASSUME NEW k \in 1..Len(queue') PROVE queue'[k] = written'[Taken' + k]
          OBVIOUS
        <4>1. CASE k \in 1..Len(queue)
          BY <1>1, <1>4, <2>1, <2>2, <4>1 DEF Order, LinesWait
        <4>2. CASE k = Len(queue) + 1
          <5>1. input[1] = written[Taken + Len(queue) + 1]
            BY <1>2, <1>4 DEF Order, LinesWait
          <5>2. Taken + (Len(queue) + 1) = Taken + Len(queue) + 1
            BY <1>2 DEF Taken
          <5> QED
            BY <1>1, <2>1, <2>2, <4>2, <5>1, <5>2
        <4> QED
          BY <1>2, <2>1, <4>1, <4>2
      <3>2. \A k \in 1..Len(input') : input'[k] = written'[Taken' + Len(queue') + k]
        <4> SUFFICES ASSUME NEW k \in 1..Len(input')
                     PROVE  input'[k] = written'[Taken' + Len(queue') + k]
          OBVIOUS
        <4>1. k + 1 \in 1..Len(input) /\ input'[k] = input[k + 1]
          BY <1>2
        <4>2. input[k + 1] = written[Taken + Len(queue) + (k + 1)]
          BY <1>4, <4>1 DEF Order, LinesWait
        <4>3. Taken + Len(queue) + (k + 1) = Taken' + Len(queue') + k
          BY <1>2, <2>1, <2>2
        <4> QED
          BY <1>1, <4>1, <4>2, <4>3
      <3> QED
        BY <1>1, <1>2, <1>3, <1>4, <2>1, <3>1, <3>2 DEF Order, LinesWait
    <2>4. \A k : (Before(k)' <=> Before(k)) /\ (NotBlank(k)' <=> NotBlank(k))
      BY <1>1, <1>3, <2>2 DEF Before, NotBlank
    <2>5. LineIsLast' /\ TakenAreAnswered'
      BY <1>1, <1>3, <2>2, <2>4 DEF Order, LineIsLast, TakenAreAnswered
    <2>6. AnswersInOrder'
      BY <1>1 DEF Order, AnswersInOrder
    <2> QED
      BY <2>3, <2>5, <2>6 DEF Order
  <1>5. CASE ~Running
    <2>1. LinesWait'
      BY <1>1, <1>2, <1>3, <1>5 DEF Order, LinesWait
    <2>2. LineIsLast' /\ TakenAreAnswered'
      BY <1>1, <1>3, <1>5 DEF Order, LineIsLast, TakenAreAnswered, Working, Running
    <2>3. AnswersInOrder'
      BY <1>1 DEF Order, AnswersInOrder
    <2> QED
      BY <2>1, <2>2, <2>3 DEF Order
  <1> QED
    BY <1>4, <1>5 DEF ReadLine

\* The executor takes the first line of the queue; a blank one it is done with.
LEMMA ReceiveKeepsOrder ==
  ASSUME Typed, Order, Receive
  PROVE  Order'
  <1>1. /\ pc = "receive" /\ queue # <<>> /\ queue' = Tail(queue)
        /\ UNCHANGED <<written, input, response, output, deaf>>
    BY DEF Receive, consumerVars
  <1>2. /\ Len(queue') = Len(queue) - 1 /\ Len(queue) >= 1 /\ Head(queue) = queue[1]
        /\ \A k \in 1..Len(queue') : queue'[k] = queue[k + 1]
        /\ Len(written) \in Nat /\ Len(input) \in Nat /\ Len(queue) \in Nat /\ Len(output) \in Nat
    BY <1>1 DEF Typed
  <1>3. Running /\ ~Working
    BY <1>1 DEF Running, Working
  <1>4. Taken' = Taken + 1 /\ Taken \in Int
    BY <1>1, <1>2 DEF Taken
  <1>5. Head(queue) = written[Taken + 1] /\ Taken + 1 \in 1..Len(written)
    BY <1>2, <1>3 DEF Order, LinesWait, Taken
  <1>6. Running'
    BY <1>1 DEF Receive, Running
  <1>7. LinesWait'
    <2>1. \A k \in 1..Len(queue') : queue'[k] = written[Taken + 1 + k]
      <3> SUFFICES ASSUME NEW k \in 1..Len(queue') PROVE queue'[k] = written[Taken + 1 + k]
        OBVIOUS
      <3>1. k + 1 \in 1..Len(queue) /\ queue'[k] = queue[k + 1] /\ Taken + (k + 1) = Taken + 1 + k
        BY <1>2, <1>4
      <3> QED
        BY <1>3, <3>1 DEF Order, LinesWait
    <2>2. Taken' + Len(queue') = Taken + Len(queue)
      BY <1>2, <1>4
    <2> QED
      BY <1>1, <1>2, <1>3, <1>4, <2>1, <2>2 DEF Order, LinesWait
  <1>8. AnswersInOrder'
    <2>1. UNCHANGED <<written, output>>
      BY <1>1
    <2> QED
      BY <2>1 DEF Order, AnswersInOrder
  <1>9. \A i \in 1..Len(output) : output[i].number \in 1..Len(written) /\ output[i].number <= Taken
    BY <1>3 DEF Order, AnswersInOrder, TakenAreAnswered, Before
  <1>10. \A k : NotBlank(k)' <=> NotBlank(k)
    BY <1>1 DEF NotBlank
  <1>11. ~deaf => \A k \in 1..Taken : NotBlank(k) => \E i \in 1..Len(output) : output[i].number = k
    BY <1>3, <1>4 DEF Order, TakenAreAnswered, Before
  <1>12. CASE Head(queue).kind = "blank"
    <2>1. UNCHANGED pc
      BY <1>12 DEF Receive
    <2>2. ~Working'
      BY <1>1, <2>1 DEF Working
    <2>3. LineIsLast'
      BY <1>1, <2>1, <2>2 DEF LineIsLast
    <2>4. ~NotBlank(Taken + 1)
      BY <1>5, <1>12 DEF NotBlank
    <2>5. TakenAreAnswered'
      <3>1. \A i \in 1..Len(output) : Before(output[i].number)'
        BY <1>1, <1>4, <1>9, <2>2 DEF Before
      <3>2. ASSUME ~deaf, NEW k \in 1..(Taken + 1), NotBlank(k)
            PROVE  \E i \in 1..Len(output) : output[i].number = k
        BY <1>4, <1>11, <2>4, <3>2
      <3> QED
        BY <1>1, <1>4, <1>10, <3>1, <3>2 DEF TakenAreAnswered
    <2> QED
      BY <1>7, <1>8, <2>3, <2>5 DEF Order
  <1>13. CASE Head(queue).kind # "blank"
    <2>1. line' = Head(queue) /\ pc' = "handle"
      BY <1>13 DEF Receive
    <2>2. Working'
      BY <2>1 DEF Working
    <2>3. LineIsLast'
      BY <1>1, <1>4, <1>5, <1>13, <2>1 DEF LineIsLast, NotBlank
    <2>4. TakenAreAnswered'
      <3>1. \A i \in 1..Len(output) : Before(output[i].number)'
        BY <1>1, <1>4, <1>9, <2>2 DEF Before
      <3>2. ASSUME ~deaf, NEW k \in 1..(Taken + 1), k < Taken + 1, NotBlank(k)
            PROVE  \E i \in 1..Len(output) : output[i].number = k
        BY <1>4, <1>11, <3>2
      <3>3. \A k : Before(k)' => k < Taken + 1
        BY <1>4, <2>2 DEF Before
      <3> QED
        BY <1>1, <1>4, <1>10, <3>1, <3>2, <3>3 DEF TakenAreAnswered
    <2> QED
      BY <1>7, <1>8, <2>3, <2>4 DEF Order
  <1> QED
    BY <1>12, <1>13

\* The answer to the line in work is the last one, if somebody listens.
LEMMA WriteResponseKeepsOrder ==
  ASSUME Typed, Order, WriteResponse
  PROVE  Order'
  <1>1. /\ pc = "write" /\ pc' \in {"receive", "returned", "maintain"}
        /\ UNCHANGED <<written, input, queue, line, response, deaf>>
    BY DEF WriteResponse, AfterWrite, consumerVars
  <1>2. Len(written) \in Nat /\ Len(input) \in Nat /\ Len(queue) \in Nat /\ Len(output) \in Nat
    BY DEF Typed
  <1>3. Running /\ Working /\ ~Working'
    BY <1>1 DEF Running, Working
  <1>4. Taken' = Taken /\ Taken \in Int
    BY <1>1, <1>2 DEF Taken
  <1>5. /\ Taken \in 1..Len(written) /\ response.number = Taken /\ NotBlank(Taken)
    BY <1>1, <1>3 DEF Order, LineIsLast, LinesWait
  <1>6. \A k : NotBlank(k)' <=> NotBlank(k)
    BY <1>1 DEF NotBlank
  <1>7. LinesWait' /\ LineIsLast'
    BY <1>1, <1>3, <1>4 DEF Order, LinesWait, LineIsLast
  <1>8. \A k : Before(k)' <=> k <= Taken
    BY <1>3, <1>4 DEF Before
  <1>9. \A i \in 1..Len(output) : output[i].number \in 1..Len(written) /\ output[i].number < Taken
    BY <1>3 DEF Order, AnswersInOrder, TakenAreAnswered, Before
  <1>10. CASE deaf
    <2>1. output' = output
      BY <1>10 DEF WriteResponse, Written
    <2>2. AnswersInOrder'
      BY <1>1, <2>1 DEF Order, AnswersInOrder
    <2>3. TakenAreAnswered'
      BY <1>1, <1>4, <1>8, <1>9, <1>10, <2>1 DEF TakenAreAnswered
    <2> QED
      BY <1>7, <2>2, <2>3 DEF Order
  <1>11. CASE ~deaf
    <2>1. output' = Append(output, response)
      BY <1>11 DEF WriteResponse, Written
    <2>2. /\ Len(output') = Len(output) + 1 /\ output'[Len(output) + 1] = response
          /\ \A i \in 1..Len(output) : output'[i] = output[i]
      BY <2>1 DEF Typed
    <2>3. \A k \in 1..Taken : NotBlank(k) => \E i \in 1..Len(output') : output'[i].number = k
      <3> SUFFICES ASSUME NEW k \in 1..Taken, NotBlank(k)
                   PROVE  \E i \in 1..Len(output') : output'[i].number = k
        OBVIOUS
      <3>1. CASE k = Taken
        <4>1. Len(output) + 1 \in 1..Len(output') /\ output'[Len(output) + 1].number = k
          BY <1>2, <1>5, <2>2, <3>1
        <4> QED
          BY <4>1
      <3>2. CASE k < Taken
        <4>1. PICK i \in 1..Len(output) : output[i].number = k
          BY <1>3, <1>11, <3>2 DEF Order, TakenAreAnswered, Before
        <4>2. i \in 1..Len(output') /\ output'[i].number = k
          BY <1>2, <2>2, <4>1
        <4> QED
          BY <4>2
      <3> QED
        BY <1>4, <3>1, <3>2
    <2>4. TakenAreAnswered'
      <3>1. \A i \in 1..Len(output') : output'[i].number <= Taken
        BY <1>2, <1>4, <1>5, <1>9, <2>2
      <3> QED
        BY <1>4, <1>6, <1>8, <2>3, <3>1 DEF TakenAreAnswered
    <2>5. AnswersInOrder'
      <3> DEFINE Follows(out, i) ==
                    /\ out[i].number \in 1..Len(written) /\ NotBlank(out[i].number)
                    /\ \A j \in 1..i - 1 : out[j].number < out[i].number
                    /\ \A k \in 1..out[i].number : NotBlank(k) => \E j \in 1..i : out[j].number = k
      <3>1. Follows(output', Len(output) + 1)
        <4>1. output'[Len(output) + 1].number = Taken
          BY <1>5, <2>2
        <4>2. \A j \in 1..Len(output) : output'[j].number < Taken
          BY <1>9, <2>2
        <4> QED
          BY <1>2, <1>5, <2>2, <2>3, <4>1, <4>2
      <3>2. ASSUME NEW i \in 1..Len(output) PROVE Follows(output', i)
        <4>1. \A j \in 1..i : output'[j] = output[j]
          BY <1>2, <2>2
        <4>2. Follows(output, i)
          BY DEF Order, AnswersInOrder, NotBlank
        <4>3. output'[i] = output[i] /\ \A j \in 1..i - 1 : output'[j] = output[j]
          BY <1>2, <4>1
        <4> QED
          BY <4>1, <4>2, <4>3
      <3> HIDE DEF Follows
      <3>3. \A i \in 1..Len(output') : Follows(output', i)
        BY <1>2, <2>2, <3>1, <3>2
      <3> QED
        BY <1>1, <3>3 DEF AnswersInOrder, Follows, NotBlank
    <2> QED
      BY <1>7, <2>4, <2>5 DEF Order
  <1> QED
    BY <1>10, <1>11

LEMMA OrderStep ==
  ASSUME Typed, Order, [Next]_vars
  PROVE  Order'
  <1>1. CASE (\E kind \in Kind : Write(kind)) \/ ReadLine \/ Receive \/ WriteResponse
    BY <1>1, WriteKeepsOrder, ReadLineKeepsOrder, ReceiveKeepsOrder, WriteResponseKeepsOrder
  <1>2. CASE HangUp \/ StopListening \/ ReadEof \/ Disconnect \/ Handle \/ CheckEof \/ AfterRespond \/ Exit
             \/ UNCHANGED vars
    <2>1. /\ UNCHANGED <<written, input, queue, output, line>> /\ (deaf => deaf')
          /\ \/ UNCHANGED pc
             \/ pc = "receive" /\ pc' = "returned"
             \/ pc = "handle" /\ pc' = "check"
             \/ pc = "check" /\ pc' \in {"returned", "write"}
             \/ pc = "maintain" /\ pc' = "receive"
             \/ pc = "returned" /\ pc' = "exited"
      BY <1>2 DEF HangUp, StopListening, ReadEof, Disconnect, Handle, CheckEof, AfterRespond, Exit,
                  vars, consumerVars, readerVars, daemonVars
    <2>2. (Running' => Running) /\ (Working' => Working) /\ (Running' /\ Working => Working')
      BY <2>1 DEF Running, Working
    <2>3. pc' \in {"check", "write"} => response'.number = line.number
      <3>1. CASE Handle
        BY <3>1 DEF Handle, Respond
      <3>2. CASE ~Handle
        BY <1>2, <2>1, <3>2 DEF HangUp, StopListening, ReadEof, Disconnect, CheckEof, AfterRespond, Exit,
                  vars, Order, LineIsLast
      <3> QED
        BY <3>1, <3>2
    <2> QED
      BY <2>1, <2>2, <2>3, OrderOfVariables
  <1> QED
    BY <1>1, <1>2 DEF Next, Daemon

-----------------------------------------------------------------------------
(* The theorems *)

\* The invariant of the serving loop.
LoopInvariant == Typed /\ LateEnds /\ PruningIsDue /\ MaintainedIsWritten

\* The loop keeps its invariant, whatever the consumer writes and whenever it
\* hangs up or stops reading.
THEOREM ServerInvariant == Spec => []LoopInvariant
  <1>1. Init => LoopInvariant
    BY TypedInitially DEF Init, LoopInvariant, LateEnds, PruningIsDue, MaintainedIsWritten
  <1>2. LoopInvariant /\ [Next]_vars => LoopInvariant'
    BY TypedStep, LoopStep DEF LoopInvariant
  <1> QED
    BY <1>1, <1>2, PTL DEF Spec

\* At most one queued line is handled once the end of stdin is known.
THEOREM AtMostOneLate == Spec => []OneLateRequest
  <1>1. LoopInvariant => OneLateRequest
    BY DEF LoopInvariant, LateEnds, OneLateRequest
  <1> QED
    BY <1>1, ServerInvariant, PTL

\* Pruning follows the answer to its request and precedes the next request.
THEOREM MaintenanceFollowsAnswer == Spec => []RespondThenMaintain
  <1>1. LoopInvariant => RespondThenMaintain
    BY DEF LoopInvariant, PruningIsDue, MaintainedIsWritten, RespondThenMaintain
  <1> QED
    BY <1>1, ServerInvariant, PTL

\* Every line that is not blank gets one answer, in the order of the lines and
\* none left out before another: reader and executor move them through one
\* queue, and the executor answers the line it took before it takes the next.
THEOREM AnswersFollowLines == Spec => []AnswersInOrder
  <1>1. LoopInvariant /\ Order /\ [Next]_vars => Order'
    BY OrderStep DEF LoopInvariant
  <1>2. Order => AnswersInOrder
    BY DEF Order
  <1> QED
    BY <1>1, <1>2, OrderInitially, ServerInvariant, PTL DEF Spec
=============================================================================
