------------------------------ MODULE CallQueue ------------------------------
(***************************************************************************)
(* What the TypeScript daemon client promises to the build tool that calls *)
(* it: calls are numbered in the order they are made, a call is refused at *)
(* once or queued, queued calls are settled first come, first served, each *)
(* once, with its own answer or with an error, and every call is settled.  *)
(* How a client keeps this with daemons that die is DaemonClient.          *)
(***************************************************************************)
EXTENDS Integers, Sequences

CONSTANT MaxCalls   \* bound on the calls made

VARIABLES
    asked,      \* how many calls were made
    queue,      \* the calls still to be settled, oldest first
    answer      \* what each call was settled with

callVars == <<asked, queue, answer>>

Call == 1..MaxCalls
Unsettled == 0
Error == -1

CallInit ==
    /\ asked = 0
    /\ queue = <<>>
    /\ answer = [c \in Call |-> Unsettled]

Accept ==
    /\ asked < MaxCalls
    /\ asked' = asked + 1
    /\ queue' = Append(queue, asked')
    /\ UNCHANGED answer

Refuse ==
    /\ asked < MaxCalls
    /\ asked' = asked + 1
    /\ answer' = [answer EXCEPT ![asked'] = Error]
    /\ UNCHANGED queue

\* An answer is named by the call it answers.
Settle ==
    /\ queue # <<>>
    /\ \E a \in {Head(queue), Error} : answer' = [answer EXCEPT ![Head(queue)] = a]
    /\ queue' = Tail(queue)
    /\ UNCHANGED asked

CallNext == Accept \/ Refuse \/ Settle

CallSpec == CallInit /\ [][CallNext]_callVars /\ WF_callVars(Settle)
=============================================================================
