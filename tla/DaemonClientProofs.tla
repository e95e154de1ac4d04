------------------------- MODULE DaemonClientProofs -------------------------
(***************************************************************************)
(* What DaemonClient guarantees for any number of calls, sessions and      *)
(* faults.  The invariant says of each session what its flags mean for the *)
(* process and for the caller's caches, and of the request in flight that  *)
(* only the head of the chain waits for it, and that no message with its   *)
(* number answers another call.                                            *)
(***************************************************************************)
EXTENDS DaemonClient, SequenceTheorems, TLAPS

Call == [ask : 1..MaxCalls, method : {"work", "shutdown", "restart"}]
Link == [proc : {"none", "running", "exited", "unborn"},
         reaped : BOOLEAN, muted : BOOLEAN, closed : BOOLEAN, killed : BOOLEAN,
         inbox : Seq(Request), outbox : Seq(Line), last : Line, pending : Nat,
         dead : BOOLEAN, failed : BOOLEAN, ending : BOOLEAN]
View == [invalidated : Nat, climbed : Nat, served : BOOLEAN]

Waiting == {"initialize", "request", "goodbye"}

Typed ==
    /\ calls \in 0..MaxCalls /\ answer \in [1..MaxCalls -> Int] /\ chain \in Seq(Call)
    /\ stage \in {"rest", "backoff", "killing"} \cup Waiting
    /\ using \in 0..MaxCalls /\ session \in 0..MaxCalls /\ spawned \in 0..MaxCalls
    /\ reply \in Reply /\ reopening \subseteq 1..MaxCalls
    /\ closing \in BOOLEAN /\ fatal \in BOOLEAN /\ restartLater \in BOOLEAN
    /\ disposed \in {"no", "yes", "overlapping"}
    /\ link \in [Session -> Link] /\ seen \in [Session -> View]
    /\ nextId \in Nat /\ nextId > 0 /\ rung \in Int
    /\ crashes \in Nat /\ strays \in Nat

\* Each call spawns one session at most, so that there is room for it.
Room == Len(chain) + spawned <= calls + (IF stage \in {"initialize", "request"} THEN 1 ELSE 0)

\* The head of the chain is at work unless the task rests, on the newest session or
\* on one that was given up meanwhile.
HeadWorks ==
    /\ stage # "rest" => chain # <<>>
    /\ stage \in {"backoff", "initialize", "request"} => Head(chain).method = "work"
    /\ stage \in {"goodbye", "killing"} => Head(chain).method # "work"
    /\ stage \in {"backoff", "goodbye", "killing"} => session = 0
    /\ stage \in {"rest", "backoff"} <=> using = 0
    /\ using <= spawned /\ session \in {0, spawned}
    /\ reply # NoReply => stage \in Waiting

\* Numbers are used once.
Numbered(l) ==
    /\ l.pending < nextId /\ l.last.id < nextId
    /\ \A i \in 1..Len(l.inbox) : l.inbox[i].id < nextId
    /\ \A i \in 1..Len(l.outbox) : l.outbox[i].id < nextId

\* What has the number of the request in flight is about the call c.
About(l, c) ==
    /\ l.last.id = l.pending => l.last.ask = c
    /\ \A i \in 1..Len(l.inbox) : l.inbox[i].id = l.pending => l.inbox[i].ask = c
    /\ \A i \in 1..Len(l.outbox) : l.outbox[i].id = l.pending => l.outbox[i].ask = c

\* What the flags of a session mean.
Flags(l, v) ==
    /\ l.failed => l.dead
    /\ l.dead => l.failed \/ (l.ending /\ l.proc = "exited")
    /\ l.failed => l.killed \/ l.proc # "running"
    /\ v.invalidated = IF l.failed /\ v.invalidated # 0 THEN 1 ELSE 0
    /\ l.failed => v.invalidated = 1 \/ l.ending

SessionOk(s) ==
    /\ Numbered(link[s]) /\ Flags(link[s], seen[s])
    /\ s > spawned => link[s] = NoSession /\ seen[s] = Unseen
    /\ s <= spawned => link[s].proc # "none"
    /\ s <= spawned /\ s # session => link[s].failed \/ link[s].ending
    /\ s <= spawned /\ s # session /\ link[s].proc = "running" =>
          link[s].killed \/ (s = using /\ stage = "goodbye")
    /\ s = session /\ link[s].pending # 0 => Awaits(s)
    /\ s = using /\ reply # NoReply => link[s].pending = 0
    /\ s = using /\ stage = "request" /\ link[s].pending # 0 => About(link[s], Head(chain).ask)

\* What was answered is what was asked.
Answered ==
    /\ stage = "request" /\ reply.says \in {"result", "refusal", "unsupported"} => reply.ask = Head(chain).ask
    /\ AnswersMatch

\* Only restart opens the client again.
Disposed ==
    disposed = "yes" =>
        /\ closing /\ reopening = {}
        /\ \A i \in 1..Len(chain) : chain[i].method # "restart"
        /\ chain # <<>> => chain[Len(chain)].method = "shutdown"
        /\ chain = <<>> => session = 0

ClientInv ==
    /\ Typed /\ Room /\ HeadWorks /\ Answered /\ Disposed
    /\ \A s \in Session : SessionOk(s)

-----------------------------------------------------------------------------
(* Building blocks *)

LEMMA EmptyIs ==
    ASSUME NEW S, NEW q \in Seq(S)
    PROVE  q = <<>> <=> Len(q) = 0
  BY EmptySeq

LEMMA ChainFacts ==
    ASSUME Typed, chain # <<>>
    PROVE  /\ Head(chain) = chain[1] /\ Head(chain) \in Call /\ Len(chain) \in Nat /\ Len(chain) > 0
           /\ Tail(chain) \in Seq(Call) /\ Len(Tail(chain)) = Len(chain) - 1
           /\ \A i \in 1..Len(Tail(chain)) : Tail(chain)[i] = chain[i + 1]
           /\ Tail(chain) = <<>> <=> Len(chain) = 1
<1>1. /\ Head(chain) = chain[1] /\ Head(chain) \in Call /\ Len(chain) \in Nat /\ Len(chain) > 0
      /\ Tail(chain) \in Seq(Call) /\ Len(Tail(chain)) = Len(chain) - 1
      /\ \A i \in 1..Len(Tail(chain)) : Tail(chain)[i] = chain[i + 1]
  BY DEF Typed
<1>2. Tail(chain) = <<>> <=> Len(Tail(chain)) = 0
  BY <1>1, EmptyIs
<1> QED
  BY <1>1, <1>2

LEMMA SmallFacts ==
    /\ NoReply \in Reply /\ Broken \in Reply /\ Broken # NoReply
    /\ Broken.says = "closed" /\ NoReply.says = "none"
    /\ Garbage \in Line /\ NoSession \in Link /\ Unseen \in View
  BY BoundsAssumption DEF NoReply, Broken, Reply, Garbage, Line, NoSession, Link, Unseen, View

\* Numbers of messages are numbers.
LEMMA LinkFacts ==
    ASSUME NEW l \in Link
    PROVE  /\ l.pending \in Nat /\ l.last \in Line /\ l.last.id \in Nat
           /\ l.inbox \in Seq(Request) /\ l.outbox \in Seq(Line)
           /\ \A i \in 1..Len(l.inbox) : l.inbox[i] \in Request /\ l.inbox[i].id \in Nat
           /\ \A i \in 1..Len(l.outbox) : l.outbox[i] \in Line /\ l.outbox[i].id \in Nat
<1>1. l.pending \in Nat /\ l.last \in Line /\ l.inbox \in Seq(Request) /\ l.outbox \in Seq(Line)
  BY DEF Link
<1>2. \A i \in 1..Len(l.inbox) : l.inbox[i] \in Request
  BY <1>1
<1>3. \A i \in 1..Len(l.outbox) : l.outbox[i] \in Line
  BY <1>1
<1>4. (\A m \in Request : m.id \in Nat) /\ (\A m \in Line : m.id \in Nat)
  BY DEF Request, Line
<1> QED
  BY <1>1, <1>2, <1>3, <1>4

LEMMA ClientInitially == Init => ClientInv
<1> SUFFICES ASSUME Init PROVE ClientInv
  OBVIOUS
<1>1. Typed
  <2>1. /\ calls \in 0..MaxCalls /\ using \in 0..MaxCalls /\ session \in 0..MaxCalls /\ spawned \in 0..MaxCalls
        /\ nextId \in Nat /\ nextId > 0 /\ rung \in Int /\ crashes \in Nat /\ strays \in Nat
    BY BoundsAssumption DEF Init
  <2>2. /\ answer \in [1..MaxCalls -> Int] /\ link \in [Session -> Link] /\ seen \in [Session -> View]
    BY SmallFacts DEF Init, Unsettled
  <2>3. /\ chain \in Seq(Call) /\ reopening \subseteq 1..MaxCalls /\ reply \in Reply
        /\ stage \in {"rest", "backoff", "killing"} \cup Waiting
    BY SmallFacts DEF Init
  <2>4. closing \in BOOLEAN /\ fatal \in BOOLEAN /\ restartLater \in BOOLEAN /\ disposed \in {"no", "yes", "overlapping"}
    BY DEF Init
  <2> QED
    BY <2>1, <2>2, <2>3, <2>4 DEF Typed
<1>2. chain = <<>> /\ Len(chain) = 0
  BY DEF Init
<1>3. Room /\ HeadWorks /\ Disposed
  BY <1>2, BoundsAssumption DEF Init, Room, HeadWorks, Disposed
<1>4. Answered
  BY DEF Init, Answered, AnswersMatch
<1>5. ASSUME NEW s \in Session PROVE SessionOk(s)
  <2>1. link[s] = NoSession /\ seen[s] = Unseen /\ spawned = 0 /\ session = 0 /\ using = 0 /\ nextId = 1 /\ s > 0
    BY <1>5 DEF Init, Session
  <2>2. Numbered(NoSession) /\ Flags(NoSession, Unseen)
    BY <2>1 DEF Numbered, Flags, NoSession, Unseen, Garbage
  <2> QED
    BY <2>1, <2>2 DEF SessionOk, Session
<1> QED
  BY <1>1, <1>3, <1>4, <1>5 DEF ClientInv

\* What #failSession does to session s, which the handler brought to state l.
LEMMA FailSessionIs ==
    ASSUME Typed, NEW s \in Session, NEW l \in Link, NEW r \in Reply, FailSession(s, l, r)
    PROVE  /\ link' \in [Session -> Link] /\ seen' \in [Session -> View]
           /\ \A t \in Session \ {s} : link'[t] = link[t] /\ seen'[t] = seen[t]
           /\ reply' \in Reply /\ rung' \in Int /\ restartLater' \in BOOLEAN
           /\ l.failed => link'[s] = l /\ reply' = r /\ session' = session /\ seen'[s] = seen[s]
           /\ ~l.failed =>
                /\ link'[s] = [l EXCEPT !.failed = TRUE, !.dead = TRUE, !.pending = 0, !.killed = @ \/ ~l.dead]
                /\ reply' = IF l.pending # 0 /\ Awaits(s) THEN Broken ELSE r
                /\ session' = IF session = s THEN 0 ELSE session
                /\ seen'[s] = [seen[s] EXCEPT !.climbed = @ + 1,
                                              !.invalidated = IF l.ending THEN @ ELSE @ + 1]
<1>1. CASE l.failed
  BY <1>1 DEF FailSession, AlreadyFailed, ladderVars, Typed
<1>2. CASE ~l.failed
  <2> DEFINE m == [l EXCEPT !.failed = TRUE, !.dead = TRUE, !.pending = 0, !.killed = @ \/ ~l.dead]
  <2> DEFINE v == [seen[s] EXCEPT !.climbed = @ + 1, !.invalidated = IF l.ending THEN @ ELSE @ + 1]
  <2>1. m \in Link /\ v \in View
    <3>1. (l.killed \/ ~l.dead) \in BOOLEAN
      OBVIOUS
    <3>2. m \in Link
      BY <3>1 DEF Link
    <3>3. seen[s] \in View
      BY DEF Typed
    <3>4. /\ seen[s].climbed + 1 \in Nat
          /\ (IF l.ending THEN seen[s].invalidated ELSE seen[s].invalidated + 1) \in Nat
      BY <3>3 DEF View
    <3>5. v \in View
      BY <3>3, <3>4 DEF View
    <3> QED
      BY <3>2, <3>5
  <2>2. /\ Climb /\ link' = [link EXCEPT ![s] = m]
        /\ reply' = IF l.pending # 0 /\ Awaits(s) THEN Broken ELSE r
        /\ session' = IF session = s THEN 0 ELSE session
    BY <1>2 DEF FailSession, AlreadyFailed
  <2>3. seen' = [seen EXCEPT ![s] = v]
    BY <1>2 DEF FailSession, AlreadyFailed, Invalidates, Typed, View
  <2>4. rung' \in Int /\ restartLater' \in BOOLEAN
    BY <2>2, BoundsAssumption DEF Climb, Typed
  <2> HIDE DEF m, v
  <2>5. link' \in [Session -> Link] /\ seen' \in [Session -> View] /\ link'[s] = m /\ seen'[s] = v
        /\ \A t \in Session \ {s} : link'[t] = link[t] /\ seen'[t] = seen[t]
    BY <2>1, <2>2, <2>3 DEF Typed
  <2>6. reply' \in Reply
    BY <2>2, SmallFacts
  <2> QED
    BY <1>2, <2>2, <2>4, <2>5, <2>6 DEF m, v
<1> QED
  BY <1>1, <1>2

\* What its caller sees of the failure.
LEMMA FailSessionSeen ==
    ASSUME Typed, NEW s \in Session, NEW l \in Link, NEW r \in Reply, FailSession(s, l, r)
    PROVE  /\ \A t \in Session \ {s} : seen'[t] = seen[t]
           /\ l.failed => seen'[s] = seen[s]
BY FailSessionIs

\* Numbers that were used stay so.
LEMMA NumbersStay ==
    ASSUME NEW t \in Session, link[t] \in Link, link'[t] = link[t], Numbered(link[t]),
           nextId \in Nat, nextId' \in Nat, nextId' >= nextId
    PROVE  Numbered(link[t])'
<1>1. link[t].pending < nextId' /\ link[t].last.id < nextId'
  BY LinkFacts DEF Numbered
<1>2. \A i \in 1..Len(link[t].inbox) : link[t].inbox[i].id < nextId'
  BY LinkFacts DEF Numbered
<1>3. \A i \in 1..Len(link[t].outbox) : link[t].outbox[i].id < nextId'
  BY LinkFacts DEF Numbered
<1> QED
  BY <1>1, <1>2, <1>3 DEF Numbered

\* Another session than s is as good as before when it keeps its state, and s
\* neither becomes the session in use nor takes over its request.
LEMMA OthersKeep ==
    ASSUME ClientInv, NEW t \in Session, link'[t] = link[t], seen'[t] = seen[t],
           UNCHANGED <<stage, using, spawned>>, nextId' \in Nat, nextId' >= nextId,
           session' = session \/ (session' = 0 /\ t # session),
           t = using => reply' = reply,
           stage = "request" => Head(chain') = Head(chain)
    PROVE  SessionOk(t)'
<1>1. SessionOk(t) /\ link[t] \in Link /\ nextId \in Nat
  BY DEF ClientInv, Typed
<1>2. Numbered(link[t])'
  BY <1>1, NumbersStay DEF SessionOk
<1>3. Flags(link[t], seen[t])' /\ (\A c : About(link[t], c) => About(link[t], c)')
  BY <1>1 DEF SessionOk, Flags, About
<1>4. Awaits(t)' <=> Awaits(t)
  BY DEF Awaits
<1> QED
  BY <1>1, <1>2, <1>3, <1>4 DEF SessionOk, Session

LEMMA TailOf ==
    ASSUME NEW S, NEW q \in Seq(S), q # <<>>
    PROVE  /\ Tail(q) \in Seq(S) /\ Head(q) = q[1] /\ Head(q) \in S /\ 1 \in 1..Len(q)
           /\ \A i \in 1..Len(Tail(q)) : i + 1 \in 1..Len(q) /\ Tail(q)[i] = q[i + 1]
  OBVIOUS

LEMMA AppendOf ==
    ASSUME NEW S, NEW q \in Seq(S), NEW x \in S
    PROVE  /\ Append(q, x) \in Seq(S) /\ Append(q, x) # <<>>
           /\ \A i \in 1..Len(Append(q, x)) :
                 (i \in 1..Len(q) /\ Append(q, x)[i] = q[i]) \/ Append(q, x)[i] = x
  OBVIOUS

-----------------------------------------------------------------------------
(* Events and the process *)

\* A reply for the head of the chain, if it is an answer, answers its call.
RightReply(r) ==
    stage = "request" /\ r.says \in {"result", "refusal", "unsupported"} => r.ask = Head(chain).ask

\* What an event or the process makes of session s, and of the awaited promise.
Brought(s, l, r) ==
    /\ Numbered(l)
    /\ l.proc # "none" /\ l.proc \in {link[s].proc, "exited"}
    /\ l.failed = link[s].failed /\ l.ending = link[s].ending /\ l.killed = link[s].killed
    /\ link[s].dead => l.dead
    /\ l.pending \in {link[s].pending, 0}
    /\ \A c : l.pending # 0 /\ About(link[s], c) => About(l, c)
    /\ r = reply \/ (Awaits(s) /\ l.pending = 0 /\ RightReply(r))

\* The queue and the task stay as they are.
LEMMA RestKeeps ==
    ASSUME ClientInv, UNCHANGED <<queueVars, stage, using, openVars, fatal, spawned, nextId>>,
           link' \in [Session -> Link], seen' \in [Session -> View],
           reply' \in Reply, RightReply(reply'), reply' # NoReply => reply' = reply \/ stage \in Waiting,
           session' \in {session, 0},
           rung' \in Int, restartLater' \in BOOLEAN, crashes' \in Nat, strays' \in Nat
    PROVE  Typed' /\ Room' /\ HeadWorks' /\ Answered' /\ Disposed'
<1>1. Typed'
  BY BoundsAssumption DEF ClientInv, Typed, queueVars, openVars
<1>2. Room' /\ HeadWorks'
  BY DEF ClientInv, Room, HeadWorks, queueVars
<1>3. Answered' /\ Disposed'
  BY DEF ClientInv, Answered, AnswersMatch, RightReply, Disposed, queueVars, openVars
<1> QED
  BY <1>1, <1>2, <1>3

LEMMA KeepsSession ==
    ASSUME ClientInv, NEW s \in Session, s <= spawned, NEW l \in Link, NEW r \in Reply, Brought(s, l, r),
           l.dead => l.failed \/ (l.ending /\ l.proc = "exited"),
           link' = [link EXCEPT ![s] = l], reply' = r, crashes' \in Nat, strays' \in Nat,
           UNCHANGED <<queueVars, stage, using, openVars, ladderVars, fatal, session, spawned, nextId, seen>>
    PROVE  ClientInv'
<1>1. link' \in [Session -> Link] /\ link'[s] = l /\ (\A t \in Session \ {s} : link'[t] = link[t])
  BY DEF ClientInv, Typed
<1>2. RightReply(r) /\ (r # NoReply => r = reply \/ stage \in Waiting)
  BY DEF Brought, Awaits, Waiting, ClientInv, Answered, RightReply
<1>3. Typed' /\ Room' /\ HeadWorks' /\ Answered' /\ Disposed'
  <2>1. seen' \in [Session -> View] /\ rung' \in Int /\ restartLater' \in BOOLEAN /\ session' \in {session, 0}
    BY DEF ClientInv, Typed, ladderVars
  <2> QED
    BY <1>1, <1>2, <2>1, RestKeeps
<1>4. ASSUME NEW t \in Session \ {s} PROVE SessionOk(t)'
  <2>1. t = using => reply' = reply
    BY <1>4 DEF Brought, Awaits
  <2>2. nextId' \in Nat /\ nextId' >= nextId
    BY DEF ClientInv, Typed
  <2> QED
    BY <1>1, <1>4, <2>1, <2>2, OthersKeep DEF queueVars
<1>5. SessionOk(s)'
  <2>1. SessionOk(s)
    BY DEF ClientInv
  <2>2. Numbered(link[s])'
    BY <1>1 DEF Brought, Numbered
  <2>3. Flags(link[s], seen[s])'
    BY <1>1, <2>1 DEF Brought, Flags, SessionOk
  <2>4. s = using /\ reply' # NoReply => l.pending = 0
    BY <2>1 DEF Brought, SessionOk
  <2>5. s = using /\ stage = "request" /\ l.pending # 0 => About(link[s], Head(chain).ask)'
    <3> SUFFICES ASSUME s = using, stage = "request", l.pending # 0
                 PROVE  About(link[s], Head(chain).ask)'
      OBVIOUS
    <3>1. link[s].pending # 0 /\ About(link[s], Head(chain).ask)
      BY <2>1 DEF Brought, SessionOk
    <3>2. About(l, Head(chain).ask)
      BY <3>1 DEF Brought
    <3> QED
      BY <1>1, <3>2 DEF About, queueVars
  <2>6. /\ s # session => link'[s].failed \/ link'[s].ending
        /\ s # session /\ link'[s].proc = "running" => link'[s].killed \/ (s = using /\ stage = "goodbye")
        /\ s = session /\ link'[s].pending # 0 => Awaits(s)'
        /\ link'[s].proc # "none"
    BY <1>1, <2>1 DEF Brought, SessionOk, Awaits
  <2> QED
    <3>1. s \in Int /\ spawned \in Int /\ ~(s > spawned')
      BY DEF ClientInv, Typed, Session
    <3> QED
      BY <1>1, <2>2, <2>3, <2>4, <2>5, <2>6, <3>1 DEF SessionOk
<1> QED
  BY <1>3, <1>4, <1>5 DEF ClientInv

LEMMA FailsSession ==
    ASSUME ClientInv, NEW s \in Session, s <= spawned, NEW l \in Link, NEW r \in Reply, Brought(s, l, r),
           l.dead => l.failed \/ l.proc = "exited",
           FailSession(s, l, r), UNCHANGED eventFrame
    PROVE  ClientInv'
<1>1. SessionOk(s) /\ Typed
  BY DEF ClientInv
<1> DEFINE m == [l EXCEPT !.failed = TRUE, !.dead = TRUE, !.pending = 0, !.killed = @ \/ ~l.dead]
<1>2. CASE l.failed
  <2>1. UNCHANGED <<ladderVars, session, seen>> /\ link' = [link EXCEPT ![s] = l] /\ reply' = r
    BY <1>2 DEF FailSession, AlreadyFailed
  <2>2. crashes' \in Nat /\ strays' \in Nat
    BY <1>1 DEF Typed, eventFrame, faultVars
  <2> QED
    BY <1>2, <2>1, <2>2, KeepsSession DEF eventFrame
<1>3. CASE ~l.failed
  <2>1. /\ link' \in [Session -> Link] /\ seen' \in [Session -> View]
        /\ \A t \in Session \ {s} : link'[t] = link[t] /\ seen'[t] = seen[t]
        /\ reply' \in Reply /\ rung' \in Int /\ restartLater' \in BOOLEAN
        /\ link'[s] = m
        /\ reply' = IF l.pending # 0 /\ Awaits(s) THEN Broken ELSE r
        /\ session' = IF session = s THEN 0 ELSE session
        /\ seen'[s] = [seen[s] EXCEPT !.climbed = @ + 1,
                                      !.invalidated = IF l.ending THEN @ ELSE @ + 1]
    <3> HIDE DEF m
    <3>1. /\ link' \in [Session -> Link] /\ seen' \in [Session -> View]
          /\ \A t \in Session \ {s} : link'[t] = link[t] /\ seen'[t] = seen[t]
          /\ reply' \in Reply /\ rung' \in Int /\ restartLater' \in BOOLEAN
      BY <1>1, FailSessionIs
    <3>2. /\ link'[s] = [l EXCEPT !.failed = TRUE, !.dead = TRUE, !.pending = 0, !.killed = @ \/ ~l.dead]
          /\ reply' = IF l.pending # 0 /\ Awaits(s) THEN Broken ELSE r
          /\ session' = IF session = s THEN 0 ELSE session
          /\ seen'[s] = [seen[s] EXCEPT !.climbed = @ + 1,
                                        !.invalidated = IF l.ending THEN @ ELSE @ + 1]
      BY <1>1, <1>3, FailSessionIs
    <3> QED
      BY <3>1, <3>2 DEF m
  <2>2. UNCHANGED <<queueVars, stage, using, openVars, fatal, spawned, nextId>> /\ crashes' \in Nat /\ strays' \in Nat
    BY <1>1 DEF eventFrame, faultVars, Typed
  <2>3. RightReply(reply') /\ (reply' # NoReply => reply' = reply \/ stage \in Waiting)
    BY <2>1, SmallFacts DEF Brought, Awaits, Waiting, ClientInv, Answered, RightReply
  <2>4. Typed' /\ Room' /\ HeadWorks' /\ Answered' /\ Disposed'
    BY <2>1, <2>2, <2>3, RestKeeps
  <2>5. ASSUME NEW t \in Session \ {s} PROVE SessionOk(t)'
    <3>1. t = using => reply' = reply
      BY <2>1, <2>5 DEF Brought, Awaits
    <3>2. nextId' \in Nat /\ nextId' >= nextId
      BY <1>1, <2>2 DEF Typed
    <3>3. session' = session \/ (session' = 0 /\ t # session)
      BY <2>1, <2>5
    <3> QED
      BY <2>1, <2>2, <2>5, <3>1, <3>2, <3>3, OthersKeep DEF queueVars
  <2>6. SessionOk(s)'
    <3>1. /\ m.failed /\ m.dead /\ m.pending = 0 /\ m.ending = l.ending /\ m.proc = l.proc
          /\ m.inbox = l.inbox /\ m.outbox = l.outbox /\ m.last = l.last
          /\ m.killed = (l.killed \/ ~l.dead)
      BY DEF Link
    <3>2. nextId \in Nat /\ nextId > 0 /\ nextId' = nextId
      BY <1>1, <2>2 DEF Typed
    <3> HIDE DEF m
    <3>3. Numbered(link[s])'
      BY <2>1, <3>1, <3>2 DEF Brought, Numbered
    <3>4. seen[s].invalidated = 0
      BY <1>1, <1>3 DEF SessionOk, Flags, Brought
    <3>5. seen'[s].invalidated = IF l.ending THEN 0 ELSE 1
      BY <1>1, <2>1, <3>4 DEF Typed, View
    <3>6. Flags(link[s], seen[s])'
      BY <1>3, <2>1, <3>1, <3>5 DEF Flags
    <3>7. link'[s].killed \/ link'[s].proc # "running"
      BY <1>3, <2>1, <3>1
    <3>8. s \in Int /\ spawned \in Int /\ spawned' = spawned /\ ~(s > spawned') /\ session' # s /\ l.proc # "none"
      BY <1>1, <2>1, <2>2 DEF Typed, Session, Brought
    <3> QED
      BY <2>1, <3>1, <3>3, <3>6, <3>7, <3>8 DEF SessionOk
  <2> QED
    BY <2>4, <2>5, <2>6 DEF ClientInv
<1> QED
  BY <1>2, <1>3

LEMMA IsSpawned ==
    ASSUME ClientInv, NEW s \in Session, link[s].proc # "none" \/ link[s].outbox # <<>>
    PROVE  s <= spawned /\ link[s] \in Link /\ link[s].proc # "none"
<1>1. SessionOk(s) /\ Typed
  BY DEF ClientInv
<1>2. link[s] # NoSession
  BY DEF NoSession
<1>3. s \in Int /\ spawned \in Int
  BY <1>1 DEF Typed, Session
<1> QED
  BY <1>1, <1>2, <1>3 DEF SessionOk, Typed

\* No message is sent or taken, and at most the promise of the request in flight is settled.
LEMMA SameMessages ==
    ASSUME ClientInv, NEW s \in Session, NEW l \in Link, link[s] \in Link,
           l.inbox = link[s].inbox, l.outbox = link[s].outbox, l.last = link[s].last,
           l.pending \in {link[s].pending, 0}
    PROVE  /\ Numbered(l)
           /\ \A c : l.pending # 0 /\ About(link[s], c) => About(l, c)
<1>1. Numbered(link[s]) /\ nextId \in Nat /\ nextId > 0
  BY DEF ClientInv, SessionOk, Typed
<1> QED
  BY <1>1 DEF Numbered, About

LEMMA ExitEventKeeps ==
    ASSUME ClientInv, NEW s \in Session, ExitEvent(s)
    PROVE  ClientInv'
<1> DEFINE l == [link[s] EXCEPT !.reaped = TRUE, !.dead = TRUE]
<1>1. s <= spawned /\ link[s] \in Link /\ reply \in Reply
  BY IsSpawned DEF ExitEvent, ClientInv, Typed
<1>2. /\ l \in Link /\ l.proc = "exited" /\ l.dead /\ l.pending = link[s].pending
      /\ l.inbox = link[s].inbox /\ l.outbox = link[s].outbox /\ l.last = link[s].last
      /\ l.failed = link[s].failed /\ l.ending = link[s].ending /\ l.killed = link[s].killed
  BY <1>1 DEF Link, ExitEvent
<1>3. IF l.ending
      THEN link' = [link EXCEPT ![s] = l] /\ UNCHANGED <<reply, session, ladderVars, seen>>
      ELSE FailSession(s, l, reply)
  BY DEF ExitEvent
<1>4. UNCHANGED eventFrame
  BY DEF ExitEvent
<1> HIDE DEF l
<1>5. Brought(s, l, reply)
  BY <1>1, <1>2, SameMessages DEF Brought
<1>6. CASE l.ending
  <2>1. crashes' \in Nat /\ strays' \in Nat
    BY <1>4 DEF ClientInv, Typed, eventFrame, faultVars
  <2> QED
    BY <1>1, <1>2, <1>3, <1>4, <1>5, <1>6, <2>1, KeepsSession DEF eventFrame
<1>7. CASE ~l.ending
  BY <1>1, <1>2, <1>3, <1>4, <1>5, <1>7, FailsSession
<1> QED
  BY <1>6, <1>7

LEMMA ErrorEventKeeps ==
    ASSUME ClientInv, NEW s \in Session, ErrorEvent(s)
    PROVE  ClientInv'
<1> DEFINE l == [link[s] EXCEPT !.reaped = TRUE]
<1>1. s <= spawned /\ link[s] \in Link /\ reply \in Reply
  BY IsSpawned DEF ErrorEvent, ClientInv, Typed
<1>2. /\ l \in Link /\ l.proc = link[s].proc /\ l.dead = link[s].dead /\ l.pending = link[s].pending
      /\ l.inbox = link[s].inbox /\ l.outbox = link[s].outbox /\ l.last = link[s].last
      /\ l.failed = link[s].failed /\ l.ending = link[s].ending /\ l.killed = link[s].killed
  BY <1>1 DEF Link
<1>3. FailSession(s, l, reply) /\ UNCHANGED eventFrame /\ link[s].proc = "unborn"
  BY DEF ErrorEvent
<1> HIDE DEF l
<1>4. Brought(s, l, reply)
  BY <1>1, <1>2, <1>3, SameMessages DEF Brought
<1>5. l.dead => l.failed
  BY <1>2, <1>3 DEF ClientInv, SessionOk, Flags
<1> QED
  BY <1>1, <1>2, <1>3, <1>4, <1>5, FailsSession

LEMMA CloseEventKeeps ==
    ASSUME ClientInv, NEW s \in Session, CloseEvent(s)
    PROVE  ClientInv'
<1> DEFINE l == [link[s] EXCEPT !.closed = TRUE]
<1>1. s <= spawned /\ link[s] \in Link /\ reply \in Reply
  <2>1. CASE link[s].proc = "none"
    <3>1. s > spawned => link[s] = NoSession
      BY DEF ClientInv, SessionOk
    <3>2. s <= spawned => link[s].proc # "none"
      BY DEF ClientInv, SessionOk
    <3>3. s \in Int /\ spawned \in Int
      BY DEF ClientInv, Typed, Session
    <3> QED
      BY <2>1, <3>1, <3>2, <3>3 DEF CloseEvent, NoSession
  <2>2. CASE link[s].proc # "none"
    BY <2>2, IsSpawned DEF ClientInv, Typed
  <2> QED
    BY <2>1, <2>2
<1>2. /\ l \in Link /\ l.proc = link[s].proc /\ l.dead = link[s].dead /\ l.pending = link[s].pending
      /\ l.inbox = link[s].inbox /\ l.outbox = link[s].outbox /\ l.last = link[s].last
      /\ l.failed = link[s].failed /\ l.ending = link[s].ending /\ l.killed = link[s].killed
  BY <1>1 DEF Link
<1>3. /\ UNCHANGED eventFrame
      /\ IF ~l.dead /\ ~l.ending
         THEN FailSession(s, l, reply)
         ELSE link' = [link EXCEPT ![s] = l] /\ UNCHANGED <<reply, session, ladderVars, seen>>
  BY DEF CloseEvent
<1> HIDE DEF l
<1>4. Brought(s, l, reply)
  <2>1. link[s].proc # "none"
    BY <1>1 DEF ClientInv, SessionOk
  <2> QED
    BY <1>1, <1>2, <2>1, SameMessages DEF Brought
<1>5. CASE ~l.dead /\ ~l.ending
  BY <1>1, <1>2, <1>3, <1>4, <1>5, FailsSession
<1>6. CASE l.dead \/ l.ending
  <2>1. crashes' \in Nat /\ strays' \in Nat
    BY <1>3 DEF ClientInv, Typed, eventFrame, faultVars
  <2>2. l.dead => l.failed \/ (l.ending /\ l.proc = "exited")
    BY <1>2 DEF ClientInv, SessionOk, Flags
  <2> QED
    BY <1>1, <1>2, <1>3, <1>4, <1>6, <2>1, <2>2, KeepsSession DEF eventFrame
<1> QED
  BY <1>5, <1>6

LEMMA WriteErrorKeeps ==
    ASSUME ClientInv, NEW s \in Session, WriteError(s)
    PROVE  ClientInv'
<1> DEFINE l == ForgetsPending(link[s])
<1> DEFINE r == IF Awaits(s) THEN Broken ELSE reply
<1>1. s <= spawned /\ link[s] \in Link /\ r \in Reply /\ link[s].proc = "exited"
  BY IsSpawned, SmallFacts DEF WriteError, ClientInv, Typed
<1>2. /\ l \in Link /\ l.proc = link[s].proc /\ l.dead = link[s].dead /\ l.pending = 0
      /\ l.inbox = link[s].inbox /\ l.outbox = link[s].outbox /\ l.last = link[s].last
      /\ l.failed = link[s].failed /\ l.ending = link[s].ending /\ l.killed = link[s].killed
  BY <1>1 DEF Link, ForgetsPending
<1>3. /\ link' = [link EXCEPT ![s] = l] /\ reply' = r
      /\ UNCHANGED <<eventFrame, session, ladderVars, seen>>
  BY DEF WriteError
<1>4. r = reply \/ (Awaits(s) /\ RightReply(r))
  BY SmallFacts DEF RightReply
<1> HIDE DEF l, r
<1>5. Brought(s, l, r)
  BY <1>1, <1>2, <1>4, SameMessages DEF Brought
<1>6. crashes' \in Nat /\ strays' \in Nat
  BY <1>3 DEF ClientInv, Typed, eventFrame, faultVars
<1>7. l.dead => l.failed \/ (l.ending /\ l.proc = "exited")
  BY <1>2 DEF ClientInv, SessionOk, Flags
<1> QED
  BY <1>1, <1>2, <1>3, <1>5, <1>6, <1>7, KeepsSession DEF eventFrame

LEMMA ReceiveKeeps ==
    ASSUME ClientInv, NEW s \in Session, Receive(s)
    PROVE  ClientInv'
<1> DEFINE line == Head(link[s].outbox)
<1> DEFINE l == [link[s] EXCEPT !.outbox = Tail(@)]
<1> DEFINE done == [l EXCEPT !.pending = 0]
<1> DEFINE r == IF Awaits(s) THEN [says |-> line.says, ask |-> line.ask] ELSE reply
<1>1. /\ s <= spawned /\ link[s] \in Link /\ reply \in Reply /\ link[s].proc # "none"
      /\ SessionOk(s) /\ crashes \in Nat /\ strays \in Nat
  BY IsSpawned DEF Receive, ClientInv, Typed
<1>2. /\ Tail(link[s].outbox) \in Seq(Line) /\ line = link[s].outbox[1] /\ line \in Line
      /\ 1 \in 1..Len(link[s].outbox)
      /\ \A i \in 1..Len(Tail(link[s].outbox)) :
            i + 1 \in 1..Len(link[s].outbox) /\ Tail(link[s].outbox)[i] = link[s].outbox[i + 1]
  <2>1. link[s].outbox \in Seq(Line) /\ link[s].outbox # <<>>
    BY <1>1, LinkFacts DEF Receive
  <2> QED
    BY <2>1, TailOf
<1>3. /\ l \in Link /\ l.proc = link[s].proc /\ l.dead = link[s].dead /\ l.pending = link[s].pending
      /\ l.inbox = link[s].inbox /\ l.outbox = Tail(link[s].outbox) /\ l.last = link[s].last
      /\ l.failed = link[s].failed /\ l.ending = link[s].ending /\ l.killed = link[s].killed
  BY <1>1, <1>2 DEF Link
<1>4. /\ done \in Link /\ done.proc = link[s].proc /\ done.dead = link[s].dead /\ done.pending = 0
      /\ done.inbox = link[s].inbox /\ done.outbox = Tail(link[s].outbox) /\ done.last = link[s].last
      /\ done.failed = link[s].failed /\ done.ending = link[s].ending /\ done.killed = link[s].killed
  BY <1>1, <1>2 DEF Link
<1>5. r \in Reply
  BY <1>1, <1>2 DEF Reply, Line
<1>6. /\ UNCHANGED eventFrame
      /\ l.dead => link' = [link EXCEPT ![s] = l] /\ UNCHANGED <<reply, session, ladderVars, seen>>
      /\ ~l.dead /\ ~Answers(line, l) => FailSession(s, l, reply)
      /\ ~l.dead /\ Answers(line, l) /\ line.says = "internal" => FailSession(s, done, r)
      /\ ~l.dead /\ Answers(line, l) /\ line.says # "internal" =>
            link' = [link EXCEPT ![s] = done] /\ reply' = r /\ UNCHANGED <<session, ladderVars, seen>>
  BY DEF Receive
<1>7. Answers(line, l) /\ Awaits(s) => RightReply(r)
  <2> SUFFICES ASSUME Answers(line, l), Awaits(s), stage = "request"
               PROVE  r.ask = Head(chain).ask
    BY DEF RightReply
  <2>1. link[s].pending # 0 /\ line.id = link[s].pending /\ s = using
    BY <1>3 DEF Answers, Awaits
  <2>2. About(link[s], Head(chain).ask)
    BY <1>1, <2>1 DEF SessionOk
  <2>3. line.ask = Head(chain).ask
    BY <1>2, <2>1, <2>2 DEF About
  <2> QED
    BY <2>3
<1>8. ~Awaits(s) => r = reply
  OBVIOUS
<1> HIDE DEF r
<1>9. Brought(s, l, reply) /\ (Answers(line, l) => Brought(s, done, r))
  <2> HIDE DEF line
  <2>1. Numbered(l) /\ Numbered(done)
    <3>1. Numbered(link[s]) /\ 0 < nextId
      BY <1>1 DEF SessionOk, ClientInv, Typed
    <3> HIDE DEF l, done
    <3> QED
      BY <1>2, <1>3, <1>4, <3>1 DEF Numbered
  <2>2. \A c : About(link[s], c) => About(l, c)
    <3> HIDE DEF l
    <3> QED
      BY <1>2, <1>3 DEF About
  <2> HIDE DEF l, done
  <2> QED
    BY <1>1, <1>3, <1>4, <1>7, <1>8, <2>1, <2>2 DEF Brought
<1> HIDE DEF l, done, line
<1>10. crashes' \in Nat /\ strays' \in Nat
  BY <1>1, <1>6 DEF eventFrame, faultVars
<1>11. link[s].dead => link[s].failed \/ (link[s].ending /\ link[s].proc = "exited")
  BY <1>1 DEF SessionOk, Flags
<1>12. CASE l.dead
  <2>1. link' = [link EXCEPT ![s] = l] /\ UNCHANGED <<reply, session, ladderVars, seen>>
    BY <1>6, <1>12
  <2>2. l.dead => l.failed \/ (l.ending /\ l.proc = "exited")
    BY <1>3, <1>11
  <2> QED
    BY <1>1, <1>3, <1>6, <1>9, <1>10, <2>1, <2>2, KeepsSession DEF eventFrame
<1>13. CASE ~l.dead /\ ~Answers(line, l)
  BY <1>1, <1>3, <1>6, <1>9, <1>13, FailsSession
<1>14. CASE ~l.dead /\ Answers(line, l) /\ line.says = "internal"
  BY <1>1, <1>3, <1>4, <1>5, <1>6, <1>9, <1>14, FailsSession
<1>15. CASE ~l.dead /\ Answers(line, l) /\ line.says # "internal"
  <2>1. link' = [link EXCEPT ![s] = done] /\ reply' = r /\ UNCHANGED <<session, ladderVars, seen>>
    BY <1>6, <1>15
  <2>2. ~done.dead
    BY <1>3, <1>4, <1>15
  <2> QED
    BY <1>1, <1>4, <1>5, <1>6, <1>9, <1>10, <1>15, <2>1, <2>2, KeepsSession DEF eventFrame
<1> QED
  BY <1>12, <1>13, <1>14, <1>15

LEMMA EventKeeps ==
    ASSUME ClientInv, NEW s \in Session, Event(s)
    PROVE  ClientInv'
  BY ExitEventKeeps, ErrorEventKeeps, CloseEventKeeps, WriteErrorKeeps, ReceiveKeeps DEF Event

\* The daemon answers what it was asked, and repeats what it said.
LEMMA ProcessKeeps ==
    ASSUME ClientInv, NEW s \in Session, Serve(s) \/ Die(s) \/ Crash(s) \/ Mute(s) \/ Stray(s)
    PROVE  ClientInv'
<1>1. link[s].proc = "running" /\ reply \in Reply /\ crashes \in Nat /\ strays \in Nat
  BY DEF Serve, Die, Crash, Mute, Stray, ClientInv, Typed
<1>2. s <= spawned /\ link[s] \in Link /\ SessionOk(s) /\ link \in [Session -> Link]
  BY <1>1, IsSpawned DEF ClientInv, Typed
<1>3. SUFFICES
        \E l \in Link :
            /\ link' = [link EXCEPT ![s] = l] /\ Numbered(l)
            /\ l.proc \in {"running", "exited"} /\ l.failed = link[s].failed /\ l.ending = link[s].ending
            /\ l.killed = link[s].killed /\ l.dead = link[s].dead /\ l.pending = link[s].pending
            /\ \A c : l.pending # 0 /\ About(link[s], c) => About(l, c)
  <2>1. PICK l \in Link :
            /\ link' = [link EXCEPT ![s] = l] /\ Numbered(l)
            /\ l.proc \in {"running", "exited"} /\ l.failed = link[s].failed /\ l.ending = link[s].ending
            /\ l.killed = link[s].killed /\ l.dead = link[s].dead /\ l.pending = link[s].pending
            /\ \A c : l.pending # 0 /\ About(link[s], c) => About(l, c)
    BY <1>3
  <2>2. Brought(s, l, reply)
    BY <1>1, <2>1 DEF Brought
  <2>3. /\ crashes' \in Nat /\ strays' \in Nat
        /\ UNCHANGED <<queueVars, stage, using, openVars, ladderVars, fatal, session, spawned, nextId, seen>>
        /\ reply' = reply
    <3>1. UNCHANGED processFrame
      BY DEF Serve, Die, Crash, Mute, Stray
    <3>2. crashes' \in Nat /\ strays' \in Nat
      <4>1. CASE Serve(s) \/ Die(s)
        BY <1>1, <4>1 DEF Serve, Die, faultVars
      <4>2. CASE Crash(s) \/ Mute(s) \/ Stray(s)
        BY <1>1, <4>2 DEF Crash, Mute, Stray
      <4> QED
        BY <4>1, <4>2
    <3> QED
      BY <3>1, <3>2 DEF processFrame, taskVars
  <2>4. l.dead => l.failed \/ (l.ending /\ l.proc = "exited")
    BY <1>1, <1>2, <2>1 DEF SessionOk, Flags
  <2> QED
    BY <1>1, <1>2, <2>1, <2>2, <2>3, <2>4, KeepsSession
<1>4. CASE Die(s) \/ Crash(s)
  <2> DEFINE l == [link[s] EXCEPT !.proc = "exited"]
  <2>1. l \in Link /\ link' = [link EXCEPT ![s] = l]
    BY <1>2, <1>4 DEF Die, Crash, Link
  <2>2. l.proc = "exited" /\ l.failed = link[s].failed /\ l.ending = link[s].ending
        /\ l.killed = link[s].killed /\ l.dead = link[s].dead /\ l.pending = link[s].pending
        /\ l.inbox = link[s].inbox /\ l.outbox = link[s].outbox /\ l.last = link[s].last
    BY <1>2 DEF Link
  <2> HIDE DEF l
  <2> QED
    BY <1>2, <2>1, <2>2, SameMessages
<1>5. CASE Mute(s)
  <2> DEFINE l == [link[s] EXCEPT !.muted = TRUE]
  <2>1. l \in Link /\ link' = [link EXCEPT ![s] = l]
    BY <1>2, <1>5 DEF Mute, Link
  <2>2. l.proc = "running" /\ l.failed = link[s].failed /\ l.ending = link[s].ending
        /\ l.killed = link[s].killed /\ l.dead = link[s].dead /\ l.pending = link[s].pending
        /\ l.inbox = link[s].inbox /\ l.outbox = link[s].outbox /\ l.last = link[s].last
    BY <1>1, <1>2 DEF Link
  <2> HIDE DEF l
  <2> QED
    BY <1>2, <2>1, <2>2, SameMessages
<1>6. Numbered(link[s]) /\ nextId \in Nat /\ nextId > 0
  BY <1>2 DEF SessionOk, ClientInv, Typed
<1>7. CASE Stray(s)
  <2>1. PICK line \in {Garbage, link[s].last} : link' = [link EXCEPT ![s].outbox = Append(@, line)]
    BY <1>7 DEF Stray
  <2> DEFINE l == [link[s] EXCEPT !.outbox = Append(@, line)]
  <2>2. line \in Line /\ link[s].outbox \in Seq(Line)
    BY <1>2, SmallFacts, LinkFacts
  <2>3. /\ Append(link[s].outbox, line) \in Seq(Line)
        /\ \A i \in 1..Len(Append(link[s].outbox, line)) :
              \/ i \in 1..Len(link[s].outbox) /\ Append(link[s].outbox, line)[i] = link[s].outbox[i]
              \/ Append(link[s].outbox, line)[i] = line
    BY <2>2, AppendOf
  <2>4. l \in Link /\ link' = [link EXCEPT ![s] = l]
    BY <1>2, <2>1, <2>3 DEF Link
  <2>5. l.proc = "running" /\ l.failed = link[s].failed /\ l.ending = link[s].ending
        /\ l.killed = link[s].killed /\ l.dead = link[s].dead /\ l.pending = link[s].pending
        /\ l.inbox = link[s].inbox /\ l.outbox = Append(link[s].outbox, line) /\ l.last = link[s].last
    BY <1>1, <1>2 DEF Link
  <2>6. line.id < nextId
    BY <1>6, <2>1 DEF Numbered, Garbage
  <2>7. \A c : l.pending # 0 /\ About(link[s], c) /\ line.id = l.pending => line.ask = c
    BY <2>1, <2>5 DEF About, Garbage
  <2> HIDE DEF l
  <2>8. Numbered(l)
    BY <1>6, <2>3, <2>5, <2>6 DEF Numbered
  <2>9. \A c : l.pending # 0 /\ About(link[s], c) => About(l, c)
    <3> SUFFICES ASSUME NEW c, l.pending # 0, About(link[s], c) PROVE About(l, c)
      OBVIOUS
    <3>1. l.last.id = l.pending => l.last.ask = c
      BY <2>3, <2>5, <2>7 DEF About
    <3>2. \A i \in 1..Len(l.inbox) : l.inbox[i].id = l.pending => l.inbox[i].ask = c
      BY <2>3, <2>5, <2>7 DEF About
    <3>3. ASSUME NEW i \in 1..Len(l.outbox), l.outbox[i].id = l.pending PROVE l.outbox[i].ask = c
      <4>1. CASE i \in 1..Len(link[s].outbox) /\ l.outbox[i] = link[s].outbox[i]
        BY <3>3, <4>1, <2>5 DEF About
      <4>2. CASE l.outbox[i] = line
        BY <3>3, <4>2, <2>5, <2>7
      <4> QED
        BY <3>3, <4>1, <4>2, <2>3, <2>5
    <3> QED
      BY <3>1, <3>2, <3>3 DEF About
  <2> QED
    BY <2>4, <2>5, <2>8, <2>9
<1>8. CASE Serve(s)
  <2> DEFINE request == Head(link[s].inbox)
  <2>1. PICK says \in Says(request.method), proc \in {"running", "exited"} :
           link' = [link EXCEPT
               ![s].inbox = Tail(@),
               ![s].outbox = Append(@, [id |-> request.id, says |-> says, ask |-> request.ask]),
               ![s].last = [id |-> request.id, says |-> says, ask |-> request.ask],
               ![s].proc = proc]
    BY <1>8 DEF Serve
  <2> DEFINE line == [id |-> request.id, says |-> says, ask |-> request.ask]
  <2> DEFINE l == [link[s] EXCEPT !.inbox = Tail(@), !.outbox = Append(@, line), !.last = line, !.proc = proc]
  <2>2. /\ Tail(link[s].inbox) \in Seq(Request) /\ request = link[s].inbox[1] /\ request \in Request
        /\ 1 \in 1..Len(link[s].inbox)
        /\ \A i \in 1..Len(Tail(link[s].inbox)) :
              i + 1 \in 1..Len(link[s].inbox) /\ Tail(link[s].inbox)[i] = link[s].inbox[i + 1]
    <3>1. link[s].inbox \in Seq(Request) /\ link[s].inbox # <<>> /\ link[s].outbox \in Seq(Line)
      BY <1>2, <1>8, LinkFacts DEF Serve
    <3> QED
      BY <3>1, TailOf
  <2>3. line \in Line /\ line.id = request.id /\ line.ask = request.ask
    BY <2>1, <2>2 DEF Says, Request, Line
  <2> HIDE DEF line, request
  <2>4. /\ Append(link[s].outbox, line) \in Seq(Line)
        /\ \A i \in 1..Len(Append(link[s].outbox, line)) :
              \/ i \in 1..Len(link[s].outbox) /\ Append(link[s].outbox, line)[i] = link[s].outbox[i]
              \/ Append(link[s].outbox, line)[i] = line
    BY <1>2, <2>3, LinkFacts, AppendOf
  <2>5. l \in Link
    BY <1>2, <2>2, <2>3, <2>4 DEF Link
  <2>6. link' = [link EXCEPT ![s] = l]
    BY <1>2, <2>1 DEF line
  <2>7. l.proc = proc /\ l.failed = link[s].failed /\ l.ending = link[s].ending
        /\ l.killed = link[s].killed /\ l.dead = link[s].dead /\ l.pending = link[s].pending
        /\ l.inbox = Tail(link[s].inbox) /\ l.outbox = Append(link[s].outbox, line) /\ l.last = line
    BY <1>2 DEF Link
  <2> HIDE DEF l
  <2>8. line.id < nextId
    BY <1>6, <2>2, <2>3 DEF Numbered
  <2>9. \A c : l.pending # 0 /\ About(link[s], c) /\ line.id = l.pending => line.ask = c
    BY <2>2, <2>3, <2>7 DEF About
  <2>10. Numbered(l)
    BY <1>6, <2>2, <2>4, <2>7, <2>8 DEF Numbered
  <2>11. \A c : l.pending # 0 /\ About(link[s], c) => About(l, c)
    <3> SUFFICES ASSUME NEW c, l.pending # 0, About(link[s], c) PROVE About(l, c)
      OBVIOUS
    <3>1. l.last.id = l.pending => l.last.ask = c
      BY <2>2, <2>4, <2>7, <2>9 DEF About
    <3>2. \A i \in 1..Len(l.inbox) : l.inbox[i].id = l.pending => l.inbox[i].ask = c
      BY <2>2, <2>4, <2>7, <2>9 DEF About
    <3>3. ASSUME NEW i \in 1..Len(l.outbox), l.outbox[i].id = l.pending PROVE l.outbox[i].ask = c
      <4>1. CASE i \in 1..Len(link[s].outbox) /\ l.outbox[i] = link[s].outbox[i]
        BY <3>3, <4>1, <2>7 DEF About
      <4>2. CASE l.outbox[i] = line
        BY <3>3, <4>2, <2>7, <2>9
      <4> QED
        BY <3>3, <4>1, <4>2, <2>4, <2>7
    <3> QED
      BY <3>1, <3>2, <3>3 DEF About
  <2> QED
    BY <2>1, <2>5, <2>6, <2>7, <2>10, <2>11
<1> QED
  BY <1>4, <1>5, <1>7, <1>8

-----------------------------------------------------------------------------
(* The head of the chain *)

\* What #send makes of session s in state l.
LEMMA SendIs ==
    ASSUME Typed, NEW s \in Session, NEW l \in Link, Numbered(l),
           NEW method \in {"initialize", "work", "shutdown"}, NEW ask \in 0..MaxCalls,
           Send(s, l, method, ask)
    PROVE  \E m \in Link :
              /\ link' = [link EXCEPT ![s] = m] /\ link' \in [Session -> Link]
              /\ nextId' \in Nat /\ nextId' >= nextId /\ nextId' > 0
              /\ m.proc = l.proc /\ m.dead = l.dead /\ m.failed = l.failed
              /\ m.ending = l.ending /\ m.killed = l.killed
              /\ Numbered(m)'
              /\ CanSend(l) => reply' = NoReply /\ m.pending # 0 /\ About(m, ask)
              /\ ~CanSend(l) => reply' = Broken /\ m = l
<1>1. link \in [Session -> Link] /\ nextId \in Nat /\ nextId > 0
  BY DEF Typed
<1>2. CASE ~CanSend(l)
  <2>1. link' = [link EXCEPT ![s] = l] /\ reply' = Broken /\ nextId' = nextId
    BY <1>2 DEF Send
  <2>2. Numbered(l)'
    BY <2>1 DEF Numbered
  <2> WITNESS l \in Link
  <2> QED
    BY <1>1, <1>2, <2>1, <2>2
<1>3. CASE CanSend(l)
  <2> DEFINE q == [id |-> nextId, method |-> method, ask |-> ask]
  <2>1. PICK m : m = [l EXCEPT !.pending = nextId, !.inbox = Append(@, q)]
    OBVIOUS
  <2>2. link' = [link EXCEPT ![s] = m] /\ nextId' = nextId + 1 /\ reply' = NoReply
    BY <1>3, <2>1 DEF Send, Sent
  <2>3. q \in Request /\ q.id = nextId /\ q.ask = ask
    BY <1>1 DEF Request
  <2> HIDE DEF q
  <2>4. /\ Append(l.inbox, q) \in Seq(Request)
        /\ \A i \in 1..Len(Append(l.inbox, q)) :
              \/ i \in 1..Len(l.inbox) /\ Append(l.inbox, q)[i] = l.inbox[i]
              \/ Append(l.inbox, q)[i] = q
    BY <2>3, LinkFacts, AppendOf
  <2>5. /\ m \in Link
        /\ m.pending = nextId /\ m.inbox = Append(l.inbox, q) /\ m.outbox = l.outbox
        /\ m.last = l.last /\ m.proc = l.proc /\ m.dead = l.dead /\ m.failed = l.failed
        /\ m.ending = l.ending /\ m.killed = l.killed
    BY <1>1, <2>1, <2>4 DEF Link
  <2>6. /\ l.last.id \in Nat /\ l.last.id < nextId
        /\ \A i \in 1..Len(l.inbox) : l.inbox[i].id \in Nat /\ l.inbox[i].id < nextId
        /\ \A i \in 1..Len(l.outbox) : l.outbox[i].id \in Nat /\ l.outbox[i].id < nextId
    BY LinkFacts DEF Numbered
  <2>7. m.outbox = l.outbox /\ m.last = l.last /\ m.inbox = Append(l.inbox, q) /\ m.pending = nextId
    BY <2>5
  <2>8. Numbered(m)'
    <3>1. \A i \in 1..Len(m.inbox) : m.inbox[i].id < nextId + 1
      BY <1>1, <2>3, <2>4, <2>6, <2>7
    <3>2. \A i \in 1..Len(m.outbox) : m.outbox[i].id < nextId + 1
      BY <1>1, <2>6, <2>7
    <3>3. m.pending < nextId + 1 /\ m.last.id < nextId + 1
      BY <1>1, <2>6, <2>7
    <3> QED
      BY <2>2, <3>1, <3>2, <3>3 DEF Numbered
  <2>9. About(m, ask)
    <3>1. \A i \in 1..Len(m.inbox) : m.inbox[i].id = nextId => m.inbox[i].ask = ask
      BY <1>1, <2>3, <2>4, <2>6, <2>7
    <3>2. (\A i \in 1..Len(m.outbox) : m.outbox[i].id # nextId) /\ m.last.id # nextId
      BY <1>1, <2>6, <2>7
    <3> QED
      BY <2>7, <3>1, <3>2 DEF About
  <2>10. link' \in [Session -> Link]
    BY <1>1, <2>2, <2>5
  <2>11. m \in Link
    BY <2>5
  <2> WITNESS m \in Link
  <2> QED
    BY <1>1, <1>3, <2>2, <2>5, <2>8, <2>9, <2>10
<1> QED
  BY <1>2, <1>3

\* A session the head of the chain does not use.
LEMMA UnusedSession ==
    ASSUME ClientInv, NEW t \in Session, link'[t] = link[t],
           seen'[t].invalidated = seen[t].invalidated, t > spawned => seen'[t] = seen[t],
           nextId' \in Nat, nextId' >= nextId, spawned' \in Nat, spawned' >= spawned,
           t <= spawned' => t <= spawned,
           t # using', t = session' => link[t].pending = 0,
           t <= spawned /\ t # session' =>
              /\ link[t].failed \/ link[t].ending
              /\ link[t].proc = "running" => link[t].killed
    PROVE  SessionOk(t)'
<1>1. SessionOk(t) /\ link[t] \in Link /\ nextId \in Nat /\ spawned \in Nat /\ t \in Int
  BY DEF ClientInv, Typed, Session
<1>2. Numbered(link[t])'
  BY <1>1, NumbersStay DEF SessionOk
<1>3. Flags(link[t], seen[t])'
  BY <1>1 DEF SessionOk, Flags
<1>4. t > spawned' => t > spawned
  BY <1>1
<1> QED
  BY <1>1, <1>2, <1>3, <1>4 DEF SessionOk

\* The head of the chain is settled.
LEMMA SettleKeeps ==
    ASSUME ClientInv, chain # <<>>, NEW a \in {Error, Head(chain).ask}, Settle(a),
           UNCHANGED <<spawned, nextId, closing, disposed>>, session' \in {session, 0},
           link' \in [Session -> Link], seen' \in [Session -> View],
           rung' \in Int, restartLater' \in BOOLEAN, fatal' \in BOOLEAN, crashes' \in Nat, strays' \in Nat,
           reopening' \subseteq 1..MaxCalls,
           disposed = "yes" => reopening' = {} /\ (Len(chain) = 1 => session' = 0)
    PROVE  Typed' /\ Room' /\ HeadWorks' /\ Answered' /\ Disposed'
<1>1. /\ Head(chain) = chain[1] /\ Head(chain) \in Call /\ Len(chain) \in Nat /\ Len(chain) > 0
      /\ chain' = Tail(chain) /\ chain' \in Seq(Call) /\ Len(chain') = Len(chain) - 1
      /\ \A i \in 1..Len(chain') : chain'[i] = chain[i + 1]
      /\ chain' = <<>> <=> Len(chain) = 1
  BY ChainFacts DEF ClientInv, Settle
<1>2. /\ stage' = "rest" /\ using' = 0 /\ reply' = NoReply /\ calls' = calls
      /\ answer' = [answer EXCEPT ![Head(chain).ask] = a]
  BY DEF Settle
<1>3. /\ Typed
      /\ answer \in [1..MaxCalls -> Int] /\ Head(chain).ask \in 1..MaxCalls /\ a \in Int
      /\ spawned \in Nat /\ calls \in Nat
  <2>1. Typed
    BY DEF ClientInv
  <2>2. Head(chain).ask \in 1..MaxCalls
    BY <1>1 DEF Call
  <2> QED
    BY <2>1, <2>2, BoundsAssumption DEF Typed, Error
<1>4. Typed'
  <2>1. answer' \in [1..MaxCalls -> Int]
    BY <1>2, <1>3
  <2>2. calls' \in 0..MaxCalls /\ using' \in 0..MaxCalls /\ session' \in 0..MaxCalls /\ spawned' \in 0..MaxCalls
    BY <1>2, <1>3, BoundsAssumption DEF Typed
  <2>3. stage' \in {"rest", "backoff", "killing"} \cup Waiting /\ reply' \in Reply
    BY <1>2, SmallFacts
  <2>4. /\ closing' \in BOOLEAN /\ disposed' \in {"no", "yes", "overlapping"}
        /\ nextId' \in Nat /\ nextId' > 0
    BY <1>3 DEF Typed
  <2> QED
    BY <1>1, <2>1, <2>2, <2>3, <2>4 DEF Typed
<1>5. Room'
  BY <1>1, <1>2, <1>3 DEF ClientInv, Room
<1>6. HeadWorks'
  BY <1>2, <1>3 DEF ClientInv, HeadWorks, Typed
<1>7. Answered'
  <2>1. AnswersMatch'
    BY <1>2, <1>3 DEF ClientInv, Answered, AnswersMatch, Error
  <2> QED
    BY <1>2, <2>1 DEF Answered
<1>8. Disposed'
  <2> SUFFICES ASSUME disposed = "yes" PROVE Disposed'
    BY DEF Disposed
  <2>1. closing /\ (\A i \in 1..Len(chain) : chain[i].method # "restart") /\ chain[Len(chain)].method = "shutdown"
    BY DEF ClientInv, Disposed
  <2>2. chain' # <<>> => chain'[Len(chain')] = chain[Len(chain)]
    BY <1>1
  <2>3. \A i \in 1..Len(chain') : chain'[i].method # "restart"
    BY <1>1, <2>1
  <2>4. chain' = <<>> => session' = 0
    BY <1>1
  <2> QED
    BY <2>1, <2>2, <2>3, <2>4 DEF Disposed
<1> QED
  BY <1>4, <1>5, <1>6, <1>7, <1>8

\* Of a rest, of the head of the chain, and of sessions, as the actions need it.
LEMMA HeadFacts ==
    ASSUME ClientInv, chain # <<>>
    PROVE  /\ Head(chain).ask \in 1..MaxCalls /\ Head(chain).ask \in 0..MaxCalls
           /\ Head(chain) = chain[1] /\ Len(chain) \in Nat /\ Len(chain) > 0
           /\ Head(chain).method \in {"work", "shutdown", "restart"}
           /\ disposed = "yes" /\ Head(chain).method = "work" => Len(chain) # 1
<1>1. Typed /\ Disposed
  BY DEF ClientInv
<1>2. Head(chain) = chain[1] /\ Head(chain) \in Call /\ Len(chain) \in Nat /\ Len(chain) > 0
  BY <1>1, ChainFacts
<1> QED
  BY <1>1, <1>2 DEF Call, Disposed

LEMMA OutOfUse ==
    ASSUME ClientInv, NEW t \in Session, t <= spawned
    PROVE  /\ t # session => link[t].failed \/ link[t].ending
           /\ t # session /\ link[t].proc = "running" /\ ~(t = using /\ stage = "goodbye") => link[t].killed
           /\ link[t].dead => link[t].failed \/ (link[t].ending /\ link[t].proc = "exited")
           /\ link[t].failed => link[t].killed \/ link[t].proc # "running"
           /\ t = session /\ ~Awaits(t) => link[t].pending = 0
           /\ t = using /\ reply # NoReply => link[t].pending = 0
  BY DEF ClientInv, SessionOk, Flags

LEMMA StartFatalKeeps ==
    ASSUME ClientInv, StartFatal
    PROVE  ClientInv'
<1>1. /\ stage = "rest" /\ chain # <<>> /\ Head(chain).method = "work" /\ Settle(Error) /\ Typed
      /\ UNCHANGED <<openVars, ladderVars, faultVars, fatal, session, spawned, link, nextId, seen>>
  BY DEF StartFatal, Turn, ClientInv
<1>2. Typed' /\ Room' /\ HeadWorks' /\ Answered' /\ Disposed'
  <2>1. disposed = "yes" => reopening' = {} /\ Len(chain) # 1
    BY <1>1, HeadFacts DEF ClientInv, Disposed, openVars
  <2>2. /\ link' \in [Session -> Link] /\ seen' \in [Session -> View]
        /\ rung' \in Int /\ restartLater' \in BOOLEAN /\ fatal' \in BOOLEAN /\ crashes' \in Nat /\ strays' \in Nat
        /\ reopening' \subseteq 1..MaxCalls /\ session' \in {session, 0}
        /\ UNCHANGED <<spawned, nextId, closing, disposed>>
    BY <1>1 DEF Typed, openVars, ladderVars, faultVars
  <2> QED
    BY <1>1, <2>1, <2>2, SettleKeeps
<1>3. ASSUME NEW t \in Session PROVE SessionOk(t)'
  <2>1. t # using' /\ t \in Int /\ spawned \in Nat /\ nextId \in Nat
    BY <1>1 DEF Session, Settle, Typed
  <2>2. t <= spawned /\ t # session =>
            (link[t].failed \/ link[t].ending) /\ (link[t].proc = "running" => link[t].killed)
    BY <1>1, OutOfUse
  <2>3. t = session => link[t].pending = 0
    BY <1>1 DEF ClientInv, SessionOk, Awaits
  <2> QED
    BY <1>1, <2>1, <2>2, <2>3, UnusedSession
<1> QED
  BY <1>2, <1>3 DEF ClientInv

LEMMA RequestEndsKeeps ==
    ASSUME ClientInv, RequestOk \/ RequestFails
    PROVE  ClientInv'
<1>1. /\ stage = "request" /\ chain # <<>> /\ Head(chain).method = "work" /\ Typed /\ reply # NoReply
      /\ using # 0 /\ using <= spawned
  BY SmallFacts DEF RequestOk, RequestFails, ClientInv, HeadWorks
<1>2. \E a \in {Error, Head(chain).ask} : Settle(a)
  <2>1. CASE RequestOk
    BY <2>1 DEF RequestOk, ClientInv, Answered
  <2>2. CASE RequestFails
    BY <2>2 DEF RequestFails
  <2> QED
    BY <2>1, <2>2
<1>3. /\ UNCHANGED <<openVars, restartLater, faultVars, fatal, session, spawned, link, nextId>>
      /\ rung' \in Int /\ using \in Session /\ spawned \in Nat
  BY <1>1 DEF RequestOk, RequestFails, ladderVars, Typed, Session
<1>4. /\ seen' \in [Session -> View]
      /\ \A t \in Session : seen'[t].invalidated = seen[t].invalidated /\ (t # using => seen'[t] = seen[t])
  <2>1. CASE RequestOk
    <3>1. seen' = [seen EXCEPT ![using].served = TRUE] /\ seen \in [Session -> View]
      BY <1>1, <2>1 DEF RequestOk, Typed
    <3>2. [seen[using] EXCEPT !.served = TRUE] \in View
          /\ [seen[using] EXCEPT !.served = TRUE].invalidated = seen[using].invalidated
      BY <1>3, <3>1 DEF View
    <3> QED
      BY <1>3, <3>1, <3>2
  <2>2. CASE RequestFails
    BY <1>1, <2>2 DEF RequestFails, Typed
  <2> QED
    BY <2>1, <2>2
<1>5. Typed' /\ Room' /\ HeadWorks' /\ Answered' /\ Disposed'
  <2>1. disposed = "yes" => reopening' = {} /\ Len(chain) # 1
    BY <1>1, <1>3, HeadFacts DEF ClientInv, Disposed, openVars
  <2>2. /\ link' \in [Session -> Link]
        /\ restartLater' \in BOOLEAN /\ fatal' \in BOOLEAN /\ crashes' \in Nat /\ strays' \in Nat
        /\ reopening' \subseteq 1..MaxCalls /\ session' \in {session, 0}
        /\ UNCHANGED <<spawned, nextId, closing, disposed>>
    BY <1>1, <1>3 DEF Typed, openVars, faultVars
  <2> QED
    BY <1>1, <1>2, <1>3, <1>4, <2>1, <2>2, SettleKeeps
<1>6. ASSUME NEW t \in Session PROVE SessionOk(t)'
  <2>1. t # using' /\ t \in Int /\ nextId \in Nat
    BY <1>1, <1>2 DEF Session, Settle, Typed
  <2>2. t <= spawned /\ t # session =>
            (link[t].failed \/ link[t].ending) /\ (link[t].proc = "running" => link[t].killed)
    BY <1>1, OutOfUse
  <2>3. t = session => link[t].pending = 0
    BY <1>1 DEF ClientInv, SessionOk, Awaits
  <2>4. t > spawned => seen'[t] = seen[t]
    BY <1>1, <1>4, <2>1, <1>3
  <2> QED
    BY <1>3, <1>4, <2>1, <2>2, <2>3, <2>4, UnusedSession
<1> QED
  BY <1>5, <1>6 DEF ClientInv

LEMMA InitializeFailsKeeps ==
    ASSUME ClientInv, InitializeFails
    PROVE  ClientInv'
<1> DEFINE m == Dismissed(link[using])
<1>1. /\ stage = "initialize" /\ chain # <<>> /\ Head(chain).method = "work" /\ Typed /\ reply # NoReply
      /\ using # 0 /\ using <= spawned /\ Settle(Error)
  BY SmallFacts DEF InitializeFails, ClientInv, HeadWorks
<1>2. /\ UNCHANGED <<openVars, faultVars, spawned, nextId>> /\ fatal' \in BOOLEAN
      /\ link' = [link EXCEPT ![using] = m]
      /\ session' = IF session = using THEN 0 ELSE session
      /\ ClimbUnlessFailed(using)
  BY <1>1 DEF InitializeFails, Typed
<1>3. using \in Session /\ spawned \in Nat /\ nextId \in Nat /\ link[using] \in Link
  BY <1>1 DEF Typed, Session
<1>4. /\ m \in Link /\ m.ending /\ m.killed /\ m.failed = link[using].failed /\ m.dead = link[using].dead
      /\ m.inbox = link[using].inbox /\ m.outbox = link[using].outbox /\ m.last = link[using].last
      /\ m.pending = link[using].pending /\ m.proc = link[using].proc
  BY <1>3 DEF Dismissed, Link
<1> HIDE DEF m
<1>5. link' \in [Session -> Link] /\ link'[using] = m /\ \A t \in Session \ {using} : link'[t] = link[t]
  BY <1>1, <1>2, <1>3, <1>4 DEF Typed
<1>6. /\ seen' \in [Session -> View] /\ rung' \in Int /\ restartLater' \in BOOLEAN
      /\ \A t \in Session : seen'[t].invalidated = seen[t].invalidated /\ (t # using => seen'[t] = seen[t])
  <2>1. CASE link[using].failed
    BY <1>1, <1>2, <2>1 DEF ClimbUnlessFailed, ladderVars, Typed
  <2>2. CASE ~link[using].failed
    <3>1. Climb /\ seen' = [seen EXCEPT ![using].climbed = @ + 1] /\ seen \in [Session -> View]
      BY <1>1, <1>2, <2>2 DEF ClimbUnlessFailed, Typed
    <3>2. [seen[using] EXCEPT !.climbed = @ + 1] \in View
          /\ [seen[using] EXCEPT !.climbed = @ + 1].invalidated = seen[using].invalidated
      BY <1>3, <3>1 DEF View
    <3>3. rung' \in Int /\ restartLater' \in BOOLEAN
      BY <1>1, <3>1, BoundsAssumption DEF Climb, Typed
    <3> QED
      BY <1>3, <3>1, <3>2, <3>3
  <2> QED
    BY <2>1, <2>2
<1>7. Typed' /\ Room' /\ HeadWorks' /\ Answered' /\ Disposed'
  <2>1. disposed = "yes" => reopening' = {} /\ Len(chain) # 1
    BY <1>1, <1>2, HeadFacts DEF ClientInv, Disposed, openVars
  <2>2. /\ crashes' \in Nat /\ strays' \in Nat
        /\ reopening' \subseteq 1..MaxCalls /\ session' \in {session, 0}
        /\ UNCHANGED <<spawned, nextId, closing, disposed>>
    BY <1>1, <1>2 DEF Typed, openVars, faultVars
  <2> QED
    BY <1>1, <1>2, <1>5, <1>6, <2>1, <2>2, SettleKeeps
<1>8. ASSUME NEW t \in Session \ {using} PROVE SessionOk(t)'
  <2>1. t # using' /\ t \in Int
    BY <1>1 DEF Session, Settle
  <2>2. t <= spawned /\ t # session =>
            (link[t].failed \/ link[t].ending) /\ (link[t].proc = "running" => link[t].killed)
    BY <1>1, OutOfUse
  <2>3. t = session => link[t].pending = 0
    BY <1>8 DEF ClientInv, SessionOk, Awaits
  <2>4. t # session' => t # session
    BY <1>2, <1>8
  <2>5. t = session' => t = session
    BY <1>2, <1>8, <2>1 DEF Session
  <2> QED
    BY <1>2, <1>3, <1>5, <1>6, <1>8, <2>1, <2>2, <2>3, <2>4, <2>5, UnusedSession
<1>9. ASSUME NEW s \in Session, s = using PROVE SessionOk(s)'
  <2>1. SessionOk(s) /\ using' = 0 /\ reply' = NoReply /\ stage' = "rest" /\ session' # s
    BY <1>1, <1>2, <1>9 DEF ClientInv, Settle
  <2>2. Numbered(link[s])'
    BY <1>2, <1>4, <1>5, <1>9, <2>1 DEF SessionOk, Numbered
  <2>3. Flags(link[s], seen[s])'
    BY <1>4, <1>5, <1>6, <1>9, <2>1 DEF SessionOk, Flags
  <2>4. link'[s].ending /\ link'[s].killed /\ link'[s].proc # "none" /\ s # using' /\ ~(s > spawned')
    BY <1>1, <1>2, <1>3, <1>4, <1>5, <1>9, <2>1 DEF SessionOk, Session
  <2> QED
    BY <2>1, <2>2, <2>3, <2>4 DEF SessionOk
<1> QED
  BY <1>7, <1>8, <1>9 DEF ClientInv

LEMMA EndShutdownKeeps ==
    ASSUME ClientInv, chain # <<>>, Head(chain).method \in {"shutdown", "restart"}, EndShutdown,
           session' = 0, UNCHANGED link, session # 0 => link[session].dead,
           stage = "goodbye" => link[using].dead
    PROVE  ClientInv'
<1>1. /\ Settle(Head(chain).ask) /\ Typed
      /\ reopening' = IF Head(chain).method = "restart" THEN reopening \cup {Head(chain).ask} ELSE reopening
      /\ UNCHANGED <<closing, disposed, ladderVars, faultVars, fatal, spawned, nextId, seen>>
  BY DEF EndShutdown, ClientInv
<1>2. Typed' /\ Room' /\ HeadWorks' /\ Answered' /\ Disposed'
  <2>1. disposed = "yes" => reopening' = {}
    BY <1>1, HeadFacts DEF ClientInv, Disposed
  <2>2. reopening' \subseteq 1..MaxCalls
    BY <1>1, HeadFacts DEF Typed
  <2>3. /\ link' \in [Session -> Link] /\ seen' \in [Session -> View]
        /\ rung' \in Int /\ restartLater' \in BOOLEAN /\ fatal' \in BOOLEAN /\ crashes' \in Nat /\ strays' \in Nat
        /\ session' \in {session, 0} /\ UNCHANGED <<spawned, nextId, closing, disposed>>
    BY <1>1 DEF Typed, ladderVars, faultVars
  <2>4. Head(chain).ask \in {Error, Head(chain).ask}
    OBVIOUS
  <2> HIDE DEF EndShutdown
  <2> QED
    BY <1>1, <2>1, <2>2, <2>3, <2>4, SettleKeeps
<1>3. ASSUME NEW t \in Session PROVE SessionOk(t)'
  <2>1. t # using' /\ t # session' /\ t \in Int /\ t # 0 /\ spawned \in Nat /\ nextId \in Nat
    BY <1>1 DEF Session, Settle, Typed
  <2>2. t <= spawned => (link[t].failed \/ link[t].ending) /\ (link[t].proc = "running" => link[t].killed)
    BY <2>1, OutOfUse
  <2> QED
    BY <1>1, <2>1, <2>2, UnusedSession
<1> QED
  BY <1>2, <1>3 DEF ClientInv

\* The queue stays, and the head of the chain goes on.
LEMMA QueueKeeps ==
    ASSUME ClientInv, chain # <<>>, UNCHANGED <<queueVars, openVars>>,
           stage' \in {"rest", "backoff", "killing"} \cup Waiting, reply' \in {NoReply, Broken},
           using' \in 0..MaxCalls, session' \in 0..MaxCalls, spawned' \in 0..MaxCalls,
           link' \in [Session -> Link], seen' \in [Session -> View], nextId' \in Nat, nextId' > 0,
           rung' \in Int, restartLater' \in BOOLEAN, fatal' \in BOOLEAN, crashes' \in Nat, strays' \in Nat,
           Len(chain) + spawned' <= calls + (IF stage' \in {"initialize", "request"} THEN 1 ELSE 0)
    PROVE  Typed' /\ Room' /\ Answered' /\ Disposed'
<1>1. Typed'
  <2>1. reply' \in Reply
    BY SmallFacts
  <2> QED
    BY <2>1 DEF ClientInv, Typed, queueVars, openVars
<1>2. Room'
  BY DEF Room, queueVars
<1>3. Answered'
  BY SmallFacts DEF ClientInv, Answered, AnswersMatch, queueVars
<1>4. Disposed'
  BY DEF ClientInv, Disposed, queueVars, openVars
<1> QED
  BY <1>1, <1>2, <1>3, <1>4

LEMMA ShutdownEndsKeeps ==
    ASSUME ClientInv, ShutdownIdle \/ EndKilling \/ (EndGoodbye /\ link[using].dead)
    PROVE  ClientInv'
<1>1. CASE ShutdownIdle
  BY <1>1, EndShutdownKeeps DEF ShutdownIdle, Turn, Live
<1>2. CASE EndKilling
  <2>1. chain # <<>> /\ Head(chain).method # "work" /\ session = 0
    BY <1>2 DEF EndKilling, ClientInv, HeadWorks
  <2> QED
    BY <1>2, <2>1, HeadFacts, EndShutdownKeeps DEF EndKilling
<1>3. CASE EndGoodbye /\ link[using].dead
  <2>1. chain # <<>> /\ Head(chain).method # "work" /\ session = 0
    BY <1>3 DEF EndGoodbye, ClientInv, HeadWorks
  <2> QED
    BY <1>3, <2>1, HeadFacts, EndShutdownKeeps DEF EndGoodbye
<1> QED
  BY <1>1, <1>2, <1>3

LEMMA GoodbyeKillsKeeps ==
    ASSUME ClientInv, EndGoodbye, ~link[using].dead
    PROVE  ClientInv'
<1> DEFINE m == [link[using] EXCEPT !.killed = TRUE]
<1>1. /\ stage = "goodbye" /\ chain # <<>> /\ Head(chain).method # "work" /\ session = 0 /\ Typed /\ Room
      /\ using # 0 /\ using <= spawned
  BY DEF EndGoodbye, ClientInv, HeadWorks
<1>2. /\ link' = [link EXCEPT ![using] = m] /\ stage' = "killing" /\ reply' = NoReply
      /\ UNCHANGED <<queueVars, using, openVars, ladderVars, faultVars, fatal, session, spawned, nextId, seen>>
  BY DEF EndGoodbye
<1>3. using \in Session /\ spawned \in Nat /\ nextId \in Nat /\ link[using] \in Link
  BY <1>1 DEF Typed, Session
<1>4. /\ m \in Link /\ m.ending = link[using].ending /\ m.killed /\ m.failed = link[using].failed
      /\ m.dead = link[using].dead /\ m.inbox = link[using].inbox /\ m.outbox = link[using].outbox
      /\ m.last = link[using].last /\ m.pending = link[using].pending /\ m.proc = link[using].proc
  BY <1>3 DEF Link
<1> HIDE DEF m
<1>5. link' \in [Session -> Link] /\ link'[using] = m /\ \A t \in Session \ {using} : link'[t] = link[t]
  BY <1>1, <1>2, <1>3, <1>4 DEF Typed
<1>6. Typed' /\ Room' /\ Answered' /\ Disposed'
  <2>1. Len(chain) + spawned' <= calls + (IF stage' \in {"initialize", "request"} THEN 1 ELSE 0)
    BY <1>1, <1>2 DEF Room
  <2>2. /\ seen' \in [Session -> View] /\ rung' \in Int /\ restartLater' \in BOOLEAN /\ fatal' \in BOOLEAN
        /\ crashes' \in Nat /\ strays' \in Nat /\ nextId' \in Nat /\ nextId' > 0
        /\ using' \in 0..MaxCalls /\ session' \in 0..MaxCalls /\ spawned' \in 0..MaxCalls
    BY <1>1, <1>2 DEF Typed, ladderVars, faultVars
  <2> QED
    BY <1>1, <1>2, <1>5, <2>1, <2>2, QueueKeeps
<1>7. HeadWorks'
  BY <1>1, <1>2 DEF ClientInv, HeadWorks, queueVars
<1>8. ASSUME NEW t \in Session \ {using} PROVE SessionOk(t)'
  <2>1. t # using' /\ t # session' /\ t # session /\ t \in Int
    BY <1>1, <1>2, <1>8 DEF Session
  <2>2. t <= spawned => (link[t].failed \/ link[t].ending) /\ (link[t].proc = "running" => link[t].killed)
    BY <1>8, <2>1, OutOfUse
  <2> QED
    BY <1>2, <1>3, <1>5, <1>8, <2>1, <2>2, UnusedSession
<1>9. ASSUME NEW s \in Session, s = using PROVE SessionOk(s)'
  <2>1. SessionOk(s) /\ s # session /\ s # 0
    BY <1>1, <1>9 DEF ClientInv, Session
  <2>2. Numbered(link[s])'
    BY <1>2, <1>4, <1>5, <1>9, <2>1 DEF SessionOk, Numbered
  <2>3. Flags(link[s], seen[s])'
    BY <1>2, <1>4, <1>5, <1>9, <2>1 DEF SessionOk, Flags
  <2>4. /\ link'[s].ending \/ link'[s].failed
        /\ link'[s].killed /\ link'[s].proc # "none" /\ ~(s > spawned') /\ s # session'
    BY <1>1, <1>2, <1>3, <1>4, <1>5, <1>9, <2>1 DEF SessionOk, Session
  <2> QED
    BY <1>2, <2>1, <2>2, <2>3, <2>4 DEF SessionOk
<1> QED
  BY <1>6, <1>7, <1>8, <1>9 DEF ClientInv

LEMMA SpawnKeeps ==
    ASSUME ClientInv, chain # <<>>, Head(chain).method = "work", stage \in {"rest", "backoff"},
           session # 0 => link[session].dead, Spawn
    PROVE  ClientInv'
<1>1. /\ Typed /\ Room /\ HeadWorks /\ spawned \in Nat /\ calls \in Nat /\ calls <= MaxCalls
      /\ nextId \in Nat /\ nextId > 0 /\ Len(chain) \in Nat /\ Len(chain) > 0
  BY HeadFacts, BoundsAssumption DEF ClientInv, Typed
<1>2. PICK n \in Session : n = spawned + 1
  BY <1>1, BoundsAssumption DEF Room, Session
<1>3. PICK proc \in {"running", "unborn"} :
        /\ crashes' = IF proc = "unborn" THEN crashes + 1 ELSE crashes
        /\ spawned' = spawned + 1 /\ session' = spawned' /\ using' = spawned' /\ stage' = "initialize"
        /\ restartLater' = FALSE
        /\ Send(spawned', [NoSession EXCEPT !.proc = proc], "initialize", 0)
        /\ UNCHANGED <<queueVars, openVars, rung, strays, fatal, seen>>
  BY DEF Spawn
<1>4. SessionOk(n) /\ link[n] = NoSession /\ seen[n] = Unseen /\ n # 0
  BY <1>1, <1>2 DEF ClientInv, SessionOk, Session
<1> DEFINE l == [NoSession EXCEPT !.proc = proc]
<1>5. /\ l \in Link /\ l.proc = proc /\ ~l.dead /\ ~l.failed /\ ~l.ending /\ ~l.killed /\ l.pending = 0
      /\ l.last = Garbage /\ l.inbox = <<>> /\ l.outbox = <<>>
  BY SmallFacts DEF NoSession, Link
<1> HIDE DEF l
<1>6. Send(n, l, "initialize", 0)
  BY <1>2, <1>3 DEF Send, l
<1>7. Numbered(l) /\ CanSend(l)
  BY <1>1, <1>5 DEF Numbered, CanSend, Garbage
<1>8. PICK m \in Link :
        /\ link' = [link EXCEPT ![n] = m] /\ link' \in [Session -> Link]
        /\ nextId' \in Nat /\ nextId' >= nextId /\ nextId' > 0
        /\ m.proc = l.proc /\ m.dead = l.dead /\ m.failed = l.failed
        /\ m.ending = l.ending /\ m.killed = l.killed
        /\ Numbered(m)' /\ reply' = NoReply
  <2>1. 0 \in 0..MaxCalls
    BY BoundsAssumption
  <2> QED
    BY <1>1, <1>5, <1>6, <1>7, <2>1, SendIs
<1>9. Typed' /\ Room' /\ Answered' /\ Disposed'
  <2>1. Len(chain) + spawned' <= calls + (IF stage' \in {"initialize", "request"} THEN 1 ELSE 0)
    BY <1>1, <1>3 DEF Room
  <2>2. /\ seen' \in [Session -> View] /\ rung' \in Int /\ restartLater' \in BOOLEAN /\ fatal' \in BOOLEAN
        /\ crashes' \in Nat /\ strays' \in Nat
    <3>1. crashes \in Nat /\ crashes' \in {crashes, crashes + 1}
      BY <1>1, <1>3 DEF Typed
    <3>2. /\ seen' \in [Session -> View] /\ rung' \in Int /\ restartLater' \in BOOLEAN /\ fatal' \in BOOLEAN
          /\ strays' \in Nat
      BY <1>1, <1>3 DEF Typed
    <3> QED
      BY <3>1, <3>2
  <2>3. using' \in 0..MaxCalls /\ session' \in 0..MaxCalls /\ spawned' \in 0..MaxCalls
    BY <1>2, <1>3, BoundsAssumption DEF Session
  <2>4. stage' \in {"rest", "backoff", "killing"} \cup Waiting
    BY <1>3 DEF Waiting
  <2> QED
    BY <1>3, <1>8, <2>1, <2>2, <2>3, <2>4, QueueKeeps
<1>10. HeadWorks'
  BY <1>1, <1>3, <1>8 DEF HeadWorks, queueVars, Waiting
<1>11. ASSUME NEW t \in Session \ {n} PROVE SessionOk(t)'
  <2>1. t # using' /\ t # session' /\ t \in Int /\ t # 0 /\ (t <= spawned' => t <= spawned)
    BY <1>1, <1>2, <1>3, <1>11 DEF Session
  <2>2. t <= spawned => (link[t].failed \/ link[t].ending) /\ (link[t].proc = "running" => link[t].killed)
    BY <2>1, OutOfUse
  <2>3. /\ link'[t] = link[t] /\ seen'[t] = seen[t] /\ spawned' \in Nat /\ spawned' >= spawned
        /\ nextId' \in Nat /\ nextId' >= nextId
    BY <1>1, <1>3, <1>8, <1>11 DEF Typed
  <2> QED
    BY <2>1, <2>2, <2>3, <1>11, UnusedSession
<1>12. SessionOk(n)'
  <2>1. link'[n] = m /\ seen'[n] = Unseen /\ session' = n /\ using' = n
    BY <1>1, <1>2, <1>3, <1>4, <1>8 DEF Typed
  <2>2. Numbered(link[n])'
    BY <1>8, <2>1 DEF Numbered
  <2>3. Flags(link[n], seen[n])'
    BY <1>5, <1>8, <2>1 DEF Flags, Unseen
  <2>4. link'[n].proc # "none" /\ ~(n > spawned')
    BY <1>1, <1>2, <1>3, <1>5, <1>8, <2>1
  <2>5. Awaits(n)' /\ reply' = NoReply /\ stage' = "initialize"
    BY <1>3, <1>8, <2>1 DEF Awaits
  <2> QED
    BY <2>1, <2>2, <2>3, <2>4, <2>5 DEF SessionOk
<1> QED
  BY <1>9, <1>10, <1>11, <1>12 DEF ClientInv

LEMMA SpawnsKeep ==
    ASSUME ClientInv, StartSpawn \/ EndBackoff
    PROVE  ClientInv'
<1>1. CASE StartSpawn
  BY <1>1, SpawnKeeps DEF StartSpawn, Turn, Live
<1>2. CASE EndBackoff
  BY <1>2, SpawnKeeps DEF EndBackoff, ClientInv, HeadWorks
<1> QED
  BY <1>1, <1>2

LEMMA StartBackoffKeeps ==
    ASSUME ClientInv, StartBackoff
    PROVE  ClientInv'
<1>1. /\ stage = "rest" /\ chain # <<>> /\ Head(chain).method = "work" /\ Typed /\ Room /\ HeadWorks
      /\ session # 0 => link[session].dead
      /\ session' = 0 /\ stage' = "backoff"
      /\ UNCHANGED <<queueVars, using, reply, openVars, ladderVars, faultVars, fatal,
                     spawned, link, nextId, seen>>
  BY DEF StartBackoff, Turn, Live, ClientInv
<1>2. using = 0 /\ reply = NoReply
  BY <1>1 DEF HeadWorks, Waiting
<1>3. Typed' /\ Room' /\ Answered' /\ Disposed'
  <2>1. Len(chain) + spawned' <= calls + (IF stage' \in {"initialize", "request"} THEN 1 ELSE 0)
    BY <1>1 DEF Room
  <2>2. /\ link' \in [Session -> Link] /\ seen' \in [Session -> View] /\ rung' \in Int
        /\ restartLater' \in BOOLEAN /\ fatal' \in BOOLEAN
        /\ crashes' \in Nat /\ strays' \in Nat /\ nextId' \in Nat /\ nextId' > 0
        /\ using' \in 0..MaxCalls /\ session' \in 0..MaxCalls /\ spawned' \in 0..MaxCalls
    BY <1>1, BoundsAssumption DEF Typed, ladderVars, faultVars
  <2> QED
    BY <1>1, <1>2, <2>1, <2>2, QueueKeeps
<1>4. HeadWorks'
  BY <1>1, <1>2 DEF HeadWorks, queueVars, Waiting
<1>5. ASSUME NEW t \in Session PROVE SessionOk(t)'
  <2>1. t # using' /\ t # session' /\ t \in Int /\ t # 0 /\ spawned \in Nat /\ nextId \in Nat
    BY <1>1, <1>2 DEF Session, Typed
  <2>2. t <= spawned => (link[t].failed \/ link[t].ending) /\ (link[t].proc = "running" => link[t].killed)
    BY <1>1, <2>1, OutOfUse
  <2> QED
    BY <1>1, <2>1, <2>2, UnusedSession
<1> QED
  BY <1>3, <1>4, <1>5 DEF ClientInv

\* A request is sent to session s, which the client has brought to state l.
LEMMA SendsKeep ==
    ASSUME ClientInv, chain # <<>>, NEW s \in Session, s <= spawned,
           NEW l \in Link, Numbered(l), l.pending = 0, l.proc = link[s].proc, l.dead = link[s].dead,
           l.failed = link[s].failed, l.killed = link[s].killed, link[s].ending => l.ending,
           NEW method \in {"work", "shutdown"}, NEW ask \in 0..MaxCalls, Send(s, l, method, ask),
           using' = s, using \in {0, s}, stage # "goodbye", stage' \in {"request", "goodbye"},
           stage' = "request" =>
              session' = session /\ ask = Head(chain).ask /\ Head(chain).method = "work",
           stage' = "goodbye" =>
              session' = 0 /\ session \in {0, s} /\ l.ending /\ Head(chain).method # "work",
           UNCHANGED <<queueVars, openVars, ladderVars, faultVars, fatal, spawned, seen>>
    PROVE  ClientInv'
<1>1. /\ Typed /\ Room /\ HeadWorks /\ SessionOk(s) /\ spawned \in Nat /\ calls \in Nat
      /\ Len(chain) \in Nat /\ s \in Int /\ s # 0
  BY HeadFacts, BoundsAssumption DEF ClientInv, Typed, Session
<1>2. PICK m \in Link :
        /\ link' = [link EXCEPT ![s] = m] /\ link' \in [Session -> Link]
        /\ nextId' \in Nat /\ nextId' >= nextId /\ nextId' > 0
        /\ m.proc = l.proc /\ m.dead = l.dead /\ m.failed = l.failed
        /\ m.ending = l.ending /\ m.killed = l.killed
        /\ Numbered(m)'
        /\ CanSend(l) => reply' = NoReply /\ m.pending # 0 /\ About(m, ask)
        /\ ~CanSend(l) => reply' = Broken /\ m = l
  BY <1>1, SendIs
<1>3. Typed' /\ Room' /\ Answered' /\ Disposed'
  <2>1. Len(chain) + spawned' <= calls + (IF stage' \in {"initialize", "request"} THEN 1 ELSE 0)
    <3>1. CASE stage' = "request"
      BY <1>1, <3>1 DEF Room
    <3>2. CASE stage' = "goodbye"
      BY <1>1, <3>2 DEF Room, HeadWorks
    <3> QED
      BY <3>1, <3>2
  <2>2. /\ seen' \in [Session -> View] /\ rung' \in Int /\ restartLater' \in BOOLEAN /\ fatal' \in BOOLEAN
        /\ crashes' \in Nat /\ strays' \in Nat
    BY <1>1 DEF Typed, ladderVars, faultVars
  <2>3. using' \in 0..MaxCalls /\ session' \in 0..MaxCalls /\ spawned' \in 0..MaxCalls
    BY <1>1, BoundsAssumption DEF Session, Typed
  <2>4. stage' \in {"rest", "backoff", "killing"} \cup Waiting /\ reply' \in {NoReply, Broken}
    BY <1>2 DEF Waiting
  <2> QED
    BY <1>2, <2>1, <2>2, <2>3, <2>4, QueueKeeps
<1>4. HeadWorks'
  <2>1. stage' \in Waiting /\ stage' # "rest" /\ stage' # "backoff" /\ using' # 0
    BY <1>1 DEF Waiting
  <2> QED
    BY <1>1, <2>1 DEF HeadWorks, queueVars
<1>5. ASSUME NEW t \in Session \ {s} PROVE SessionOk(t)'
  <2>1. t # using' /\ t # using /\ t \in Int /\ t # 0
    BY <1>5 DEF Session
  <2>2. t = session' => link[t].pending = 0
    BY <2>1 DEF ClientInv, SessionOk, Awaits
  <2>3. t # session' => t # session
    BY <1>5, <2>1
  <2>4. t <= spawned /\ t # session =>
            (link[t].failed \/ link[t].ending) /\ (link[t].proc = "running" => link[t].killed)
    BY <2>1, OutOfUse
  <2>5. /\ link'[t] = link[t] /\ seen'[t] = seen[t] /\ spawned' \in Nat /\ spawned' >= spawned
    BY <1>1, <1>2, <1>5 DEF Typed
  <2> QED
    BY <1>2, <1>5, <2>1, <2>2, <2>3, <2>4, <2>5, UnusedSession
<1>6. SessionOk(s)'
  <2>1. link'[s] = m /\ seen'[s] = seen[s]
    BY <1>1, <1>2 DEF Typed
  <2>2. Numbered(link[s])'
    BY <1>2, <2>1 DEF Numbered
  <2>3. Flags(link[s], seen[s])'
    BY <1>1, <1>2, <2>1 DEF SessionOk, Flags
  <2>4. ~(s > spawned') /\ link'[s].proc # "none"
    BY <1>1, <1>2, <2>1 DEF SessionOk
  <2>5. s # session' => link'[s].failed \/ link'[s].ending
    BY <1>1, <1>2, <2>1 DEF SessionOk
  <2>6. s # session' /\ link'[s].proc = "running" => link'[s].killed \/ (s = using' /\ stage' = "goodbye")
    BY <1>1, <1>2, <2>1 DEF SessionOk
  <2>7. Awaits(s)'
    BY DEF Awaits
  <2>8. reply' # NoReply => link'[s].pending = 0
    BY <1>2, <2>1
  <2>9. stage' = "request" /\ link'[s].pending # 0 => About(link[s], Head(chain).ask)'
    BY <1>2, <2>1 DEF About, queueVars
  <2> QED
    BY <2>2, <2>3, <2>4, <2>5, <2>6, <2>7, <2>8, <2>9 DEF SessionOk
<1> QED
  BY <1>3, <1>4, <1>5, <1>6 DEF ClientInv

LEMMA RequestsKeep ==
    ASSUME ClientInv, StartLive \/ InitializeOk \/ ShutdownLive
    PROVE  ClientInv'
<1>1. Typed /\ HeadWorks /\ spawned \in Nat
  BY DEF ClientInv, Typed
<1>2. CASE StartLive
  <2>1. /\ stage = "rest" /\ chain # <<>> /\ Head(chain).method = "work" /\ Live(session)
        /\ using' = session /\ stage' = "request"
        /\ Send(session, link[session], "work", Head(chain).ask)
        /\ UNCHANGED <<queueVars, openVars, ladderVars, faultVars, fatal, session, spawned, seen>>
    BY <1>2 DEF StartLive, Turn
  <2>2. PICK s \in Session : s = session
    BY <1>1, <2>1 DEF Live, Typed, Session
  <2>3. /\ s <= spawned /\ link[s] \in Link /\ Numbered(link[s]) /\ using = 0
    BY <1>1, <2>1, <2>2 DEF HeadWorks, Typed, ClientInv, SessionOk, Session
  <2>4. link[s].pending = 0
    BY <2>1, <2>2, <2>3, OutOfUse DEF Awaits
  <2> QED
    BY <2>1, <2>2, <2>3, <2>4, HeadFacts, SendsKeep
<1>3. CASE InitializeOk
  <2>1. /\ stage = "initialize" /\ reply # NoReply /\ stage' = "request"
        /\ Send(using, link[using], "work", Head(chain).ask)
        /\ UNCHANGED <<queueVars, using, openVars, ladderVars, faultVars, fatal, session, spawned, seen>>
    BY <1>3, SmallFacts DEF InitializeOk
  <2>2. chain # <<>> /\ Head(chain).method = "work" /\ using # 0 /\ using <= spawned
    BY <1>1, <2>1 DEF HeadWorks
  <2>3. PICK s \in Session : s = using
    BY <1>1, <2>2 DEF Typed, Session
  <2>4. /\ s <= spawned /\ link[s] \in Link /\ Numbered(link[s]) /\ link[s].pending = 0
    BY <1>1, <2>1, <2>2, <2>3 DEF Typed, ClientInv, SessionOk
  <2> QED
    BY <2>1, <2>2, <2>3, <2>4, HeadFacts, SendsKeep
<1>4. CASE ShutdownLive
  <2>1. /\ stage = "rest" /\ chain # <<>> /\ Head(chain).method # "work" /\ Live(session)
        /\ session' = 0 /\ using' = session /\ stage' = "goodbye"
        /\ Send(session, [link[session] EXCEPT !.ending = TRUE], "shutdown", 0)
        /\ UNCHANGED <<queueVars, openVars, ladderVars, faultVars, fatal, spawned, seen>>
    BY <1>4 DEF ShutdownLive, Turn
  <2>2. PICK s \in Session : s = session
    BY <1>1, <2>1 DEF Live, Typed, Session
  <2>3. s <= spawned /\ link[s] \in Link /\ Numbered(link[s]) /\ using = 0 /\ 0 \in 0..MaxCalls
    BY <1>1, <2>1, <2>2, BoundsAssumption DEF HeadWorks, Typed, ClientInv, SessionOk, Session
  <2>4. link[s].pending = 0
    BY <2>1, <2>2, <2>3, OutOfUse DEF Awaits
  <2> DEFINE l == [link[s] EXCEPT !.ending = TRUE]
  <2>5. /\ l \in Link /\ l.ending /\ l.pending = 0 /\ l.proc = link[s].proc /\ l.dead = link[s].dead
        /\ l.failed = link[s].failed /\ l.killed = link[s].killed
        /\ l.inbox = link[s].inbox /\ l.outbox = link[s].outbox /\ l.last = link[s].last
    BY <2>3, <2>4 DEF Link
  <2>6. Send(s, l, "shutdown", 0)
    BY <2>1, <2>2
  <2> HIDE DEF l
  <2>7. Numbered(l)
    BY <2>3, <2>4, <2>5 DEF Numbered
  <2> QED
    BY <2>1, <2>2, <2>3, <2>5, <2>6, <2>7, SendsKeep
<1> QED
  BY <1>2, <1>3, <1>4

-----------------------------------------------------------------------------
(* Calls *)

LEMMA CallsKeep ==
    ASSUME ClientInv, CallWork \/ \E method \in {"shutdown", "restart"} : CallShutdown(method)
    PROVE  ClientInv'
<1>1. /\ calls < MaxCalls /\ calls' = calls + 1
      /\ UNCHANGED <<taskVars, ladderVars, faultVars, reopening, fatal, session, spawned, link, nextId, seen>>
  BY DEF CallWork, CallShutdown, openVars
<1>2. Typed /\ Room /\ HeadWorks /\ Answered /\ Disposed /\ calls \in Nat /\ calls + 1 \in 1..MaxCalls
  BY <1>1, BoundsAssumption DEF ClientInv, Typed
<1>3. \/ \E method \in {"work", "shutdown", "restart"} :
            chain' = Append(chain, [ask |-> calls + 1, method |-> method]) /\ UNCHANGED answer
      \/ chain' = chain /\ answer' = [answer EXCEPT ![calls + 1] = Error]
  BY <1>1 DEF CallWork, CallShutdown
<1>4. /\ chain' \in Seq(Call) /\ Len(chain') <= Len(chain) + 1 /\ Len(chain) \in Nat /\ Len(chain') \in Nat
      /\ chain # <<>> => chain' # <<>> /\ Head(chain') = Head(chain)
  <2>1. CASE chain' = chain
    BY <1>2, <2>1 DEF Typed
  <2>2. ASSUME NEW method \in {"work", "shutdown", "restart"},
               chain' = Append(chain, [ask |-> calls + 1, method |-> method])
        PROVE  /\ chain' \in Seq(Call) /\ Len(chain') <= Len(chain) + 1 /\ Len(chain) \in Nat /\ Len(chain') \in Nat
               /\ chain # <<>> => chain' # <<>> /\ Head(chain') = Head(chain)
    <3>1. [ask |-> calls + 1, method |-> method] \in Call /\ chain \in Seq(Call)
      BY <1>2 DEF Call, Typed
    <3> QED
      BY <2>2, <3>1
  <2> QED
    BY <1>3, <2>1, <2>2
<1>5. Typed'
  <2>1. answer' \in [1..MaxCalls -> Int]
    BY <1>2, <1>3 DEF Typed, Error
  <2>2. closing' \in BOOLEAN /\ disposed' \in {"no", "yes", "overlapping"}
    BY <1>2 DEF CallWork, CallShutdown, openVars, Typed
  <2>3. calls' \in 0..MaxCalls
    BY <1>1, <1>2
  <2>4. /\ stage' \in {"rest", "backoff", "killing"} \cup Waiting
        /\ using' \in 0..MaxCalls /\ session' \in 0..MaxCalls /\ spawned' \in 0..MaxCalls
        /\ reply' \in Reply /\ reopening' \subseteq 1..MaxCalls
        /\ fatal' \in BOOLEAN /\ restartLater' \in BOOLEAN
        /\ link' \in [Session -> Link] /\ seen' \in [Session -> View]
        /\ nextId' \in Nat /\ nextId' > 0 /\ rung' \in Int /\ crashes' \in Nat /\ strays' \in Nat
    BY <1>1, <1>2 DEF Typed, taskVars, ladderVars, faultVars
  <2> QED
    BY <1>4, <2>1, <2>2, <2>3, <2>4 DEF Typed
<1>6. Room'
  BY <1>1, <1>2, <1>4 DEF Room, taskVars, Typed
<1>7. HeadWorks'
  BY <1>1, <1>2, <1>4 DEF HeadWorks, taskVars
<1>8. Answered'
  <2>1. stage = "request" => chain # <<>>
    BY <1>2 DEF HeadWorks
  <2>2. AnswersMatch'
    BY <1>2, <1>3 DEF Answered, AnswersMatch, Typed, Error
  <2> QED
    BY <1>1, <1>2, <1>4, <2>1, <2>2 DEF Answered, taskVars
<1>9. Disposed'
  <2> SUFFICES ASSUME disposed' = "yes" PROVE Disposed'
    BY DEF Disposed
  <2>1. CASE CallWork
    BY <1>1, <1>2, <2>1 DEF CallWork, Disposed, AssertOpen, openVars
  <2>2. ASSUME NEW method \in {"shutdown", "restart"}, CallShutdown(method) PROVE Disposed'
    <3>1. /\ method = "shutdown" /\ ~Restarting /\ closing' = TRUE
          /\ chain' = Append(chain, [ask |-> calls + 1, method |-> method])
      BY <1>1, <2>2 DEF CallShutdown
    <3>2. reopening = {} /\ \A i \in 1..Len(chain) : chain[i].method # "restart"
      BY <3>1 DEF Restarting
    <3>3. /\ Len(chain') = Len(chain) + 1 /\ chain'[Len(chain')] = [ask |-> calls + 1, method |-> method]
          /\ chain' # <<>> /\ \A i \in 1..Len(chain) : chain'[i] = chain[i]
      BY <1>2, <3>1 DEF Typed
    <3>4. \A i \in 1..Len(chain') : chain'[i].method # "restart"
      BY <1>4, <3>1, <3>2, <3>3
    <3> QED
      BY <1>1, <3>1, <3>2, <3>3, <3>4 DEF Disposed
  <2> QED
    BY <2>1, <2>2
<1>10. ASSUME NEW t \in Session PROVE SessionOk(t)'
  <2>1. stage = "request" => Head(chain') = Head(chain)
    BY <1>2, <1>4 DEF HeadWorks
  <2>2. nextId' \in Nat /\ nextId' >= nextId
    BY <1>1, <1>2 DEF Typed
  <2> QED
    BY <1>1, <2>1, <2>2, OthersKeep DEF taskVars
<1> QED
  BY <1>5, <1>6, <1>7, <1>8, <1>9, <1>10 DEF ClientInv

LEMMA ReopenKeeps ==
    ASSUME ClientInv, NEW ask \in reopening, Reopen(ask)
    PROVE  ClientInv'
<1>1. /\ Typed /\ Room /\ HeadWorks /\ Answered /\ Disposed
      /\ reopening' = reopening \ {ask} /\ closing' = FALSE /\ restartLater' = FALSE /\ rung' = 0
      /\ UNCHANGED <<queueVars, taskVars, faultVars, disposed, fatal, session, spawned, link, nextId, seen>>
  BY DEF ClientInv, Reopen
<1>2. Typed'
  <2>1. closing' \in BOOLEAN /\ restartLater' \in BOOLEAN /\ rung' \in Int
    <3>1. closing' \in BOOLEAN
      BY <1>1
    <3>2. restartLater' \in BOOLEAN
      BY <1>1
    <3>3. rung' \in Int
      BY <1>1
    <3> QED
      BY <3>1, <3>2, <3>3
  <2>3. reopening' \subseteq 1..MaxCalls
    BY <1>1 DEF Typed
  <2>2. UNCHANGED <<calls, answer, chain, stage, using, reply, crashes, strays>>
    BY <1>1 DEF queueVars, taskVars, faultVars
  <2> QED
    BY <1>1, <2>1, <2>2, <2>3 DEF Typed
<1>3. Room' /\ HeadWorks'
  BY <1>1 DEF Room, HeadWorks, queueVars, taskVars
<1>4. Answered'
  BY <1>1 DEF Answered, AnswersMatch, queueVars, taskVars
<1>5. Disposed'
  BY <1>1 DEF Disposed
<1>6. ASSUME NEW t \in Session PROVE SessionOk(t)'
  <2>1. nextId' \in Nat /\ nextId' >= nextId
    BY <1>1 DEF Typed
  <2> QED
    BY <1>1, <2>1, OthersKeep DEF queueVars, taskVars
<1> QED
  BY <1>2, <1>3, <1>4, <1>5, <1>6 DEF ClientInv

LEMMA StutterKeeps ==
    ASSUME ClientInv, UNCHANGED vars
    PROVE  ClientInv'
<1>1. /\ Typed /\ Room /\ HeadWorks /\ Answered /\ Disposed
      /\ UNCHANGED <<queueVars, taskVars, openVars, ladderVars, faultVars, fatal, session, spawned, link, nextId, seen>>
  BY DEF ClientInv, vars
<1>2. Typed'
  BY <1>1 DEF Typed, queueVars, taskVars, openVars, ladderVars, faultVars
<1>3. Room' /\ HeadWorks' /\ Answered' /\ Disposed'
  BY <1>1 DEF Room, HeadWorks, Answered, AnswersMatch, Disposed, queueVars, taskVars, openVars
<1>4. ASSUME NEW t \in Session PROVE SessionOk(t)'
  <2>1. nextId' \in Nat /\ nextId' >= nextId
    BY <1>1 DEF Typed
  <2> QED
    BY <1>1, <2>1, OthersKeep DEF queueVars, taskVars
<1> QED
  BY <1>2, <1>3, <1>4 DEF ClientInv

LEMMA TaskKeeps ==
    ASSUME ClientInv, Task
    PROVE  ClientInv'
<1>1. CASE EndGoodbye
  BY <1>1, ShutdownEndsKeeps, GoodbyeKillsKeeps
<1>2. CASE \E ask \in reopening : Reopen(ask)
  BY <1>2, ReopenKeeps
<1> QED
  BY <1>1, <1>2, StartFatalKeeps, RequestsKeep, StartBackoffKeeps, SpawnsKeep,
     InitializeFailsKeeps, RequestEndsKeeps, ShutdownEndsKeeps DEF Task

\* The inductive invariant of the client, for any number of calls, daemons and faults.
THEOREM ClientInvariant == Spec => []ClientInv
<1>1. Init => ClientInv
  BY ClientInitially
<1>2. ClientInv /\ [Next]_vars => ClientInv'
  <2> SUFFICES ASSUME ClientInv, [Next]_vars PROVE ClientInv'
    OBVIOUS
  <2>1. CASE UNCHANGED vars
    BY <2>1, StutterKeeps
  <2>2. CASE CallWork \/ \E method \in {"shutdown", "restart"} : CallShutdown(method)
    BY <2>2, CallsKeep
  <2>3. CASE Task
    BY <2>3, TaskKeeps
  <2>4. ASSUME NEW s \in Session, Event(s) \/ Serve(s) \/ Die(s) \/ Crash(s) \/ Mute(s) \/ Stray(s)
        PROVE  ClientInv'
    BY <2>4, EventKeeps, ProcessKeeps
  <2> QED
    BY <2>1, <2>2, <2>3, <2>4 DEF Next
<1> QED
  BY <1>1, <1>2, PTL DEF Spec

-----------------------------------------------------------------------------
(* What follows *)

\* A call is settled with its own answer or an error, whatever sessions die and print.
THEOREM AnswersAreOwn == Spec => []AnswersMatch
<1>1. ClientInv => AnswersMatch
  BY DEF ClientInv, Answered
<1> QED
  BY <1>1, ClientInvariant, PTL

\* A call that gets its turn on a live session finds no request in flight there.
THEOREM RequestsNeverOverlap == Spec => []NeverOverlapping
<1>1. ClientInv => NeverOverlapping
  <2> SUFFICES ASSUME ClientInv, stage = "rest", Live(session) PROVE link[session].pending = 0
    BY DEF NeverOverlapping
  <2>1. session \in Session
    BY DEF Live, ClientInv, Typed, Session
  <2> QED
    BY <2>1 DEF ClientInv, SessionOk, Awaits
<1> QED
  BY <1>1, ClientInvariant, PTL

\* Callers with results of a session were told to drop them before the next session.
THEOREM LostSessionsInvalidate == Spec => []CachesDropped
<1>1. ClientInv => CachesDropped
  <2> SUFFICES ASSUME ClientInv, NEW s \in 1..spawned, s < spawned
               PROVE  seen[s].invalidated = 1 \/ link[s].ending
    BY DEF CachesDropped
  <2>1. s \in Session /\ s # session
    BY BoundsAssumption DEF ClientInv, Typed, HeadWorks, Session
  <2>2. s <= spawned
    OBVIOUS
  <2> QED
    BY <2>1, <2>2 DEF ClientInv, SessionOk, Flags
<1> QED
  BY <1>1, ClientInvariant, PTL

\* A session the client let go of has no process that was sent no signal, and
\* after shutdown there is no session.
THEOREM NoProcessStays == Spec => []NothingLeftBehind
<1>1. ClientInv => NothingLeftBehind
  <2> SUFFICES ASSUME ClientInv PROVE NothingLeftBehind
    OBVIOUS
  <2>1. ASSUME NEW s \in 1..spawned, s \notin {session, using}, link[s].proc = "running"
        PROVE  link[s].killed
    <3>1. s \in Session /\ s <= spawned
      BY BoundsAssumption DEF ClientInv, Typed, Session
    <3> QED
      BY <2>1, <3>1, OutOfUse
  <2>2. disposed = "yes" /\ chain = <<>> => session = 0 /\ using = 0
    BY DEF ClientInv, Disposed, HeadWorks
  <2> QED
    BY <2>1, <2>2 DEF NothingLeftBehind
<1> QED
  BY <1>1, ClientInvariant, PTL

\* An event of a session comes after its spawn, and reports a failure or leaves the history.
LEMMA EventReports ==
    ASSUME ClientInv, NEW u \in Session, Event(u)
    PROVE  /\ u <= spawned
           /\ \/ UNCHANGED seen
              \/ \E l \in Link, r \in Reply :
                    l.failed = link[u].failed /\ l.ending = link[u].ending /\ FailSession(u, l, r)
<1>1. Typed /\ link[u] \in Link /\ reply \in Reply /\ spawned \in Nat /\ u \in Int
  BY DEF ClientInv, Typed, Session
<1>2. u <= spawned
  <2>1. link[u] # NoSession
    <3>1. CASE ExitEvent(u) \/ ErrorEvent(u) \/ WriteError(u)
      BY <3>1 DEF ExitEvent, ErrorEvent, WriteError, NoSession
    <3>2. CASE CloseEvent(u)
      BY <3>2 DEF CloseEvent, NoSession
    <3>3. CASE Receive(u)
      BY <3>3 DEF Receive, NoSession
    <3> QED
      BY <3>1, <3>2, <3>3 DEF Event
  <2> QED
    BY <1>1, <2>1 DEF ClientInv, SessionOk
<1>3. CASE ExitEvent(u)
  <2> DEFINE l == [link[u] EXCEPT !.reaped = TRUE, !.dead = TRUE]
  <2>1. l \in Link /\ l.failed = link[u].failed /\ l.ending = link[u].ending
    BY <1>1 DEF Link
  <2>2. UNCHANGED seen \/ FailSession(u, l, reply)
    BY <1>3 DEF ExitEvent
  <2> QED
    BY <1>1, <1>2, <2>1, <2>2
<1>4. CASE ErrorEvent(u)
  <2> DEFINE l == [link[u] EXCEPT !.reaped = TRUE]
  <2>1. l \in Link /\ l.failed = link[u].failed /\ l.ending = link[u].ending
    BY <1>1 DEF Link
  <2>2. FailSession(u, l, reply)
    BY <1>4 DEF ErrorEvent
  <2> QED
    BY <1>1, <1>2, <2>1, <2>2
<1>5. CASE CloseEvent(u)
  <2> DEFINE l == [link[u] EXCEPT !.closed = TRUE]
  <2>1. l \in Link /\ l.failed = link[u].failed /\ l.ending = link[u].ending
    BY <1>1 DEF Link
  <2>2. UNCHANGED seen \/ FailSession(u, l, reply)
    BY <1>5 DEF CloseEvent
  <2> QED
    BY <1>1, <1>2, <2>1, <2>2
<1>6. CASE WriteError(u)
  BY <1>2, <1>6 DEF WriteError
<1>7. CASE Receive(u)
  <2> DEFINE line == Head(link[u].outbox)
  <2> DEFINE l == [link[u] EXCEPT !.outbox = Tail(@)]
  <2> DEFINE done == [l EXCEPT !.pending = 0]
  <2> DEFINE r == IF Awaits(u) THEN [says |-> line.says, ask |-> line.ask] ELSE reply
  <2>1. line \in Line /\ Tail(link[u].outbox) \in Seq(Line)
    <3>1. link[u].outbox \in Seq(Line) /\ link[u].outbox # <<>>
      BY <1>1, <1>7, LinkFacts DEF Receive
    <3> QED
      BY <3>1, TailOf
  <2>2. l \in Link /\ l.failed = link[u].failed /\ l.ending = link[u].ending
    BY <1>1, <2>1 DEF Link
  <2>3. done \in Link /\ done.failed = link[u].failed /\ done.ending = link[u].ending
    BY <1>1, <2>1 DEF Link
  <2>4. r \in Reply
    BY <1>1, <2>1 DEF Reply, Line
  <2>5. UNCHANGED seen \/ FailSession(u, l, reply) \/ FailSession(u, done, r)
    BY <1>7 DEF Receive
  <2> HIDE DEF l, done, r, line
  <2> QED
    BY <1>1, <1>2, <2>2, <2>3, <2>4, <2>5
<1> QED
  BY <1>3, <1>4, <1>5, <1>6, <1>7 DEF Event

\* Only the failure of the newest session invalidates, and once.
LEMMA OnlyFailureInvalidates ==
    ASSUME ClientInv, [Next]_vars, NEW s \in Session, seen'[s].invalidated # seen[s].invalidated
    PROVE  s = session /\ s = spawned /\ seen[s].invalidated = 0
<1>1. Typed /\ HeadWorks /\ SessionOk(s) /\ seen \in [Session -> View] /\ s # 0
  BY DEF ClientInv, Typed, Session
<1>2. PICK u \in Session : Event(u)
  <2>1. CASE CallWork \/ (\E method \in {"shutdown", "restart"} : CallShutdown(method)) \/ UNCHANGED vars
    BY <2>1 DEF CallWork, CallShutdown, vars
  <2>2. CASE Task
    <3>1. CASE RequestOk
      BY <1>1, <3>1 DEF RequestOk, View
    <3>2. CASE InitializeFails
      BY <1>1, <3>2 DEF InitializeFails, ClimbUnlessFailed, View
    <3>3. CASE StartFatal \/ StartLive \/ StartBackoff \/ StartSpawn \/ EndBackoff \/ InitializeOk \/ RequestFails
      BY <3>3 DEF StartFatal, StartLive, StartBackoff, StartSpawn, EndBackoff, Spawn, InitializeOk, RequestFails
    <3>4. CASE ShutdownIdle \/ ShutdownLive \/ EndGoodbye \/ EndKilling \/ (\E ask \in reopening : Reopen(ask))
      BY <3>4 DEF ShutdownIdle, ShutdownLive, EndGoodbye, EndKilling, EndShutdown, Reopen
    <3> QED
      BY <2>2, <3>1, <3>2, <3>3, <3>4 DEF Task
  <2>3. CASE \E u \in Session : Serve(u) \/ Die(u) \/ Crash(u) \/ Mute(u) \/ Stray(u)
    BY <2>3 DEF Serve, Die, Crash, Mute, Stray, processFrame
  <2> QED
    BY <2>1, <2>2, <2>3 DEF Next
<1>3. PICK l \in Link, r \in Reply :
         l.failed = link[u].failed /\ l.ending = link[u].ending /\ FailSession(u, l, r)
  BY <1>2, EventReports
<1>4. u <= spawned
  BY <1>2, EventReports
<1>5. s = u /\ ~l.failed
  <2>1. (\A t \in Session \ {u} : seen'[t] = seen[t]) /\ (l.failed => seen'[u] = seen[u])
    BY <1>1, <1>3, FailSessionSeen
  <2> QED
    BY <2>1
<1>6. ~l.ending
  <2>1. seen'[s] = [seen[s] EXCEPT !.climbed = @ + 1, !.invalidated = IF l.ending THEN @ ELSE @ + 1]
    BY <1>1, <1>3, <1>5, FailSessionIs
  <2> QED
    BY <1>1, <2>1 DEF View
<1> QED
  BY <1>1, <1>3, <1>4, <1>5, <1>6 DEF SessionOk, Flags, HeadWorks

\* onInvalidate runs once for a session, before a later one has answered a call.
THEOREM InvalidationsAreTimely == Spec => InvalidatesInTime
<1>1. ClientInv /\ [Next]_vars =>
        [\A s \in Session :
            seen'[s].invalidated # seen[s].invalidated =>
                /\ seen[s].invalidated = 0
                /\ \A t \in Session : t > s => ~seen[t].served]_vars
  <2> SUFFICES ASSUME ClientInv, [Next]_vars, NEW s \in Session,
                      seen'[s].invalidated # seen[s].invalidated
               PROVE  /\ seen[s].invalidated = 0
                      /\ \A t \in Session : t > s => ~seen[t].served
    OBVIOUS
  <2>1. s = spawned /\ seen[s].invalidated = 0
    BY OnlyFailureInvalidates
  <2>2. \A t \in Session : t > spawned => seen[t] = Unseen
    BY DEF ClientInv, SessionOk
  <2> QED
    BY <2>1, <2>2 DEF Unseen
<1> QED
  BY <1>1, ClientInvariant, PTL DEF Spec, InvalidatesInTime

-----------------------------------------------------------------------------
(* The queue of calls *)

Asks(q) == [i \in 1..Len(q) |-> q[i].ask]

LEMMA AsksFacts ==
    ASSUME NEW q \in Seq(Call)
    PROVE  /\ Asks(q) \in Seq(1..MaxCalls) /\ Len(Asks(q)) = Len(q)
           /\ \A x \in Call : Asks(Append(q, x)) = Append(Asks(q), x.ask)
           /\ q # <<>> => /\ Asks(q) # <<>> /\ Head(Asks(q)) = Head(q).ask
                          /\ Asks(Tail(q)) = Tail(Asks(q))
<1>1. ASSUME NEW p \in Seq(Call)
      PROVE  /\ Asks(p) \in Seq(1..MaxCalls) /\ Len(Asks(p)) = Len(p) /\ Len(p) \in Nat
             /\ \A i \in 1..Len(p) : Asks(p)[i] = p[i].ask
  <2>1. Len(p) \in Nat /\ \A i \in 1..Len(p) : p[i].ask \in 1..MaxCalls
    <3>1. Len(p) \in Nat /\ \A i \in 1..Len(p) : p[i] \in Call
      BY LenProperties, ElementOfSeq
    <3>2. \A x \in Call : x.ask \in 1..MaxCalls
      BY DEF Call
    <3> QED
      BY <3>1, <3>2
  <2>2. Asks(p) \in [1..Len(p) -> 1..MaxCalls]
    BY <2>1 DEF Asks
  <2>3. Asks(p) \in Seq(1..MaxCalls) /\ Len(Asks(p)) = Len(p)
    <3>1. Asks(p) \in Seq(1..MaxCalls)
      <4>1. PICK n \in Nat : n = Len(p)
        BY <2>1
      <4>2. [i \in 1..n |-> p[i].ask] \in Seq(1..MaxCalls)
        BY <2>1, <4>1
      <4> QED
        BY <4>1, <4>2 DEF Asks
    <3>2. DOMAIN Asks(p) = 1..Len(p) /\ DOMAIN Asks(p) = 1..Len(Asks(p)) /\ Len(Asks(p)) \in Nat
      BY <2>2, <3>1, LenProperties
    <3>3. Len(Asks(p)) = Len(p)
      <4>1. Len(p) > 0 => Len(p) \in 1..Len(Asks(p))
        BY <2>1, <3>2
      <4>2. Len(Asks(p)) > 0 => Len(Asks(p)) \in 1..Len(p)
        BY <2>1, <3>2
      <4> QED
        BY <2>1, <3>2, <4>1, <4>2
    <3> QED
      BY <3>1, <3>3
  <2> QED
    BY <2>1, <2>3 DEF Asks
<1>2. ASSUME NEW x \in Call PROVE Asks(Append(q, x)) = Append(Asks(q), x.ask)
  <2>1. Append(q, x) \in Seq(Call) /\ Len(Append(q, x)) = Len(q) + 1 /\ x.ask \in 1..MaxCalls
    BY DEF Call
  <2>2. /\ Append(Asks(q), x.ask) \in Seq(1..MaxCalls) /\ Len(Append(Asks(q), x.ask)) = Len(q) + 1
        /\ \A i \in 1..Len(q) : Append(Asks(q), x.ask)[i] = Asks(q)[i]
        /\ Append(Asks(q), x.ask)[Len(q) + 1] = x.ask
    BY <1>1, <2>1, AppendProperties
  <2>3. Asks(Append(q, x)) \in Seq(1..MaxCalls) /\ Len(Asks(Append(q, x))) = Len(q) + 1
    BY <1>1, <2>1
  <2>4. ASSUME NEW i \in 1..(Len(q) + 1) PROVE Asks(Append(q, x))[i] = Append(Asks(q), x.ask)[i]
    <3>1. Asks(Append(q, x))[i] = Append(q, x)[i].ask
      BY <1>1, <2>1
    <3>2. CASE i = Len(q) + 1
      BY <2>1, <2>2, <3>1, <3>2
    <3>3. CASE i \in 1..Len(q)
      BY <1>1, <2>1, <2>2, <3>1, <3>3
    <3> QED
      BY <1>1, <3>2, <3>3
  <2> QED
    BY <2>2, <2>3, <2>4, SeqEqual
<1>3. ASSUME q # <<>>
      PROVE  /\ Asks(q) # <<>> /\ Head(Asks(q)) = Head(q).ask
             /\ Asks(Tail(q)) = Tail(Asks(q))
  <2>1. /\ Tail(q) \in Seq(Call) /\ Len(Tail(q)) = Len(q) - 1 /\ Len(q) > 0 /\ Head(q) = q[1]
        /\ \A i \in 1..(Len(q) - 1) : Tail(q)[i] = q[i + 1]
    BY <1>3
  <2>2. Asks(q) # <<>> /\ Head(Asks(q)) = Head(q).ask
    BY <1>1, <2>1
  <2>3. /\ Tail(Asks(q)) \in Seq(1..MaxCalls) /\ Len(Tail(Asks(q))) = Len(q) - 1
        /\ \A i \in 1..(Len(q) - 1) : Tail(Asks(q))[i] = Asks(q)[i + 1]
    BY <1>1, <2>2
  <2>4. Asks(Tail(q)) \in Seq(1..MaxCalls) /\ Len(Asks(Tail(q))) = Len(q) - 1
    BY <1>1, <2>1
  <2>5. ASSUME NEW i \in 1..(Len(q) - 1) PROVE Asks(Tail(q))[i] = Tail(Asks(q))[i]
    <3>1. i \in 1..Len(Tail(q)) /\ i + 1 \in 1..Len(q)
      BY <1>1, <2>1
    <3>2. Asks(Tail(q))[i] = q[i + 1].ask
      BY <1>1, <2>1, <3>1
    <3>3. Tail(Asks(q))[i] = q[i + 1].ask
      BY <1>1, <2>3, <3>1
    <3> QED
      BY <3>2, <3>3
  <2> QED
    BY <2>2, <2>3, <2>4, <2>5, SeqEqual
<1> QED
  BY <1>1, <1>2, <1>3

\* A step makes a call, settles the head of the chain, or leaves the queue alone.
LEMMA QueueStep ==
    ASSUME ClientInv, [Next]_vars
    PROVE  \/ UNCHANGED queueVars
           \/ CallWork \/ \E method \in {"shutdown", "restart"} : CallShutdown(method)
           \/ chain # <<>> /\ \E a \in {Error, Head(chain).ask} : Settle(a)
<1>1. CASE Task
  <2>1. CASE RequestOk
    BY <2>1 DEF RequestOk, ClientInv, HeadWorks, Answered
  <2>2. CASE InitializeFails \/ RequestFails \/ StartFatal
    BY <2>2 DEF InitializeFails, RequestFails, StartFatal, Turn, ClientInv, HeadWorks
  <2>3. CASE ShutdownIdle \/ EndGoodbye \/ EndKilling
    BY <2>3 DEF ShutdownIdle, EndGoodbye, EndKilling, EndShutdown, Turn, ClientInv, HeadWorks
  <2>4. CASE StartLive \/ StartBackoff \/ StartSpawn \/ EndBackoff \/ InitializeOk \/ ShutdownLive
    BY <2>4 DEF StartLive, StartBackoff, StartSpawn, EndBackoff, Spawn, InitializeOk, ShutdownLive
  <2>5. CASE \E ask \in reopening : Reopen(ask)
    BY <2>5 DEF Reopen
  <2> QED
    BY <1>1, <2>1, <2>2, <2>3, <2>4, <2>5 DEF Task
<1>2. ASSUME NEW s \in Session, Event(s) \/ Serve(s) \/ Die(s) \/ Crash(s) \/ Mute(s) \/ Stray(s)
      PROVE  UNCHANGED queueVars
  <2>1. CASE Event(s)
    BY <2>1 DEF Event, ExitEvent, ErrorEvent, CloseEvent, WriteError, Receive, eventFrame
  <2> QED
    BY <1>2, <2>1 DEF Serve, Die, Crash, Mute, Stray, processFrame
<1>3. CASE UNCHANGED vars
  BY <1>3 DEF vars
<1> QED
  BY <1>1, <1>2, <1>3 DEF Next

\* Every step is one of the queue of calls, first come, first served, or leaves it alone.
THEOREM CallsAreServedInTurn == Spec => Promise!CallInit /\ [][Promise!CallNext]_(Promise!callVars)
<1>1. Init => Promise!CallInit
  BY DEF Init, Promise!CallInit, Promise!Call, Promise!Unsettled, Unsettled
<1>2. ASSUME ClientInv, ClientInv', [Next]_vars
      PROVE  [Promise!CallNext]_(Promise!callVars)
  <2>1. chain \in Seq(Call) /\ chain' \in Seq(Call) /\ MaxCalls \in Nat
    BY <1>2, BoundsAssumption DEF ClientInv, Typed
  <2>2. CASE UNCHANGED queueVars
    BY <2>2 DEF queueVars, Promise!callVars
  <2>3. ASSUME NEW method \in {"work", "shutdown", "restart"}, calls < MaxCalls, calls' = calls + 1,
               chain' = Append(chain, [ask |-> calls + 1, method |-> method]), UNCHANGED answer
        PROVE  Promise!Accept
    <3>1. [ask |-> calls + 1, method |-> method] \in Call
      BY <1>2, <2>3 DEF ClientInv, Typed, Call
    <3>2. Asks(chain') = Append(Asks(chain), calls + 1)
      BY <2>1, <2>3, <3>1, AsksFacts
    <3> QED
      BY <2>3, <3>2 DEF Promise!Accept, Asks
  <2>4. ASSUME calls < MaxCalls, calls' = calls + 1, UNCHANGED chain,
               answer' = [answer EXCEPT ![calls + 1] = Error]
        PROVE  Promise!Refuse
    BY <2>4 DEF Promise!Refuse, Promise!Error, Error
  <2>5. ASSUME chain # <<>>, NEW a \in {Error, Head(chain).ask}, Settle(a)
        PROVE  Promise!Settle
    <3>1. /\ Asks(chain) # <<>> /\ Head(Asks(chain)) = Head(chain).ask
          /\ Asks(chain') = Tail(Asks(chain))
      BY <2>1, <2>5, AsksFacts DEF Settle
    <3> QED
      BY <2>5, <3>1 DEF Settle, Promise!Settle, Promise!Error, Error, Asks
  <2>6. CASE CallWork \/ \E method \in {"shutdown", "restart"} : CallShutdown(method)
    <3>1. /\ calls < MaxCalls /\ calls' = calls + 1
          /\ \/ \E method \in {"work", "shutdown", "restart"} :
                   chain' = Append(chain, [ask |-> calls + 1, method |-> method]) /\ UNCHANGED answer
             \/ UNCHANGED chain /\ answer' = [answer EXCEPT ![calls + 1] = Error]
      BY <2>6 DEF CallWork, CallShutdown
    <3> QED
      BY <2>3, <2>4, <3>1 DEF Promise!CallNext
  <2> QED
    BY <1>2, <2>2, <2>5, <2>6, QueueStep DEF Promise!CallNext
<1> QED
  BY <1>1, <1>2, ClientInvariant, PTL DEF Spec

-----------------------------------------------------------------------------
(* The ladder, when daemons print nothing but answers *)

\* A request is at one place of its way, unless the process is gone.
Wire(l) ==
    /\ ~l.dead /\ l.outbox # <<>> =>
          /\ Len(l.outbox) = 1 /\ l.pending # 0 /\ l.outbox[1].id = l.pending
          /\ l.inbox = <<>>
    /\ ~l.dead /\ l.inbox # <<>> =>
          /\ l.outbox = <<>>
          /\ l.proc # "exited" => Len(l.inbox) = 1 /\ l.pending # 0 /\ l.inbox[1].id = l.pending

\* A spawn that failed is reported while its initialize is in flight.
Unreported(s) ==
    link[s].proc = "unborn" /\ ~link[s].reaped =>
        /\ using = s /\ stage = "initialize" /\ reply = NoReply
        /\ ~link[s].failed /\ ~link[s].ending /\ ~link[s].muted /\ link[s].outbox = <<>>

\* A session that moved the ladder has failed, or is dismissed and has nothing to say.
Climbs(s) ==
    /\ seen[s].climbed <= 1
    /\ seen[s].climbed = 1 =>
          \/ link[s].failed
          \/ /\ link[s].ending /\ s # session /\ s # using
             /\ link[s].dead \/ link[s].outbox = <<>>
             /\ link[s].inbox = <<>> \/ link[s].proc # "running"

OnLadder(s) == Wire(link[s]) /\ Unreported(s) /\ Climbs(s)
LadderInv == strays = 0 /\ \A s \in Session : OnLadder(s)

\* A session whose state stays.
LEMMA LadderStays ==
    ASSUME LadderInv, NEW t \in Session, link'[t] = link[t], seen'[t].climbed = seen[t].climbed,
           link[t].proc = "unborn" /\ ~link[t].reaped => UNCHANGED <<using, stage, reply>>,
           seen[t].climbed = 1 /\ ~link[t].failed => t # session' /\ t # using'
    PROVE  OnLadder(t)'
<1>1. Wire(link[t]) /\ Unreported(t) /\ Climbs(t)
  BY DEF LadderInv, OnLadder
<1>2. Wire(link[t])'
  BY <1>1 DEF Wire
<1>3. Unreported(t)'
  BY <1>1 DEF Unreported
<1>4. Climbs(t)'
  BY <1>1 DEF Climbs
<1> QED
  BY <1>2, <1>3, <1>4 DEF OnLadder

\* The other sessions, when something happens to s.
LEMMA LadderOthers ==
    ASSUME LadderInv, NEW s \in Session, NEW t \in Session \ {s}, link'[t] = link[t], seen'[t] = seen[t],
           UNCHANGED <<stage, using>>, session' \in {session, 0}, reply' = reply \/ Awaits(s)
    PROVE  OnLadder(t)'
<1>1. Unreported(t) /\ Climbs(t) /\ t # 0
  BY DEF LadderInv, OnLadder, Session
<1>2. link[t].proc = "unborn" /\ ~link[t].reaped => reply' = reply
  BY <1>1 DEF Unreported, Awaits
<1>3. seen[t].climbed = 1 /\ ~link[t].failed => t # session' /\ t # using'
  BY <1>1 DEF Climbs
<1> QED
  BY <1>2, <1>3, LadderStays

LEMMA LadderFails ==
    ASSUME ClientInv, LadderInv, NEW s \in Session, NEW l \in Link, NEW r \in Reply,
           FailSession(s, l, r), UNCHANGED eventFrame, r = reply \/ Awaits(s),
           l.failed = link[s].failed, l.failed => l.dead, l.proc = "unborn" => l.reaped,
           ~l.failed => seen[s].climbed = 0
    PROVE  \A t \in Session : OnLadder(t)'
<1>1. Typed /\ Climbs(s) /\ seen[s] \in View /\ s # 0
  BY DEF ClientInv, Typed, LadderInv, OnLadder, Session
<1>2. /\ \A t \in Session \ {s} : link'[t] = link[t] /\ seen'[t] = seen[t]
      /\ l.failed => link'[s] = l /\ reply' = r /\ session' = session /\ seen'[s] = seen[s]
      /\ ~l.failed =>
           /\ link'[s] = [l EXCEPT !.failed = TRUE, !.dead = TRUE, !.pending = 0, !.killed = @ \/ ~l.dead]
           /\ reply' = IF l.pending # 0 /\ Awaits(s) THEN Broken ELSE r
           /\ session' = IF session = s THEN 0 ELSE session
           /\ seen'[s] = [seen[s] EXCEPT !.climbed = @ + 1,
                                         !.invalidated = IF l.ending THEN @ ELSE @ + 1]
  BY <1>1, FailSessionIs
<1>3. ASSUME NEW t \in Session \ {s} PROVE OnLadder(t)'
  <2>1. session' \in {session, 0} /\ (reply' = reply \/ Awaits(s)) /\ UNCHANGED <<stage, using>>
    BY <1>2 DEF eventFrame
  <2> QED
    BY <1>2, <1>3, <2>1, LadderOthers
<1>4. /\ link'[s].dead /\ link'[s].failed /\ link'[s].proc = l.proc /\ link'[s].reaped = l.reaped
      /\ seen'[s].climbed <= 1
  <2>1. CASE l.failed
    BY <1>1, <1>2, <2>1 DEF Climbs
  <2>2. CASE ~l.failed
    <3>1. link'[s].dead /\ link'[s].failed /\ link'[s].proc = l.proc /\ link'[s].reaped = l.reaped
      BY <1>2, <2>2 DEF Link
    <3>2. seen'[s].climbed = 1
      <4>1. seen'[s] = [seen[s] EXCEPT !.climbed = @ + 1,
                                       !.invalidated = IF l.ending THEN @ ELSE @ + 1]
        BY <1>2, <2>2
      <4>2. seen'[s].climbed = seen[s].climbed + 1
        BY <1>1, <4>1 DEF View
      <4> QED
        BY <2>2, <4>2
    <3> QED
      BY <3>1, <3>2
  <2> QED
    BY <2>1, <2>2
<1>5. OnLadder(s)'
  <2>1. Wire(link[s])'
    BY <1>4 DEF Wire
  <2>2. Unreported(s)' /\ Climbs(s)'
    BY <1>4 DEF Unreported, Climbs
  <2> QED
    BY <2>1, <2>2 DEF OnLadder
<1> QED
  BY <1>3, <1>5

\* Session s comes to state l without a failure, and the head may be answered.
LEMMA LadderQuiet ==
    ASSUME ClientInv, LadderInv, NEW s \in Session, NEW l \in Link,
           link' = [link EXCEPT ![s] = l], UNCHANGED <<stage, using, session, seen>>,
           reply' = reply \/ Awaits(s),
           Wire(l), l.failed = link[s].failed, l.ending = link[s].ending, link[s].dead => l.dead,
           l.proc = "unborn" /\ ~l.reaped =>
              /\ link[s].proc = "unborn" /\ ~link[s].reaped /\ reply' = reply
              /\ l.outbox = link[s].outbox /\ l.muted = link[s].muted,
           seen[s].climbed = 1 /\ ~l.failed =>
              (l.dead \/ l.outbox = <<>>) /\ (l.inbox = <<>> \/ l.proc # "running")
    PROVE  \A t \in Session : OnLadder(t)'
<1>1. Unreported(s) /\ Climbs(s) /\ link \in [Session -> Link]
  BY DEF LadderInv, OnLadder, ClientInv, Typed
<1>2. link'[s] = l /\ \A t \in Session \ {s} : link'[t] = link[t]
  BY <1>1
<1>3. ASSUME NEW t \in Session \ {s} PROVE OnLadder(t)'
  BY <1>2, <1>3, LadderOthers
<1>4. OnLadder(s)'
  <2>1. Wire(link[s])'
    BY <1>2 DEF Wire
  <2>2. Unreported(s)'
    BY <1>1, <1>2 DEF Unreported
  <2>3. Climbs(s)'
    BY <1>1, <1>2 DEF Climbs
  <2> QED
    BY <2>1, <2>2, <2>3 DEF OnLadder
<1> QED
  BY <1>3, <1>4

LEMMA LadderEvent ==
    ASSUME ClientInv, LadderInv, NEW s \in Session, Event(s)
    PROVE  \A t \in Session : OnLadder(t)'
<1>1. /\ Typed /\ SessionOk(s) /\ link[s] \in Link /\ link \in [Session -> Link] /\ reply \in Reply
      /\ Wire(link[s]) /\ Unreported(s) /\ Climbs(s) /\ seen[s].climbed \in Nat
  <2>1. Typed /\ SessionOk(s) /\ OnLadder(s)
    BY DEF ClientInv, LadderInv
  <2>2. link[s] \in Link /\ link \in [Session -> Link] /\ reply \in Reply /\ seen[s] \in View
    BY <2>1 DEF Typed
  <2> QED
    BY <2>1, <2>2 DEF OnLadder, View
<1>2. link[s].failed => link[s].dead
  BY <1>1 DEF SessionOk, Flags
<1>3. link[s].dead => link[s].failed \/ link[s].ending
  BY <1>1 DEF SessionOk, Flags
<1>4. ~link[s].failed /\ ~link[s].ending => seen[s].climbed = 0
  BY <1>1 DEF Climbs
<1>5. CASE ExitEvent(s)
  <2> DEFINE l == [link[s] EXCEPT !.reaped = TRUE, !.dead = TRUE]
  <2>1. /\ l \in Link /\ l.dead /\ l.reaped /\ l.proc = "exited"
        /\ l.failed = link[s].failed /\ l.ending = link[s].ending
    BY <1>1, <1>5 DEF ExitEvent, Link
  <2>2. /\ UNCHANGED eventFrame
        /\ IF l.ending
           THEN link' = [link EXCEPT ![s] = l] /\ UNCHANGED <<reply, session, ladderVars, seen>>
           ELSE FailSession(s, l, reply)
    BY <1>5 DEF ExitEvent
  <2> HIDE DEF l
  <2>3. Wire(l)
    BY <2>1 DEF Wire
  <2>4. CASE l.ending
    BY <2>1, <2>2, <2>3, <2>4, LadderQuiet DEF eventFrame
  <2>5. CASE ~l.ending
    BY <1>1, <1>4, <2>1, <2>2, <2>5, LadderFails
  <2> QED
    BY <2>4, <2>5
<1>6. CASE ErrorEvent(s)
  <2> DEFINE l == [link[s] EXCEPT !.reaped = TRUE]
  <2>1. /\ l \in Link /\ l.reaped /\ l.dead = link[s].dead
        /\ l.failed = link[s].failed /\ l.ending = link[s].ending
    BY <1>1 DEF Link
  <2>2. FailSession(s, l, reply) /\ UNCHANGED eventFrame /\ ~link[s].ending
    BY <1>1, <1>6 DEF ErrorEvent, Unreported
  <2> HIDE DEF l
  <2> QED
    BY <1>1, <1>2, <1>4, <2>1, <2>2, LadderFails
<1>7. CASE CloseEvent(s)
  <2> DEFINE l == [link[s] EXCEPT !.closed = TRUE]
  <2>1. /\ l \in Link /\ l.dead = link[s].dead /\ l.reaped = link[s].reaped /\ l.proc = link[s].proc
        /\ l.failed = link[s].failed /\ l.ending = link[s].ending
        /\ l.inbox = link[s].inbox /\ l.outbox = link[s].outbox /\ l.pending = link[s].pending
        /\ l.muted = link[s].muted
    BY <1>1 DEF Link
  <2>2. /\ UNCHANGED eventFrame
        /\ IF ~l.dead /\ ~l.ending
           THEN FailSession(s, l, reply)
           ELSE link' = [link EXCEPT ![s] = l] /\ UNCHANGED <<reply, session, ladderVars, seen>>
    BY <1>7 DEF CloseEvent
  <2> HIDE DEF l
  <2>3. Wire(l)
    BY <1>1, <2>1 DEF Wire
  <2>4. CASE ~l.dead /\ ~l.ending
    <3>1. l.proc = "unborn" => l.reaped
      <4> SUFFICES ASSUME link[s].proc = "unborn", ~link[s].reaped PROVE FALSE
        BY <2>1
      <4>1. link[s].muted
        BY <1>7 DEF CloseEvent
      <4> QED
        BY <1>1, <4>1 DEF Unreported
    <3> QED
      BY <1>1, <1>2, <1>4, <2>1, <2>2, <2>4, <3>1, LadderFails
  <2>5. CASE l.dead \/ l.ending
    <3>1. seen[s].climbed = 1 /\ ~l.failed =>
             (l.dead \/ l.outbox = <<>>) /\ (l.inbox = <<>> \/ l.proc # "running")
      BY <1>1, <2>1 DEF Climbs
    <3> QED
      BY <1>1, <2>1, <2>2, <2>3, <2>5, <3>1, LadderQuiet DEF eventFrame
  <2> QED
    BY <2>4, <2>5
<1>8. CASE WriteError(s)
  <2> DEFINE l == ForgetsPending(link[s])
  <2>1. /\ l \in Link /\ l.dead = link[s].dead /\ l.proc = "exited"
        /\ l.failed = link[s].failed /\ l.ending = link[s].ending
        /\ l.inbox = link[s].inbox /\ l.outbox = link[s].outbox
    BY <1>1, <1>8 DEF Link, ForgetsPending, WriteError
  <2>2. link' = [link EXCEPT ![s] = l] /\ UNCHANGED <<eventFrame, session, seen>> /\ (reply' = reply \/ Awaits(s))
    BY <1>8 DEF WriteError
  <2> HIDE DEF l
  <2>3. link[s].inbox # <<>>
    BY <1>8 DEF WriteError
  <2>4. Wire(l)
    BY <1>1, <2>1, <2>3 DEF Wire
  <2>5. seen[s].climbed = 1 /\ ~l.failed =>
           (l.dead \/ l.outbox = <<>>) /\ (l.inbox = <<>> \/ l.proc # "running")
    BY <1>1, <2>1 DEF Climbs
  <2> QED
    BY <2>1, <2>2, <2>4, <2>5, LadderQuiet DEF eventFrame
<1>9. CASE Receive(s)
  <2> DEFINE line == Head(link[s].outbox)
  <2> DEFINE l == [link[s] EXCEPT !.outbox = Tail(@)]
  <2> DEFINE done == [l EXCEPT !.pending = 0]
  <2> DEFINE r == IF Awaits(s) THEN [says |-> line.says, ask |-> line.ask] ELSE reply
  <2>1. /\ link[s].outbox \in Seq(Line) /\ link[s].outbox # <<>>
        /\ line \in Line /\ Tail(link[s].outbox) \in Seq(Line) /\ line = link[s].outbox[1]
    <3>1. link[s].outbox \in Seq(Line) /\ link[s].outbox # <<>>
      BY <1>1, <1>9, LinkFacts DEF Receive
    <3> QED
      BY <3>1, TailOf
  <2>2. /\ l \in Link /\ l.failed = link[s].failed /\ l.ending = link[s].ending /\ l.dead = link[s].dead
        /\ l.proc = link[s].proc /\ l.reaped = link[s].reaped /\ l.pending = link[s].pending
        /\ l.inbox = link[s].inbox /\ l.outbox = Tail(link[s].outbox)
    BY <1>1, <2>1 DEF Link
  <2>3. /\ done \in Link /\ done.failed = link[s].failed /\ done.ending = link[s].ending
        /\ done.dead = link[s].dead /\ done.proc = link[s].proc /\ done.reaped = link[s].reaped
        /\ done.inbox = link[s].inbox /\ done.outbox = Tail(link[s].outbox)
    BY <1>1, <2>1 DEF Link
  <2>4. r \in Reply /\ (r = reply \/ Awaits(s))
    BY <1>1, <2>1 DEF Reply, Line
  <2>5. /\ UNCHANGED eventFrame
        /\ l.dead => link' = [link EXCEPT ![s] = l] /\ UNCHANGED <<reply, session, ladderVars, seen>>
        /\ ~l.dead /\ ~Answers(line, l) => FailSession(s, l, reply)
        /\ ~l.dead /\ Answers(line, l) /\ line.says = "internal" => FailSession(s, done, r)
        /\ ~l.dead /\ Answers(line, l) /\ line.says # "internal" =>
              link' = [link EXCEPT ![s] = done] /\ reply' = r /\ UNCHANGED <<session, ladderVars, seen>>
    BY <1>9 DEF Receive
  <2> HIDE DEF l, done, r, line
  <2>6. link[s].proc = "unborn" => link[s].reaped
    BY <1>1, <2>1 DEF Unreported
  <2>7. ~link[s].dead => seen[s].climbed = 0
    BY <1>1, <1>2, <2>1 DEF Climbs
  <2>8. CASE l.dead
    <3>1. Wire(l)
      BY <2>8 DEF Wire
    <3>2. seen[s].climbed = 1 /\ ~l.failed => l.inbox = <<>> \/ l.proc # "running"
      BY <1>1, <2>2 DEF Climbs
    <3>3. link' = [link EXCEPT ![s] = l] /\ UNCHANGED <<reply, session, seen, stage, using>>
      BY <2>5, <2>8 DEF eventFrame
    <3> QED
      BY <2>2, <2>6, <2>8, <3>1, <3>2, <3>3, LadderQuiet
  <2>9. CASE ~l.dead /\ ~Answers(line, l)
    BY <1>1, <1>2, <2>2, <2>5, <2>6, <2>7, <2>9, LadderFails
  <2>10. CASE ~l.dead /\ Answers(line, l) /\ line.says = "internal"
    BY <1>1, <1>2, <2>2, <2>3, <2>4, <2>5, <2>6, <2>7, <2>10, LadderFails
  <2>11. CASE ~l.dead /\ Answers(line, l) /\ line.says # "internal"
    <3>1. link' = [link EXCEPT ![s] = done] /\ UNCHANGED <<session, seen, stage, using>>
          /\ (reply' = reply \/ Awaits(s))
      BY <2>4, <2>5, <2>11 DEF eventFrame
    <3>2. Len(link[s].outbox) = 1 /\ link[s].inbox = <<>>
      BY <1>1, <2>1, <2>2, <2>11 DEF Wire
    <3>3. done.outbox = <<>> /\ done.inbox = <<>>
      <4>1. Len(Tail(link[s].outbox)) = 0
        BY <2>1, <3>2
      <4> QED
        BY <2>1, <2>3, <3>2, <4>1, EmptyIs
    <3>4. Wire(done)
      BY <3>3 DEF Wire
    <3> QED
      BY <2>3, <2>6, <3>1, <3>3, <3>4, LadderQuiet
  <2> QED
    BY <2>8, <2>9, <2>10, <2>11
<1> QED
  BY <1>5, <1>6, <1>7, <1>8, <1>9 DEF Event

LEMMA LadderProcess ==
    ASSUME MaxStrays = 0, ClientInv, LadderInv,
           NEW s \in Session, Serve(s) \/ Die(s) \/ Crash(s) \/ Mute(s) \/ Stray(s)
    PROVE  \A t \in Session : OnLadder(t)'
<1>1. /\ link[s].proc = "running" /\ link[s] \in Link /\ UNCHANGED <<stage, using, session, seen, reply>>
      /\ Wire(link[s]) /\ Climbs(s)
  BY DEF Serve, Die, Crash, Mute, Stray, processFrame, taskVars, ClientInv, Typed, LadderInv, OnLadder
<1>2. CASE Die(s) \/ Crash(s)
  <2> DEFINE l == [link[s] EXCEPT !.proc = "exited"]
  <2>1. l \in Link /\ link' = [link EXCEPT ![s] = l]
    BY <1>1, <1>2 DEF Die, Crash, Link
  <2>2. l.proc = "exited" /\ l.failed = link[s].failed /\ l.ending = link[s].ending
        /\ l.dead = link[s].dead /\ l.pending = link[s].pending
        /\ l.inbox = link[s].inbox /\ l.outbox = link[s].outbox
    BY <1>1 DEF Link
  <2> HIDE DEF l
  <2>3. Wire(l)
    BY <1>1, <2>2 DEF Wire
  <2>4. seen[s].climbed = 1 /\ ~l.failed => l.dead \/ l.outbox = <<>>
    BY <1>1, <2>2 DEF Climbs
  <2> QED
    BY <1>1, <2>1, <2>2, <2>3, <2>4, LadderQuiet
<1>3. CASE Mute(s)
  <2> DEFINE l == [link[s] EXCEPT !.muted = TRUE]
  <2>1. l \in Link /\ link' = [link EXCEPT ![s] = l]
    BY <1>1, <1>3 DEF Mute, Link
  <2>2. l.proc = "running" /\ l.failed = link[s].failed /\ l.ending = link[s].ending
        /\ l.dead = link[s].dead /\ l.pending = link[s].pending
        /\ l.inbox = link[s].inbox /\ l.outbox = link[s].outbox
    BY <1>1 DEF Link
  <2> HIDE DEF l
  <2>3. Wire(l)
    BY <1>1, <2>2 DEF Wire
  <2>4. seen[s].climbed = 1 /\ ~l.failed =>
           (l.dead \/ l.outbox = <<>>) /\ (l.inbox = <<>> \/ l.proc # "running")
    BY <1>1, <2>2 DEF Climbs
  <2> QED
    BY <1>1, <2>1, <2>2, <2>3, <2>4, LadderQuiet
<1>4. CASE Stray(s)
  BY <1>4 DEF Stray, LadderInv
<1>5. CASE Serve(s)
  <2> DEFINE request == Head(link[s].inbox)
  <2>1. PICK says \in Says(request.method), proc \in {"running", "exited"} :
           link' = [link EXCEPT
               ![s].inbox = Tail(@),
               ![s].outbox = Append(@, [id |-> request.id, says |-> says, ask |-> request.ask]),
               ![s].last = [id |-> request.id, says |-> says, ask |-> request.ask],
               ![s].proc = proc]
    BY <1>5 DEF Serve
  <2> DEFINE line == [id |-> request.id, says |-> says, ask |-> request.ask]
  <2> DEFINE l == [link[s] EXCEPT !.inbox = Tail(@), !.outbox = Append(@, line), !.last = line, !.proc = proc]
  <2>2. /\ link[s].inbox \in Seq(Request) /\ link[s].inbox # <<>> /\ link[s].outbox \in Seq(Line)
        /\ Tail(link[s].inbox) \in Seq(Request) /\ request = link[s].inbox[1] /\ request \in Request
    <3>1. link[s].inbox \in Seq(Request) /\ link[s].inbox # <<>> /\ link[s].outbox \in Seq(Line)
      BY <1>1, <1>5, LinkFacts DEF Serve
    <3> QED
      BY <3>1, TailOf
  <2>3. line \in Line /\ line.id = request.id
    BY <2>1, <2>2 DEF Says, Request, Line
  <2> HIDE DEF line, request
  <2>4. Append(link[s].outbox, line) \in Seq(Line)
    BY <2>2, <2>3
  <2>5. l \in Link
    BY <1>1, <2>2, <2>3, <2>4 DEF Link
  <2>6. link' = [link EXCEPT ![s] = l]
    BY <1>1, <2>1 DEF line
  <2>7. l.proc = proc /\ l.failed = link[s].failed /\ l.ending = link[s].ending
        /\ l.dead = link[s].dead /\ l.pending = link[s].pending
        /\ l.inbox = Tail(link[s].inbox) /\ l.outbox = Append(link[s].outbox, line)
    BY <1>1 DEF Link
  <2> HIDE DEF l
  <2>8. Wire(l)
    <3> SUFFICES ASSUME ~link[s].dead PROVE Wire(l)
      BY <2>7 DEF Wire
    <3>1. /\ Len(link[s].inbox) = 1 /\ link[s].pending # 0 /\ link[s].inbox[1].id = link[s].pending
          /\ link[s].outbox = <<>>
      BY <1>1, <2>2 DEF Wire
    <3>2. l.inbox = <<>>
      <4>1. Len(Tail(link[s].inbox)) = 0
        BY <2>2, <3>1
      <4> QED
        BY <2>2, <2>7, <4>1, EmptyIs
    <3>3. Len(l.outbox) = 1 /\ l.outbox[1] = line
      BY <2>3, <2>7, <3>1
    <3> QED
      BY <2>2, <2>3, <2>7, <3>1, <3>2, <3>3 DEF Wire
  <2>9. seen[s].climbed = 1 => link[s].failed
    BY <1>1, <2>2 DEF Climbs
  <2> QED
    BY <1>1, <2>1, <2>5, <2>6, <2>7, <2>8, <2>9, LadderQuiet
<1> QED
  BY <1>2, <1>3, <1>4, <1>5

\* The head of the chain brings session s to state m.
LEMMA LadderHead ==
    ASSUME ClientInv, LadderInv, NEW s \in Session, NEW m \in Link, link' = [link EXCEPT ![s] = m],
           \A t \in Session \ {s} : seen'[t] = seen[t],
           stage # "initialize" \/ reply # NoReply,
           using' \in {using, s, 0}, session' \in {session, s, 0},
           Wire(m), Climbs(s)',
           m.proc = "unborn" /\ ~m.reaped => Unreported(s)'
    PROVE  \A t \in Session : OnLadder(t)'
<1>1. link'[s] = m /\ \A t \in Session \ {s} : link'[t] = link[t]
  BY DEF ClientInv, Typed
<1>2. ASSUME NEW t \in Session \ {s} PROVE OnLadder(t)'
  <2>1. Unreported(t) /\ Climbs(t) /\ t # 0
    BY DEF LadderInv, OnLadder, Session
  <2>2. ~(link[t].proc = "unborn" /\ ~link[t].reaped)
    BY <2>1 DEF Unreported
  <2>3. seen[t].climbed = 1 /\ ~link[t].failed => t # session' /\ t # using'
    BY <1>2, <2>1 DEF Climbs
  <2> QED
    BY <1>1, <1>2, <2>2, <2>3, LadderStays
<1>3. OnLadder(s)'
  <2>1. Wire(link[s])'
    BY <1>1 DEF Wire
  <2>2. Unreported(s)'
    BY <1>1 DEF Unreported
  <2> QED
    BY <2>1, <2>2 DEF OnLadder
<1> QED
  BY <1>2, <1>3

\* No session changes.
LEMMA LadderRests ==
    ASSUME LadderInv, UNCHANGED link, \A t \in Session : seen'[t].climbed = seen[t].climbed,
           stage # "initialize" \/ UNCHANGED <<using, stage, reply>>,
           using' \in {using, 0}, session' \in {session, 0}
    PROVE  \A t \in Session : OnLadder(t)'
<1> SUFFICES ASSUME NEW t \in Session PROVE OnLadder(t)'
  OBVIOUS
<1>1. Unreported(t) /\ Climbs(t) /\ t # 0
  BY DEF LadderInv, OnLadder, Session
<1>2. link[t].proc = "unborn" /\ ~link[t].reaped => UNCHANGED <<using, stage, reply>>
  BY <1>1 DEF Unreported
<1>3. seen[t].climbed = 1 /\ ~link[t].failed => t # session' /\ t # using'
  BY <1>1 DEF Climbs
<1> QED
  BY <1>2, <1>3, LadderStays

LEMMA LadderSends ==
    ASSUME Typed, NEW s \in Session, NEW l \in Link, Wire(l),
           NEW method \in {"initialize", "work", "shutdown"}, NEW ask \in 0..MaxCalls,
           Send(s, l, method, ask)
    PROVE  \E m \in Link :
              /\ link' = [link EXCEPT ![s] = m] /\ Wire(m)
              /\ m.failed = l.failed /\ m.ending = l.ending /\ m.proc = l.proc /\ m.reaped = l.reaped
              /\ m.muted = l.muted /\ m.outbox = l.outbox
              /\ CanSend(l) => reply' = NoReply
<1>1. nextId \in Nat /\ nextId > 0
  BY DEF Typed
<1>2. CASE ~CanSend(l)
  <2> WITNESS l \in Link
  <2> QED
    BY <1>2 DEF Send
<1>3. CASE CanSend(l)
  <2> DEFINE q == [id |-> nextId, method |-> method, ask |-> ask]
  <2>1. PICK m : m = [l EXCEPT !.pending = nextId, !.inbox = Append(@, q)]
    OBVIOUS
  <2>2. link' = [link EXCEPT ![s] = m] /\ reply' = NoReply
    BY <1>3, <2>1 DEF Send, Sent
  <2>3. q \in Request /\ q.id = nextId
    BY <1>1 DEF Request
  <2> HIDE DEF q
  <2>4. l.inbox \in Seq(Request) /\ Append(l.inbox, q) \in Seq(Request)
    BY <2>3, LinkFacts, AppendOf
  <2>5. /\ m \in Link
        /\ m.pending = nextId /\ m.inbox = Append(l.inbox, q) /\ m.outbox = l.outbox
        /\ m.proc = l.proc /\ m.dead = l.dead /\ m.failed = l.failed
        /\ m.ending = l.ending /\ m.reaped = l.reaped /\ m.muted = l.muted
    BY <1>1, <2>1, <2>4 DEF Link
  <2>6. l.pending = 0 /\ ~l.dead
    BY <1>3 DEF CanSend
  <2>7. l.outbox = <<>> /\ (l.inbox = <<>> \/ l.proc = "exited")
    BY <2>6 DEF Wire
  <2>8. l.inbox = <<>> => Len(m.inbox) = 1 /\ m.inbox[1] = q
    BY <2>3, <2>4, <2>5
  <2>9. Wire(m)
    <3>1. CASE l.inbox = <<>>
      BY <1>1, <2>3, <2>5, <2>7, <2>8, <3>1 DEF Wire
    <3>2. CASE l.proc = "exited"
      BY <2>5, <2>7, <3>2 DEF Wire
    <3> QED
      BY <2>7, <3>1, <3>2
  <2> QED
    BY <1>3, <2>2, <2>5, <2>9
<1> QED
  BY <1>2, <1>3

LEMMA LadderRequests ==
    ASSUME ClientInv, LadderInv, StartLive \/ InitializeOk \/ ShutdownLive
    PROVE  \A t \in Session : OnLadder(t)'
<1>1. PICK s \in Session, method \in {"work", "shutdown"}, ask \in 0..MaxCalls, ending \in BOOLEAN :
         /\ s \in {session, using} /\ (stage # "initialize" \/ reply # NoReply)
         /\ Send(s, [link[s] EXCEPT !.ending = ending], method, ask)
         /\ using' = s /\ session' \in {session, 0} /\ UNCHANGED seen
  <2>1. Typed /\ HeadWorks /\ 0 \in 0..MaxCalls /\ link \in [Session -> Link]
    BY BoundsAssumption DEF ClientInv, Typed
  <2>2. ASSUME NEW l \in Link PROVE l.ending \in BOOLEAN /\ l = [l EXCEPT !.ending = l.ending]
    BY DEF Link
  <2>3. CASE StartLive
    <3>1. session \in Session /\ chain # <<>> /\ stage = "rest"
      BY <2>1, <2>3 DEF StartLive, Turn, Live, Typed, Session
    <3>2. Head(chain).ask \in 0..MaxCalls
      BY <3>1, HeadFacts
    <3>3. /\ Send(session, link[session], "work", Head(chain).ask)
          /\ using' = session /\ UNCHANGED <<session, seen>>
      BY <2>3 DEF StartLive
    <3>4. PICK e \in BOOLEAN : [link[session] EXCEPT !.ending = e] = link[session]
      BY <2>1, <2>2, <3>1
    <3>5. Send(session, [link[session] EXCEPT !.ending = e], "work", Head(chain).ask)
      BY <3>3, <3>4
    <3> QED
      BY <3>1, <3>2, <3>3, <3>5
  <2>4. CASE InitializeOk
    <3>1. using \in Session /\ chain # <<>> /\ reply # NoReply
      BY <2>1, <2>4, SmallFacts DEF InitializeOk, HeadWorks, Typed, Session
    <3>2. Head(chain).ask \in 0..MaxCalls
      BY <3>1, HeadFacts
    <3>3. /\ Send(using, link[using], "work", Head(chain).ask)
          /\ using' = using /\ UNCHANGED <<session, seen>>
      BY <2>4 DEF InitializeOk
    <3>4. PICK e \in BOOLEAN : [link[using] EXCEPT !.ending = e] = link[using]
      BY <2>1, <2>2, <3>1
    <3>5. Send(using, [link[using] EXCEPT !.ending = e], "work", Head(chain).ask)
      BY <3>3, <3>4
    <3> QED
      BY <3>1, <3>2, <3>3, <3>5
  <2>5. CASE ShutdownLive
    <3>1. session \in Session /\ stage = "rest"
      BY <2>1, <2>5 DEF ShutdownLive, Turn, Live, Typed, Session
    <3>2. /\ Send(session, [link[session] EXCEPT !.ending = TRUE], "shutdown", 0)
          /\ using' = session /\ session' = 0 /\ UNCHANGED seen
      BY <2>5 DEF ShutdownLive
    <3> QED
      BY <2>1, <3>1, <3>2
  <2> QED
    BY <2>3, <2>4, <2>5
<1>2. /\ Typed /\ link[s] \in Link /\ Wire(link[s]) /\ Unreported(s) /\ Climbs(s)
  BY DEF ClientInv, Typed, LadderInv, OnLadder
<1> DEFINE l == [link[s] EXCEPT !.ending = ending]
<1>3. /\ l \in Link /\ l.failed = link[s].failed /\ l.proc = link[s].proc /\ l.reaped = link[s].reaped
      /\ l.dead = link[s].dead /\ l.pending = link[s].pending /\ l.inbox = link[s].inbox
      /\ l.outbox = link[s].outbox
  BY <1>2 DEF Link
<1>4. Send(s, l, method, ask)
  BY <1>1
<1> HIDE DEF l
<1>5. Wire(l)
  BY <1>2, <1>3 DEF Wire
<1>6. PICK m \in Link :
         /\ link' = [link EXCEPT ![s] = m] /\ Wire(m)
         /\ m.failed = l.failed /\ m.proc = l.proc /\ m.reaped = l.reaped
  BY <1>2, <1>3, <1>4, <1>5, LadderSends
<1>7. ~(m.proc = "unborn" /\ ~m.reaped)
  BY <1>1, <1>2, <1>3, <1>6 DEF Unreported
<1>8. Climbs(s)'
  <2>1. seen[s].climbed <= 1 /\ (seen[s].climbed = 1 => link[s].failed)
    BY <1>1, <1>2 DEF Climbs
  <2>2. link'[s] = m /\ seen'[s] = seen[s]
    BY <1>1, <1>2, <1>6 DEF Typed
  <2> QED
    BY <1>3, <1>6, <2>1, <2>2 DEF Climbs
<1> QED
  BY <1>1, <1>6, <1>7, <1>8, LadderHead

LEMMA LadderSpawn ==
    ASSUME ClientInv, LadderInv, StartSpawn \/ EndBackoff
    PROVE  \A t \in Session : OnLadder(t)'
<1>1. Spawn /\ chain # <<>> /\ stage \in {"rest", "backoff"}
  BY DEF StartSpawn, EndBackoff, Turn, ClientInv, HeadWorks
<1>2. /\ Typed /\ Room /\ spawned \in Nat /\ calls \in Nat /\ calls <= MaxCalls
      /\ Len(chain) \in Nat /\ Len(chain) > 0
  BY <1>1, HeadFacts, BoundsAssumption DEF ClientInv, Typed
<1>3. PICK n \in Session : n = spawned + 1
  BY <1>1, <1>2, BoundsAssumption DEF Room, Session
<1>4. PICK proc \in {"running", "unborn"} :
        /\ spawned' = spawned + 1 /\ session' = spawned' /\ using' = spawned' /\ stage' = "initialize"
        /\ Send(spawned', [NoSession EXCEPT !.proc = proc], "initialize", 0) /\ UNCHANGED seen
  BY <1>1 DEF Spawn
<1>5. seen[n] = Unseen /\ 0 \in 0..MaxCalls
  BY <1>2, <1>3, BoundsAssumption DEF ClientInv, SessionOk, Session
<1> DEFINE l == [NoSession EXCEPT !.proc = proc]
<1>6. /\ l \in Link /\ l.proc = proc /\ ~l.dead /\ ~l.failed /\ ~l.ending /\ ~l.muted /\ l.pending = 0
      /\ l.inbox = <<>> /\ l.outbox = <<>>
  BY SmallFacts DEF NoSession, Link
<1>7. Send(n, l, "initialize", 0)
  BY <1>3, <1>4
<1> HIDE DEF l
<1>8. Wire(l) /\ CanSend(l)
  BY <1>6 DEF Wire, CanSend
<1>9. PICK m \in Link :
         /\ link' = [link EXCEPT ![n] = m] /\ Wire(m) /\ reply' = NoReply
         /\ m.failed = l.failed /\ m.ending = l.ending /\ m.proc = l.proc /\ m.reaped = l.reaped
         /\ m.muted = l.muted /\ m.outbox = l.outbox
  BY <1>2, <1>5, <1>6, <1>7, <1>8, LadderSends
<1>10. link'[n] = m /\ seen'[n] = Unseen /\ using' = n /\ session' = n
  BY <1>2, <1>3, <1>4, <1>5, <1>9 DEF Typed
<1>11. Unreported(n)'
  BY <1>4, <1>6, <1>9, <1>10 DEF Unreported
<1>12. Climbs(n)'
  BY <1>10 DEF Climbs, Unseen
<1> QED
  BY <1>1, <1>4, <1>9, <1>10, <1>11, <1>12, LadderHead

\* A session whose initialize failed moves the ladder unless its failure did.
LEMMA LadderDismissal ==
    ASSUME ClientInv, LadderInv, InitializeFails
    PROVE  \A t \in Session : OnLadder(t)'
<1>1. /\ reply # NoReply /\ using' = 0 /\ ClimbUnlessFailed(using)
      /\ link' = [link EXCEPT ![using] = Dismissed(@)]
      /\ session' = IF session = using THEN 0 ELSE session
      /\ stage = "initialize" /\ using # 0 /\ using <= spawned /\ Typed
  BY SmallFacts DEF InitializeFails, Settle, ClientInv, HeadWorks
<1>2. PICK s \in Session : s = using
  BY <1>1 DEF Typed, Session
<1>3. /\ SessionOk(s) /\ link[s] \in Link /\ seen \in [Session -> View] /\ seen[s] \in View
      /\ Wire(link[s]) /\ Unreported(s) /\ Climbs(s) /\ link \in [Session -> Link] /\ s # 0
  BY <1>1 DEF ClientInv, Typed, LadderInv, OnLadder, Session
<1> DEFINE m == Dismissed(link[s])
<1>4. /\ m \in Link /\ m.ending /\ m.failed = link[s].failed /\ m.dead = link[s].dead
      /\ m.inbox = link[s].inbox /\ m.outbox = link[s].outbox /\ m.reaped = link[s].reaped
      /\ m.pending = link[s].pending /\ m.proc = link[s].proc
  BY <1>3 DEF Dismissed, Link
<1>5. link' = [link EXCEPT ![s] = m]
  BY <1>1, <1>2
<1> HIDE DEF m
<1>6. Wire(m)
  BY <1>3, <1>4 DEF Wire
<1>7. (\A t \in Session \ {s} : seen'[t] = seen[t]) /\ seen'[s].climbed <= 1
  <2>1. CASE link[s].failed
    BY <1>1, <1>2, <1>3, <2>1 DEF ClimbUnlessFailed, Climbs
  <2>2. CASE ~link[s].failed
    <3>1. seen' = [seen EXCEPT ![s].climbed = @ + 1]
      BY <1>1, <1>2, <2>2 DEF ClimbUnlessFailed
    <3>2. seen[s].climbed = 0
      BY <1>2, <1>3, <2>2 DEF Climbs, View
    <3>3. seen'[s].climbed = 1
      BY <1>3, <3>1, <3>2 DEF View
    <3> QED
      BY <1>3, <3>1, <3>3
  <2> QED
    BY <2>1, <2>2
<1>8. Climbs(s)'
  <2>1. link[s].pending = 0
    BY <1>1, <1>2, <1>3 DEF SessionOk
  <2>2. link[s].dead \/ link[s].outbox = <<>>
    BY <1>3, <2>1 DEF Wire
  <2>3. link[s].failed \/ link[s].inbox = <<>> \/ link[s].proc # "running"
    <3>1. CASE link[s].dead
      BY <1>3, <3>1 DEF SessionOk, Flags
    <3>2. CASE ~link[s].dead
      BY <1>3, <2>1, <3>2 DEF Wire
    <3> QED
      BY <3>1, <3>2
  <2>4. link'[s] = m /\ s # session' /\ s # using'
    BY <1>1, <1>2, <1>3, <1>5
  <2> QED
    BY <1>4, <1>7, <2>2, <2>3, <2>4 DEF Climbs
<1>9. ~(m.proc = "unborn" /\ ~m.reaped)
  BY <1>1, <1>3, <1>4 DEF Unreported
<1> QED
  BY <1>1, <1>4, <1>5, <1>6, <1>7, <1>8, <1>9, LadderHead

LEMMA LadderGoodbye ==
    ASSUME ClientInv, LadderInv, EndGoodbye, ~link[using].dead
    PROVE  \A t \in Session : OnLadder(t)'
<1>1. /\ stage = "goodbye" /\ using # 0 /\ Typed
      /\ link' = [link EXCEPT ![using].killed = TRUE]
      /\ UNCHANGED <<using, session, seen>>
  BY DEF EndGoodbye, ClientInv, HeadWorks
<1>2. PICK s \in Session : s = using
  BY <1>1 DEF Typed, Session
<1>3. link[s] \in Link /\ Wire(link[s]) /\ Unreported(s) /\ Climbs(s) /\ link \in [Session -> Link]
  BY <1>1 DEF Typed, LadderInv, OnLadder
<1> DEFINE m == [link[s] EXCEPT !.killed = TRUE]
<1>4. /\ m \in Link /\ m.failed = link[s].failed /\ m.dead = link[s].dead
      /\ m.inbox = link[s].inbox /\ m.outbox = link[s].outbox /\ m.reaped = link[s].reaped
      /\ m.pending = link[s].pending /\ m.proc = link[s].proc
  BY <1>3 DEF Link
<1>5. link' = [link EXCEPT ![s] = m]
  BY <1>1, <1>2
<1> HIDE DEF m
<1>6. Wire(m)
  BY <1>3, <1>4 DEF Wire
<1>7. Climbs(s)'
  BY <1>1, <1>2, <1>3, <1>4, <1>5 DEF Climbs
<1>8. ~(m.proc = "unborn" /\ ~m.reaped)
  BY <1>1, <1>3, <1>4 DEF Unreported
<1> QED
  BY <1>1, <1>4, <1>5, <1>6, <1>7, <1>8, LadderHead

LEMMA LadderTask ==
    ASSUME ClientInv, LadderInv, Task
    PROVE  \A t \in Session : OnLadder(t)'
<1>1. CASE StartLive \/ InitializeOk \/ ShutdownLive
  BY <1>1, LadderRequests
<1>2. CASE StartSpawn \/ EndBackoff
  BY <1>2, LadderSpawn
<1>3. CASE InitializeFails
  BY <1>3, LadderDismissal
<1>4. CASE EndGoodbye /\ ~link[using].dead
  BY <1>4, LadderGoodbye
<1>5. CASE StartFatal \/ StartBackoff \/ RequestFails
  BY <1>5, LadderRests DEF StartFatal, StartBackoff, RequestFails, Turn, Settle
<1>6. CASE RequestOk
  <2>1. \A t \in Session : seen'[t].climbed = seen[t].climbed
    BY <1>6 DEF RequestOk, ClientInv, Typed, View
  <2> QED
    BY <1>6, <2>1, LadderRests DEF RequestOk, Settle
<1>7. CASE ShutdownIdle \/ EndKilling \/ (EndGoodbye /\ link[using].dead)
  BY <1>7, LadderRests DEF ShutdownIdle, EndKilling, EndGoodbye, EndShutdown, Settle, Turn
<1>8. CASE \E ask \in reopening : Reopen(ask)
  BY <1>8, LadderRests DEF Reopen, taskVars
<1> QED
  BY <1>1, <1>2, <1>3, <1>4, <1>5, <1>6, <1>7, <1>8 DEF Task

\* However a failure shows and however often it is noticed, a session moves the ladder
\* once, if daemons print only answers.
THEOREM FailuresClimbOnce ==
    ASSUME MaxStrays = 0
    PROVE  Spec => []LadderClimbsOnce
<1>1. Init => LadderInv
  <2> SUFFICES ASSUME Init, NEW s \in Session PROVE OnLadder(s)
    BY DEF Init, LadderInv
  <2>1. link[s] = NoSession /\ seen[s] = Unseen
    BY DEF Init
  <2>2. Wire(link[s])
    BY <2>1 DEF Wire, NoSession
  <2>3. Unreported(s)
    BY <2>1 DEF Unreported, NoSession
  <2>4. Climbs(s)
    BY <2>1 DEF Climbs, Unseen
  <2> QED
    BY <2>2, <2>3, <2>4 DEF OnLadder
<1>2. ClientInv /\ LadderInv /\ [Next]_vars => LadderInv'
  <2> SUFFICES ASSUME ClientInv, LadderInv, [Next]_vars PROVE LadderInv'
    OBVIOUS
  <2>1. strays' = 0
    <3>1. CASE CallWork \/ (\E method \in {"shutdown", "restart"} : CallShutdown(method)) \/ UNCHANGED vars
      BY <3>1 DEF CallWork, CallShutdown, vars, faultVars, LadderInv
    <3>2. CASE StartFatal \/ StartLive \/ StartBackoff \/ StartSpawn \/ EndBackoff
      BY <3>2 DEF StartFatal, StartLive, StartBackoff, StartSpawn, EndBackoff, Spawn, faultVars, LadderInv
    <3>3. CASE InitializeOk \/ InitializeFails \/ RequestOk \/ RequestFails
      BY <3>3 DEF InitializeOk, InitializeFails, RequestOk, RequestFails, faultVars, LadderInv
    <3>4. CASE ShutdownIdle \/ ShutdownLive \/ EndGoodbye \/ EndKilling \/ (\E ask \in reopening : Reopen(ask))
      BY <3>4 DEF ShutdownIdle, ShutdownLive, EndGoodbye, EndKilling, EndShutdown, Reopen, faultVars, LadderInv
    <3>5. ASSUME NEW s \in Session, Event(s) PROVE strays' = 0
      BY <3>5 DEF Event, ExitEvent, ErrorEvent, CloseEvent, WriteError, Receive, eventFrame, faultVars, LadderInv
    <3>6. ASSUME NEW s \in Session, Serve(s) \/ Die(s) \/ Crash(s) \/ Mute(s) \/ Stray(s) PROVE strays' = 0
      <4>1. CASE Serve(s) \/ Die(s)
        BY <4>1 DEF Serve, Die, faultVars, processFrame, LadderInv
      <4>2. CASE Crash(s) \/ Mute(s)
        BY <4>2 DEF Crash, Mute, LadderInv
      <4>3. CASE Stray(s)
        <5>1. strays < MaxStrays
          BY <4>3 DEF Stray
        <5> QED
          BY <5>1 DEF LadderInv
      <4> QED
        BY <3>6, <4>1, <4>2, <4>3
    <3> QED
      BY <3>1, <3>2, <3>3, <3>4, <3>5, <3>6 DEF Next, Task
  <2>2. \A t \in Session : OnLadder(t)'
    <3>1. CASE CallWork \/ (\E method \in {"shutdown", "restart"} : CallShutdown(method)) \/ UNCHANGED vars
      BY <3>1, LadderRests DEF CallWork, CallShutdown, vars, taskVars
    <3>2. CASE Task
      BY <3>2, LadderTask
    <3>3. ASSUME NEW s \in Session, Event(s) \/ Serve(s) \/ Die(s) \/ Crash(s) \/ Mute(s) \/ Stray(s)
          PROVE  \A t \in Session : OnLadder(t)'
      BY <3>3, LadderEvent, LadderProcess
    <3> QED
      BY <3>1, <3>2, <3>3 DEF Next
  <2> QED
    BY <2>1, <2>2 DEF LadderInv
<1>3. LadderInv => LadderClimbsOnce
  BY DEF LadderInv, OnLadder, Climbs, LadderClimbsOnce
<1> QED
  BY <1>1, <1>2, <1>3, ClientInvariant, PTL DEF Spec
=============================================================================
