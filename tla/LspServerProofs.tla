--------------------------- MODULE LspServerProofs ---------------------------
(***************************************************************************)
(* Theorems about LspServer, for any documents, any number of messages and *)
(* any number of handlers at once: the bowl's texts are the editor's       *)
(* buffers, formatting sees one revision, and the diagnostics the editor   *)
(* is left with are present.                                               *)
(***************************************************************************)
EXTENDS LspServer, TLAPS

TypeOK ==
    /\ disk \in Texts /\ buffer \in Texts /\ text \in Texts
    /\ sent \in 0 .. MaxMessages
    /\ open \in SUBSET Doc
    /\ rev \in Nat
    /\ handler \in [Message -> Handler]
    /\ session \in Seq(Message) /\ publisher \in Seq(Message)
    /\ shown \in [Doc -> Publication]

Waits(i) == handler[i].stage \in {"new", "session"}
Publishes(i) == handler[i].stage \in {"publish", "rows", "send"}

\* Handlers start in the order of their messages, so the session mutex is
\* handed on in that order; only formatting keeps it between two queries.
SentStarted == \A i \in Message : handler[i].stage = "none" <=> i > sent
StartsInOrder ==
    \A i, j \in Message :
        i < j /\ handler[i].stage = "new" => handler[j].stage \in {"new", "none"}
LineWaits ==
    \A k \in 1 .. Len(session) :
        \/ handler[session[k]].stage = "session"
        \/ k = 1 /\ handler[session[k]].stage = "format"
LineIncreases == \A k, l \in 1 .. Len(session) : k < l => session[k] < session[l]
LineComplete ==
    \A i \in Message : handler[i].stage \in {"session", "format"}
        => \E k \in 1 .. Len(session) : session[k] = i
FormatStages ==
    \A i \in Message :
        /\ handler[i].stage = "format" => handler[i].kind = "format"
        /\ handler[i].kind = "format"
              => handler[i].stage \in {"none", "new", "session", "format", "done"}

InOrder ==
    /\ SentStarted /\ StartsInOrder /\ FormatStages
    /\ LineWaits /\ LineIncreases /\ LineComplete

\* What the messages of an editor say of the text of their document.
MessageOK(i) ==
    LET h == handler[i] IN
    /\ h.to # Garbage
    /\ h.kind = "open" => h.to # Absent
    /\ h.kind \in {"change", "replace"} => h.from # Absent /\ h.to # Absent
    /\ h.kind = "close" => h.to = Absent
    /\ h.kind = "format" => h.to = h.from

First(i) == \A j \in Message : j < i /\ handler[j].doc = handler[i].doc => ~Waits(j)
Last(i) == \A j \in Message : j > i /\ handler[j].doc = handler[i].doc => ~Waits(j)
Follows(j, i) ==
    /\ i < j /\ handler[i].doc = handler[j].doc
    /\ \A k \in Message : i < k /\ k < j /\ handler[k].doc = handler[i].doc => ~Waits(k)

NoGarbage == \A d \in Doc : text[d] # Garbage /\ buffer[d] # Garbage /\ disk[d] # Garbage
MessagesOK == \A i \in Message : i <= sent => MessageOK(i)
SettledIsBuffer ==
    \A d \in Doc :
        (\A i \in Message : handler[i].doc = d => ~Waits(i)) /\ buffer[d] # Absent
            => text[d] \in {Absent, buffer[d]}
FirstApplies ==
    \A i \in Message : Waits(i) /\ First(i) /\ handler[i].from # Absent
        => text[handler[i].doc] \in {Absent, handler[i].from}
LastIsBuffer ==
    \A i \in Message : Waits(i) /\ Last(i) => handler[i].to = buffer[handler[i].doc]
NextApplies ==
    \A i, j \in Message : Waits(i) /\ Waits(j) /\ Follows(j, i)
        => handler[j].from = handler[i].to

\* The messages about a document that still wait lead from its text in the bowl
\* to the editor's buffer, each one made to what the one before it leaves.
EditsChain ==
    /\ NoGarbage /\ MessagesOK
    /\ SettledIsBuffer /\ FirstApplies /\ LastIsBuffer /\ NextApplies

\* Formatting holds the session mutex between its two reads.
FormatSteady ==
    \A i \in Message :
        /\ handler[i].stage = "format" =>
              Holds(session, i) /\ handler[i].read.rope = text[handler[i].doc]
        /\ handler[i].kind = "format" /\ handler[i].stage = "done" =>
              handler[i].read.rope = handler[i].read.rows[handler[i].doc]

PublishersWait ==
    \A k \in 1 .. Len(publisher) :
        \/ handler[publisher[k]].stage = "publisher"
        \/ k = 1 /\ ~handler[publisher[k]].alone /\ Publishes(publisher[k])
PublishersDistinct == \A k, l \in 1 .. Len(publisher) : k # l => publisher[k] # publisher[l]
PublisherHolds == \A i \in Message : ~handler[i].alone /\ Publishes(i) => Holds(publisher, i)

\* Only the head of the publisher mutex publishes, but for a closed document's
\* handler, which does so on its own before it gets in line.
PublishersInLine == PublishersWait /\ PublishersDistinct /\ PublisherHolds

OpenHasText == \A d \in open : text[d] # Absent

\* Somebody will still publish every open document.
Pending ==
    \E i \in Message : handler[i].stage = "publisher" \/ (handler[i].alone /\ Publishes(i))

Reads(i, d) == ~handler[i].alone /\ handler[i].stage \in {"rows", "send"} /\ handler[i].at = d

\* The diagnostics of d are present, or will be when the publisher is done.
Covered(d) ==
    \/ \E i \in Message : ~handler[i].alone /\ Publishes(i) /\ d \in handler[i].todo
    \/ \E i \in Message :
          /\ Reads(i, d) /\ handler[i].read.rope = text[d]
          /\ handler[i].stage = "send" => handler[i].read.rows = text
    \/ /\ shown[d].rope = text[d] /\ shown[d].rows = text
       /\ \A i \in Message : ~Reads(i, d)

PublishesPresent == Pending \/ \A d \in open : Covered(d)

-----------------------------------------------------------------------------
(* Types *)

Stage == {"none", "new", "session", "format", "publisher", "publish", "rows", "send", "done"}

\* A handler whose stage alone changes.
LEMMA StageTyped ==
  ASSUME NEW h \in Handler, NEW s \in Stage
  PROVE  [h EXCEPT !.stage = s] \in Handler
  BY DEF Handler, Stage

LEMMA TypeInitially == Init => TypeOK
<1> SUFFICES ASSUME Init PROVE TypeOK
  OBVIOUS
<1> USE LspAssumption
<1>1. Absent \in Text /\ Original \in Text
  BY DEF Text, Absent, Original
<1>2. PICK d0 \in Doc : d0 = CHOOSE d \in Doc : TRUE
  OBVIOUS
<1>3. NothingRead \in Publication
  BY <1>1 DEF NothingRead, Publication, Texts
<1>4. [kind |-> "none", doc |-> d0, from |-> Absent, to |-> Absent, stage |-> "none", todo |-> {},
       alone |-> FALSE, at |-> d0, read |-> NothingRead] \in Handler
  BY <1>1, <1>3 DEF Handler
<1>5. handler \in [Message -> Handler]
  BY <1>2, <1>4 DEF Init
<1>6. disk \in Texts /\ buffer \in Texts /\ text \in Texts
  BY <1>1 DEF Init, Texts
<1>7. shown \in [Doc -> Publication]
  BY <1>3 DEF Init
<1>8. session \in Seq(Message) /\ publisher \in Seq(Message)
  BY DEF Init
<1> QED
  BY <1>5, <1>6, <1>7, <1>8 DEF Init, TypeOK

\* What Send does, for one of the kinds of messages.
LEMMA SendTyped ==
  ASSUME TypeOK, NEW d \in Doc, NEW kind \in {"open", "change", "replace", "close", "format"},
         NEW from \in Text, NEW to \in Text, Send(kind, d, from, to)
  PROVE  /\ sent' = sent + 1 /\ sent' \in Message
         /\ handler' \in [Message -> Handler]
         /\ \A j \in Message \ {sent'} : handler'[j] = handler[j]
         /\ handler'[sent'].kind = kind /\ handler'[sent'].doc = d
         /\ handler'[sent'].from = from /\ handler'[sent'].to = to
         /\ handler'[sent'].stage = "new"
         /\ handler'[sent'].alone = handler[sent'].alone
         /\ UNCHANGED <<disk, text, open, rev, session, publisher, shown>>
<1> USE LspAssumption DEF TypeOK
<1>1. sent' = sent + 1 /\ sent' \in Message
  BY DEF Send, Message
<1> DEFINE h == handler[sent']
<1>2. h \in Handler
  BY <1>1
<1>3. /\ [h EXCEPT !.kind = kind, !.doc = d, !.from = from, !.to = to, !.stage = "new"] \in Handler
      /\ [h EXCEPT !.kind = kind, !.doc = d, !.from = from, !.to = to, !.stage = "new"].kind = kind
      /\ [h EXCEPT !.kind = kind, !.doc = d, !.from = from, !.to = to, !.stage = "new"].doc = d
      /\ [h EXCEPT !.kind = kind, !.doc = d, !.from = from, !.to = to, !.stage = "new"].from = from
      /\ [h EXCEPT !.kind = kind, !.doc = d, !.from = from, !.to = to, !.stage = "new"].to = to
      /\ [h EXCEPT !.kind = kind, !.doc = d, !.from = from, !.to = to, !.stage = "new"].stage = "new"
      /\ [h EXCEPT !.kind = kind, !.doc = d, !.from = from, !.to = to, !.stage = "new"].alone = h.alone
  BY <1>2 DEF Handler
<1>4. handler' = [handler EXCEPT ![sent'] =
                    [h EXCEPT !.kind = kind, !.doc = d, !.from = from, !.to = to, !.stage = "new"]]
  BY DEF Send
<1> HIDE DEF h
<1>5. /\ handler' \in [Message -> Handler]
      /\ \A j \in Message \ {sent'} : handler'[j] = handler[j]
      /\ handler'[sent'] = [h EXCEPT !.kind = kind, !.doc = d, !.from = from, !.to = to, !.stage = "new"]
  BY <1>1, <1>3, <1>4
<1> QED
  BY <1>1, <1>3, <1>5 DEF Send, h

-----------------------------------------------------------------------------
(* What each step does to the handlers *)

\* Handler i goes on; its message is what it was.
Moved(i) ==
    /\ handler' \in [Message -> Handler]
    /\ \A j \in Message \ {i} : handler'[j] = handler[j]
    /\ handler'[i].kind = handler[i].kind /\ handler'[i].doc = handler[i].doc
    /\ handler'[i].from = handler[i].from /\ handler'[i].to = handler[i].to

\* It goes to stage s, and nothing else of it changes.
MovedTo(i, s) ==
    /\ Moved(i) /\ handler'[i].stage = s
    /\ handler'[i].alone = handler[i].alone /\ handler'[i].todo = handler[i].todo
    /\ handler'[i].at = handler[i].at /\ handler'[i].read = handler[i].read

LEMMA SetMoves ==
  ASSUME TypeOK, NEW i \in Message, NEW s \in Stage, Set(i, s)
  PROVE  MovedTo(i, s)
<1> DEFINE h == handler[i]
<1>1. h \in Handler
  BY DEF TypeOK
<1>2. handler' = [handler EXCEPT ![i] = [h EXCEPT !.stage = s]]
  BY DEF Set
<1>3. /\ [h EXCEPT !.stage = s] \in Handler /\ [h EXCEPT !.stage = s].stage = s
      /\ [h EXCEPT !.stage = s].kind = h.kind /\ [h EXCEPT !.stage = s].doc = h.doc
      /\ [h EXCEPT !.stage = s].from = h.from /\ [h EXCEPT !.stage = s].to = h.to
      /\ [h EXCEPT !.stage = s].alone = h.alone /\ [h EXCEPT !.stage = s].todo = h.todo
      /\ [h EXCEPT !.stage = s].at = h.at /\ [h EXCEPT !.stage = s].read = h.read
  BY <1>1, StageTyped DEF Handler
<1> HIDE DEF h
<1>4. /\ handler' \in [Message -> Handler]
      /\ \A j \in Message \ {i} : handler'[j] = handler[j]
      /\ handler'[i] = [h EXCEPT !.stage = s]
  BY <1>2, <1>3 DEF TypeOK
<1> QED
  BY <1>3, <1>4 DEF MovedTo, Moved, h

\* The effects of the steps that change more of a handler.
CloseMoves(i) ==
    /\ Moved(i) /\ handler'[i].stage = "publish" /\ handler'[i].alone = TRUE
RopeMoves(i) ==
    /\ Moved(i) /\ handler'[i].stage = "format"
    /\ handler'[i].read.rope = text[handler[i].doc]
RegionsMove(i) ==
    /\ Moved(i) /\ handler'[i].stage = "done"
    /\ handler'[i].read.rope = handler[i].read.rope /\ handler'[i].read.rows = text
ListMoves(i) ==
    /\ Moved(i) /\ handler'[i].stage = "publish" /\ handler'[i].alone = FALSE
    /\ handler'[i].todo = open
ReadMoves(i, d) ==
    /\ Moved(i) /\ handler'[i].alone = handler[i].alone
    /\ handler'[i].stage = IF text[d] = Absent THEN "publish" ELSE "rows"
    /\ handler'[i].todo = handler[i].todo \ {d} /\ handler'[i].at = d
    /\ handler'[i].read.rope = text[d]
RowsMove(i) ==
    /\ Moved(i) /\ handler'[i].alone = handler[i].alone /\ handler'[i].stage = "send"
    /\ handler'[i].todo = handler[i].todo /\ handler'[i].at = handler[i].at
    /\ handler'[i].read.rope = handler[i].read.rope /\ handler'[i].read.rows = text

LEMMA HandlersMove ==
  ASSUME TypeOK, NEW i \in Message
  PROVE  /\ DidClose(i) => CloseMoves(i)
         /\ FormatRope(i) => RopeMoves(i)
         /\ FormatRegions(i) => RegionsMove(i)
         /\ ListOpen(i) => ListMoves(i)
         /\ \A d \in Doc : ReadRope(i, d) => ReadMoves(i, d)
         /\ ReadRows(i) => RowsMove(i)
<1> DEFINE h == handler[i]
<1>1. h \in Handler /\ text \in Texts /\ open \in SUBSET Doc /\ h.doc \in Doc /\ rev \in Nat
  BY DEF TypeOK, Handler
<1>2. /\ text[h.doc] \in Text
      /\ \A d \in Doc : text[d] \in Text
  BY <1>1 DEF Texts
<1>3. ASSUME DidClose(i) PROVE CloseMoves(i)
  <2> DEFINE e == [h EXCEPT !.stage = "publish", !.alone = TRUE, !.todo = {h.doc}]
  <2>1. /\ e \in Handler /\ e.stage = "publish" /\ e.alone = TRUE
        /\ e.kind = h.kind /\ e.doc = h.doc /\ e.from = h.from /\ e.to = h.to
    BY <1>1 DEF Handler
  <2>2. handler' = [handler EXCEPT ![i] = e]
    BY <1>3 DEF DidClose
  <2> HIDE DEF e
  <2> QED
    BY <2>1, <2>2 DEF TypeOK, CloseMoves, Moved
<1>4. ASSUME FormatRope(i) PROVE RopeMoves(i)
  <2> DEFINE r == [h.read EXCEPT !.rope = text[h.doc]]
             e == [h EXCEPT !.stage = "format", !.read = r]
  <2>1. h.read \in Publication
    BY <1>1 DEF Handler
  <2>2. r \in Publication /\ r.rope = text[h.doc]
    BY <1>2, <2>1 DEF Publication
  <2>3. handler' = [handler EXCEPT ![i] = e]
    BY <1>4 DEF FormatRope, TypeOK
  <2> HIDE DEF r
  <2>4. /\ e \in Handler /\ e.stage = "format" /\ e.read = r
        /\ e.kind = h.kind /\ e.doc = h.doc /\ e.from = h.from /\ e.to = h.to
    BY <1>1, <2>2 DEF Handler
  <2> HIDE DEF e
  <2> QED
    BY <2>2, <2>3, <2>4 DEF TypeOK, RopeMoves, Moved
<1>5. ASSUME FormatRegions(i) PROVE RegionsMove(i)
  <2> DEFINE r == [h.read EXCEPT !.rows = text]
             e == [h EXCEPT !.stage = "done", !.read = r]
  <2>1. h.read \in Publication
    BY <1>1 DEF Handler
  <2>2. r \in Publication /\ r.rope = h.read.rope /\ r.rows = text
    BY <1>1, <2>1 DEF Publication
  <2>3. handler' = [handler EXCEPT ![i] = e]
    BY <1>5 DEF FormatRegions, TypeOK
  <2> HIDE DEF r
  <2>4. /\ e \in Handler /\ e.stage = "done" /\ e.read = r
        /\ e.kind = h.kind /\ e.doc = h.doc /\ e.from = h.from /\ e.to = h.to
    BY <1>1, <2>2 DEF Handler
  <2> HIDE DEF e
  <2> QED
    BY <2>2, <2>3, <2>4 DEF TypeOK, RegionsMove, Moved
<1>6. ASSUME ListOpen(i) PROVE ListMoves(i)
  <2> DEFINE e == [h EXCEPT !.stage = "publish", !.todo = open, !.alone = FALSE]
  <2>1. /\ e \in Handler /\ e.stage = "publish" /\ e.alone = FALSE /\ e.todo = open
        /\ e.kind = h.kind /\ e.doc = h.doc /\ e.from = h.from /\ e.to = h.to
    BY <1>1 DEF Handler
  <2>2. handler' = [handler EXCEPT ![i] = e]
    BY <1>6 DEF ListOpen, TypeOK
  <2> HIDE DEF e
  <2> QED
    BY <2>1, <2>2 DEF TypeOK, ListMoves, Moved
<1>7. ASSUME NEW d \in Doc, ReadRope(i, d) PROVE ReadMoves(i, d)
  <2> DEFINE s == IF text[d] = Absent THEN "publish" ELSE "rows"
             r == [rev |-> rev, rope |-> text[d], rows |-> h.read.rows]
             e == [h EXCEPT !.todo = h.todo \ {d}, !.at = d, !.stage = s, !.read = r]
  <2>1. h.read \in Publication
    BY <1>1 DEF Handler
  <2>2. r \in Publication /\ r.rope = text[d]
    BY <1>1, <1>2, <2>1 DEF Publication
  <2>3. handler' = [handler EXCEPT ![i] = e]
    BY <1>7 DEF ReadRope, TypeOK
  <2>4. s \in {"publish", "rows"}
    OBVIOUS
  <2> HIDE DEF r, s
  <2>5. /\ e \in Handler /\ e.stage = s /\ e.alone = h.alone /\ e.todo = h.todo \ {d}
        /\ e.at = d /\ e.read = r
        /\ e.kind = h.kind /\ e.doc = h.doc /\ e.from = h.from /\ e.to = h.to
    BY <1>1, <2>2, <2>4 DEF Handler
  <2> HIDE DEF e
  <2> QED
    BY <2>2, <2>3, <2>5 DEF TypeOK, ReadMoves, Moved, s
<1>8. ASSUME ReadRows(i) PROVE RowsMove(i)
  <2> DEFINE r == [h.read EXCEPT !.rows = text]
             e == [h EXCEPT !.stage = "send", !.read = r]
  <2>1. h.read \in Publication
    BY <1>1 DEF Handler
  <2>2. r \in Publication /\ r.rope = h.read.rope /\ r.rows = text
    BY <1>1, <2>1 DEF Publication
  <2>3. handler' = [handler EXCEPT ![i] = e]
    BY <1>8 DEF ReadRows, TypeOK
  <2> HIDE DEF r
  <2>4. /\ e \in Handler /\ e.stage = "send" /\ e.read = r
        /\ e.alone = h.alone /\ e.todo = h.todo /\ e.at = h.at
        /\ e.kind = h.kind /\ e.doc = h.doc /\ e.from = h.from /\ e.to = h.to
    BY <1>1, <2>2 DEF Handler
  <2> HIDE DEF e
  <2> QED
    BY <2>2, <2>3, <2>4 DEF TypeOK, RowsMove, Moved
<1> QED
  BY <1>3, <1>4, <1>5, <1>6, <1>7, <1>8

-----------------------------------------------------------------------------
(* Types are kept *)

\* What the editor's actions amount to: a message with the buffer before and
\* after it, or a file saved.
Sent(d) ==
    \E kind \in {"open", "change", "replace", "close", "format"}, to \in Text :
        /\ Send(kind, d, buffer[d], to)
        /\ buffer' = [buffer EXCEPT ![d] = to]
        /\ kind = "open" => buffer[d] = Absent /\ to # Absent /\ (to = disk[d] \/ to >= 3)
        /\ kind \in {"change", "replace"} => buffer[d] # Absent /\ to >= 3
        /\ kind = "close" => to = Absent
        /\ kind = "format" => to = buffer[d]

LEMMA EditsSend ==
  ASSUME TypeOK, NEW d \in Doc, Edit(d)
  PROVE  Sent(d) \/ Save(d)
<1> USE LspAssumption
<1>1. disk \in Texts /\ buffer \in Texts /\ disk[d] \in Text /\ buffer[d] \in Text
  BY DEF TypeOK, Texts
<1>2. sent < MaxMessages => NewText \in Text /\ NewText >= 3
  BY DEF TypeOK, NewText, Text
<1>3. Absent \in Text
  BY DEF Absent, Text
<1>4. CASE SendOpen(d)
  <2>1. PICK t \in {disk[d], NewText} \ {Absent} :
          Send("open", d, Absent, t) /\ buffer' = [buffer EXCEPT ![d] = t]
    BY <1>4 DEF SendOpen
  <2>2. t \in Text /\ t # Absent /\ (t = disk[d] \/ t >= 3) /\ buffer[d] = Absent
    BY <1>1, <1>2, <1>4, <2>1 DEF Send, SendOpen
  <2> QED
    BY <2>1, <2>2 DEF Sent
<1>5. CASE \E kind \in {"change", "replace"} : SendChange(d, kind)
  <2>1. PICK kind \in {"change", "replace"} : SendChange(d, kind)
    BY <1>5
  <2>2. NewText \in Text /\ NewText >= 3
    BY <1>2, <2>1 DEF SendChange, Send
  <2> QED
    BY <2>1, <2>2 DEF SendChange, Sent
<1>6. CASE SendClose(d)
  BY <1>3, <1>6 DEF SendClose, Sent
<1>7. CASE SendFormat(d)
  <2>1. buffer' = [buffer EXCEPT ![d] = buffer[d]]
    BY <1>1, <1>7 DEF SendFormat, Texts
  <2> QED
    BY <1>1, <1>7, <2>1 DEF SendFormat, Sent
<1> QED
  BY <1>4, <1>5, <1>6, <1>7 DEF Edit

\* What is left of a text by a change is a text.
LEMMA EditedTyped ==
  ASSUME TypeOK, NEW i \in Message, NEW t \in Text
  PROVE  Edited(i, t) \in Text
<1>1. handler[i].to \in Text
  BY DEF TypeOK, Handler
<1> QED
  BY <1>1, LspAssumption DEF Edited, Text, Absent, Garbage

\* A mutex is left and entered.
LEMMA QueuesTyped ==
  ASSUME NEW q \in Seq(Message), NEW i \in Message
  PROVE  Append(q, i) \in Seq(Message) /\ (Holds(q, i) => Tail(q) \in Seq(Message))
  BY DEF Holds

LEMMA TypeStep == TypeOK /\ [Next]_vars => TypeOK'
<1> SUFFICES ASSUME TypeOK, [Next]_vars PROVE TypeOK'
  OBVIOUS
<1>1. /\ disk \in Texts /\ buffer \in Texts /\ text \in Texts /\ open \in SUBSET Doc
      /\ rev \in Nat /\ rev + 1 \in Nat
      /\ session \in Seq(Message) /\ publisher \in Seq(Message)
      /\ \A i \in Message : handler[i] \in Handler
  BY DEF TypeOK
<1>2. ASSUME NEW d \in Doc, Sent(d) PROVE TypeOK'
  <2>1. PICK kind \in {"open", "change", "replace", "close", "format"}, to \in Text :
          Send(kind, d, buffer[d], to) /\ buffer' = [buffer EXCEPT ![d] = to]
    BY <1>2 DEF Sent
  <2>2. buffer[d] \in Text
    BY <1>1 DEF Texts
  <2>3. /\ sent' \in Message /\ handler' \in [Message -> Handler]
        /\ UNCHANGED <<disk, text, open, rev, session, publisher, shown>>
    BY <2>1, <2>2, SendTyped
  <2>4. buffer' \in Texts
    BY <1>1, <2>1 DEF Texts
  <2>5. sent' \in 0 .. MaxMessages
    BY <2>3, LspAssumption DEF Message
  <2> QED
    BY <1>1, <2>3, <2>4, <2>5 DEF TypeOK
<1>3. ASSUME NEW d \in Doc, Save(d) PROVE TypeOK'
  <2>1. buffer[d] \in Text
    BY <1>1 DEF Texts
  <2> QED
    BY <1>1, <1>3, <2>1 DEF Save, TypeOK, Texts
<1>4. ASSUME NEW i \in Message, Step(i) PROVE TypeOK'
  <2>1. handler[i].doc \in Doc /\ handler[i].to \in Text /\ handler[i].read \in Publication
        /\ handler[i].at \in Doc
    BY <1>1 DEF Handler
  <2>2. CASE Start(i)
    <3>1. Set(i, "session") /\ session' = Append(session, i)
          /\ UNCHANGED <<disk, buffer, sent, text, open, rev, publisher, shown>>
      BY <2>2 DEF Start, InLine
    <3>2. handler' \in [Message -> Handler]
      BY <3>1, SetMoves DEF MovedTo, Moved, Stage
    <3> QED
      BY <1>1, <3>1, <3>2, QueuesTyped DEF TypeOK
  <2>3. ASSUME Holds(session, i), ThenPublish(i), text' \in Texts, open' \in SUBSET Doc, rev' = rev + 1
        PROVE  TypeOK'
    <3>1. handler' \in [Message -> Handler]
      BY <2>3, SetMoves DEF MovedTo, Moved, Stage, ThenPublish
    <3> QED
      BY <1>1, <2>3, <3>1, QueuesTyped DEF TypeOK, ThenPublish
  <2>4. CASE DidOpen(i)
    <3>1. text' \in Texts /\ open' \in SUBSET Doc
      BY <1>1, <2>1, <2>4 DEF DidOpen, Texts
    <3> QED
      BY <2>3, <2>4, <3>1 DEF DidOpen
  <2>5. CASE DidOpenForeign(i)
    <3>1. handler' \in [Message -> Handler]
      BY <2>5, SetMoves DEF DidOpenForeign, MovedTo, Moved, Stage
    <3> QED
      BY <1>1, <2>5, <3>1, QueuesTyped DEF TypeOK, DidOpenForeign
  <2>6. CASE DidChange(i)
    <3>1. Edited(i, text[handler[i].doc]) \in Text
      BY <1>1, <2>1, EditedTyped DEF Texts
    <3>2. text' \in Texts /\ open' \in SUBSET Doc
      BY <1>1, <2>6, <3>1 DEF DidChange, Texts
    <3> QED
      BY <2>3, <2>6, <3>2 DEF DidChange
  <2>7. CASE DidClose(i)
    <3>1. handler' \in [Message -> Handler]
      BY <2>7, HandlersMove DEF CloseMoves, Moved
    <3>2. text' \in Texts
      BY <1>1, <2>1, <2>7 DEF DidClose, Texts
    <3> QED
      BY <1>1, <2>7, <3>1, <3>2, QueuesTyped DEF TypeOK, DidClose
  <2>8. CASE FormatRope(i)
    <3>1. handler' \in [Message -> Handler]
      BY <2>8, HandlersMove DEF RopeMoves, Moved
    <3> QED
      BY <1>1, <2>8, <3>1 DEF TypeOK, FormatRope, Held
  <2>9. CASE FormatRegions(i)
    <3>1. handler' \in [Message -> Handler]
      BY <2>9, HandlersMove DEF RegionsMove, Moved
    <3>2. session' \in Seq(Message)
      BY <1>1, <2>9, QueuesTyped DEF FormatRegions
    <3> QED
      BY <1>1, <2>9, <3>1, <3>2 DEF TypeOK, FormatRegions
  <2>10. CASE ListOpen(i)
    <3>1. handler' \in [Message -> Handler]
      BY <2>10, HandlersMove DEF ListMoves, Moved
    <3> QED
      BY <1>1, <2>10, <3>1 DEF TypeOK, ListOpen
  <2>11. CASE ReadRows(i)
    <3>1. handler' \in [Message -> Handler]
      BY <2>11, HandlersMove DEF RowsMove, Moved
    <3> QED
      BY <1>1, <2>11, <3>1 DEF TypeOK, ReadRows
  <2>12. CASE Publish(i)
    <3>1. handler' \in [Message -> Handler]
      BY <2>12, SetMoves DEF Publish, MovedTo, Moved, Stage
    <3>2. shown' \in [Doc -> Publication]
      BY <2>1, <2>12 DEF TypeOK, Publish
    <3> QED
      BY <1>1, <2>12, <3>1, <3>2 DEF TypeOK, Publish
  <2>13. CASE EndPublish(i)
    <3>1. handler' \in [Message -> Handler]
      BY <2>13, SetMoves DEF EndPublish, MovedTo, Moved, Stage
    <3>2. publisher' \in Seq(Message)
      BY <1>1, <2>13, QueuesTyped DEF EndPublish, Leave
    <3> QED
      BY <1>1, <2>13, <3>1, <3>2 DEF TypeOK, EndPublish
  <2>14. ASSUME NEW d \in Doc, ReadRope(i, d) PROVE TypeOK'
    <3>1. handler' \in [Message -> Handler]
      BY <2>14, HandlersMove DEF ReadMoves, Moved
    <3> QED
      BY <1>1, <2>14, <3>1 DEF TypeOK, ReadRope
  <2> QED
    BY <1>4, <2>2, <2>4, <2>5, <2>6, <2>7, <2>8, <2>9, <2>10, <2>11, <2>12, <2>13, <2>14 DEF Step
<1>5. CASE UNCHANGED vars
  BY <1>5 DEF TypeOK, vars
<1> QED
  BY <1>2, <1>3, <1>4, <1>5, EditsSend DEF Next

-----------------------------------------------------------------------------
(* Messages take effect in their order *)

\* The four ways a step can concern the session mutex: its handler gets in
\* line, starts formatting, gives the mutex back, or is past it.
Starts(i) ==
    /\ handler[i].stage = "new" /\ \A j \in 1 .. i - 1 : handler[j].stage # "new"
    /\ MovedTo(i, "session") /\ session' = Append(session, i)
    /\ UNCHANGED <<disk, buffer, sent, text, open, publisher, shown>>
Formats(i) ==
    /\ Holds(session, i) /\ handler[i].kind = "format" /\ handler[i].stage = "session"
    /\ RopeMoves(i)
    /\ UNCHANGED <<disk, buffer, sent, text, open, session, publisher, shown>>
Leaves(i) ==
    /\ Holds(session, i) /\ session' = Tail(session) /\ Moved(i)
    /\ handler'[i].stage \in {"publisher", "publish", "done"}
    /\ handler[i].kind = "format" =>
          handler[i].stage = "format" /\ RegionsMove(i) /\ text' = text
    /\ UNCHANGED <<disk, buffer, sent, shown>>
Advances(i) ==
    /\ handler[i].stage \in {"publisher", "publish", "rows", "send"} /\ Moved(i)
    /\ handler'[i].stage \in {"publisher", "publish", "rows", "send", "done"}
    /\ UNCHANGED <<disk, buffer, sent, text, open, session>>

LEMMA FormatHolds ==
  ASSUME TypeOK, InOrder, NEW i \in Message, handler[i].stage = "format"
  PROVE  Holds(session, i)
<1>1. PICK k \in 1 .. Len(session) : session[k] = i
  BY DEF InOrder, LineComplete
<1>2. k = 1
  BY <1>1 DEF InOrder, LineWaits
<1> QED
  BY <1>1, <1>2 DEF Holds, TypeOK

LEMMA HeadWaits ==
  ASSUME TypeOK, InOrder, NEW i \in Message, Holds(session, i)
  PROVE  /\ Len(session) \in Nat /\ Len(session) >= 1 /\ session[1] = i
         /\ handler[i].stage \in {"session", "format"}
  BY DEF TypeOK, InOrder, LineWaits, Holds

LEMMA StepConcernsSession ==
  ASSUME TypeOK, InOrder, NEW i \in Message, Step(i)
  PROVE  Starts(i) \/ Formats(i) \/ Leaves(i) \/ Advances(i)
<1>1. CASE Start(i)
  BY <1>1, SetMoves DEF Start, Starts, InLine, Stage
<1>2. CASE DidOpen(i)
  BY <1>2, SetMoves DEF DidOpen, ThenPublish, Leaves, MovedTo, Stage
<1>3. CASE DidOpenForeign(i)
  BY <1>3, SetMoves DEF DidOpenForeign, Leaves, MovedTo, Stage
<1>4. CASE DidChange(i)
  BY <1>4, SetMoves DEF DidChange, ThenPublish, Leaves, MovedTo, Stage
<1>5. CASE DidClose(i)
  BY <1>5, HandlersMove DEF DidClose, Leaves, CloseMoves
<1>6. CASE FormatRope(i)
  BY <1>6, HandlersMove DEF FormatRope, Formats, Held
<1>7. CASE FormatRegions(i)
  <2>1. Holds(session, i)
    BY <1>7, FormatHolds DEF FormatRegions
  <2> QED
    BY <1>7, <2>1, HandlersMove DEF FormatRegions, Leaves, RegionsMove
<1>8. CASE ListOpen(i)
  BY <1>8, HandlersMove DEF ListOpen, Advances, ListMoves
<1>9. CASE ReadRows(i)
  BY <1>9, HandlersMove DEF ReadRows, Advances, RowsMove
<1>10. CASE Publish(i)
  BY <1>10, SetMoves DEF Publish, Advances, MovedTo, Stage
<1>11. CASE EndPublish(i)
  BY <1>11, SetMoves DEF EndPublish, Advances, MovedTo, Stage
<1>12. ASSUME NEW d \in Doc, ReadRope(i, d) PROVE Advances(i)
  BY <1>12, HandlersMove DEF ReadRope, Advances, ReadMoves
<1> QED
  BY <1>1, <1>2, <1>3, <1>4, <1>5, <1>6, <1>7, <1>8, <1>9, <1>10, <1>11, <1>12 DEF Step

LEMMA OrderStep == TypeOK /\ InOrder /\ [Next]_vars => InOrder'
<1> SUFFICES ASSUME TypeOK, InOrder, [Next]_vars PROVE InOrder'
  OBVIOUS
<1>1. session \in Seq(Message) /\ Message \subseteq Nat /\ sent \in Nat
  BY DEF TypeOK, Message
<1>2. ASSUME NEW d \in Doc, Sent(d) PROVE InOrder'
  <2>1. PICK kind \in {"open", "change", "replace", "close", "format"}, to \in Text :
          Send(kind, d, buffer[d], to)
    BY <1>2 DEF Sent
  <2>2. buffer[d] \in Text
    BY DEF TypeOK, Texts
  <2>3. /\ sent' = sent + 1 /\ sent' \in Message /\ session' = session
        /\ \A j \in Message \ {sent'} : handler'[j] = handler[j]
        /\ handler'[sent'].kind = kind /\ handler'[sent'].stage = "new"
    BY <2>1, <2>2, SendTyped
  <2>4. handler[sent'].stage = "none"
    BY <1>1, <2>3 DEF InOrder, SentStarted
  <2>5. SentStarted'
    BY <1>1, <2>3 DEF InOrder, SentStarted
  <2>6. StartsInOrder'
    BY <1>1, <2>3 DEF InOrder, StartsInOrder, SentStarted
  <2>7. \A k \in 1 .. Len(session) : session[k] \in Message /\ session[k] # sent'
    BY <1>1, <2>4 DEF InOrder, LineWaits
  <2>8. LineWaits'
    BY <1>1, <2>3, <2>7 DEF InOrder, LineWaits
  <2>9. LineIncreases' /\ LineComplete'
    BY <2>3 DEF InOrder, LineIncreases, LineComplete
  <2>10. FormatStages'
    BY <2>3 DEF InOrder, FormatStages
  <2> QED
    BY <2>5, <2>6, <2>8, <2>9, <2>10 DEF InOrder
<1>3. ASSUME NEW d \in Doc, Save(d) PROVE InOrder'
  BY <1>3 DEF Save, InOrder, SentStarted, StartsInOrder, FormatStages, LineWaits, LineIncreases, LineComplete
<1>4. ASSUME NEW i \in Message, Starts(i) PROVE InOrder'
  <2>1. /\ session' = Append(session, i) /\ sent' = sent
        /\ \A j \in Message \ {i} : handler'[j] = handler[j]
        /\ handler'[i].kind = handler[i].kind /\ handler'[i].stage = "session"
        /\ handler[i].stage = "new"
    BY <1>4 DEF Starts, MovedTo, Moved
  <2>2. /\ Len(session') = Len(session) + 1 /\ session'[Len(session) + 1] = i
        /\ \A k \in 1 .. Len(session) : session'[k] = session[k] /\ session[k] \in Message
    BY <1>1, <2>1
  <2>3. ASSUME NEW k \in 1 .. Len(session) PROVE session[k] < i
    <3>1. session[k] \in Message /\ handler[session[k]].stage \in {"session", "format"}
      BY <2>2 DEF InOrder, LineWaits
    <3>2. ~(i < session[k]) /\ i # session[k]
      BY <2>1, <3>1 DEF InOrder, StartsInOrder
    <3>3. session[k] \in Nat /\ i \in Nat
      BY <3>1 DEF Message
    <3> QED
      BY <3>2, <3>3
  <2>4. LineIncreases'
    BY <1>1, <2>2, <2>3 DEF InOrder, LineIncreases
  <2>5. StartsInOrder'
    BY <1>1, <1>4, <2>1 DEF InOrder, StartsInOrder, Starts, Message
  <2>6. LineWaits'
    <3> SUFFICES ASSUME NEW k \in 1 .. Len(session')
                 PROVE  \/ handler'[session'[k]].stage = "session"
                        \/ k = 1 /\ handler'[session'[k]].stage = "format"
      BY DEF LineWaits
    <3>1. CASE k = Len(session) + 1
      BY <2>1, <2>2, <3>1
    <3>2. CASE k \in 1 .. Len(session)
      <4>1. session'[k] = session[k] /\ session[k] \in Message \ {i}
        BY <1>1, <2>2, <2>3, <3>2 DEF Message
      <4> QED
        BY <2>1, <3>2, <4>1 DEF InOrder, LineWaits
    <3> QED
      BY <1>1, <2>2, <3>1, <3>2
  <2>7. LineComplete'
    BY <1>1, <2>1, <2>2 DEF InOrder, LineComplete
  <2>8. SentStarted' /\ FormatStages'
    BY <2>1 DEF InOrder, SentStarted, FormatStages
  <2> QED
    BY <2>4, <2>5, <2>6, <2>7, <2>8 DEF InOrder
<1>5. ASSUME NEW i \in Message, Formats(i) PROVE InOrder'
  <2>1. /\ session' = session /\ sent' = sent /\ session[1] = i
        /\ \A j \in Message \ {i} : handler'[j] = handler[j]
        /\ handler'[i].kind = "format" /\ handler'[i].stage = "format"
        /\ handler[i].stage = "session"
    BY <1>5, HeadWaits DEF Formats, RopeMoves, Moved
  <2>2. SentStarted' /\ StartsInOrder' /\ FormatStages'
    BY <2>1 DEF InOrder, SentStarted, StartsInOrder, FormatStages
  <2>3. \A k \in 1 .. Len(session) : session[k] \in Message /\ (k # 1 => session[k] # i)
    BY <1>1, <2>1 DEF InOrder, LineIncreases
  <2>4. LineWaits'
    BY <1>1, <2>1, <2>3 DEF InOrder, LineWaits
  <2>5. LineIncreases' /\ LineComplete'
    BY <2>1 DEF InOrder, LineIncreases, LineComplete
  <2> QED
    BY <2>2, <2>4, <2>5 DEF InOrder
<1>6. ASSUME NEW i \in Message, Leaves(i) PROVE InOrder'
  <2>1. /\ session' = Tail(session) /\ sent' = sent
        /\ Len(session) >= 1 /\ session[1] = i /\ handler[i].stage \in {"session", "format"}
        /\ \A j \in Message \ {i} : handler'[j] = handler[j]
        /\ handler'[i].kind = handler[i].kind
        /\ handler'[i].stage \in {"publisher", "publish", "done"}
        /\ handler[i].kind = "format" => handler'[i].stage = "done"
    BY <1>6, HeadWaits DEF Leaves, Moved, RegionsMove
  <2>2. /\ Len(session') = Len(session) - 1
        /\ \A k \in 1 .. Len(session') : session'[k] = session[k + 1] /\ session[k + 1] \in Message
    BY <1>1, <2>1
  <2>3. \A k \in 1 .. Len(session') : session[k + 1] > i /\ handler[session[k + 1]].stage = "session"
    BY <1>1, <2>1, <2>2 DEF InOrder, LineWaits, LineIncreases
  <2>4. LineIncreases'
    BY <1>1, <2>1, <2>2 DEF InOrder, LineIncreases
  <2>5. \A j \in Message : handler'[j].stage \in {"session", "format"}
          => \E k \in 1 .. Len(session') : session'[k] = j
    <3> SUFFICES ASSUME NEW j \in Message, handler'[j].stage \in {"session", "format"}
                 PROVE  \E k \in 1 .. Len(session') : session'[k] = j
      OBVIOUS
    <3>1. j # i /\ handler[j].stage \in {"session", "format"}
      BY <2>1
    <3>2. PICK k \in 1 .. Len(session) : session[k] = j
      BY <3>1 DEF InOrder, LineComplete
    <3>3. k - 1 \in 1 .. Len(session') /\ session'[k - 1] = j
      BY <1>1, <2>1, <2>2, <3>1, <3>2
    <3> QED
      BY <3>3
  <2>6. SentStarted' /\ StartsInOrder' /\ FormatStages'
    <3>1. SentStarted'
      BY <1>1, <2>1 DEF InOrder, SentStarted
    <3>2. StartsInOrder'
      BY <1>1, <2>1 DEF InOrder, StartsInOrder
    <3>3. FormatStages'
      BY <1>1, <2>1 DEF InOrder, FormatStages
    <3> QED
      BY <3>1, <3>2, <3>3
  <2>7. ASSUME NEW k \in 1 .. Len(session') PROVE handler'[session'[k]].stage = "session"
    <3>1. session'[k] \in Message \ {i} /\ handler[session'[k]].stage = "session"
      BY <1>1, <2>2, <2>3
    <3> QED
      BY <2>1, <3>1
  <2>8. LineWaits'
    BY <2>7 DEF LineWaits
  <2>9. LineComplete'
    BY <2>5 DEF LineComplete
  <2> QED
    BY <2>4, <2>6, <2>8, <2>9 DEF InOrder
<1>7. ASSUME NEW i \in Message, Advances(i) PROVE InOrder'
  <2>1. /\ session' = session /\ sent' = sent
        /\ \A j \in Message \ {i} : handler'[j] = handler[j]
        /\ handler'[i].kind = handler[i].kind
        /\ handler[i].stage \in {"publisher", "publish", "rows", "send"}
        /\ handler'[i].stage \in {"publisher", "publish", "rows", "send", "done"}
    BY <1>7 DEF Advances, Moved
  <2>2. \A k \in 1 .. Len(session) : session[k] \in Message /\ session[k] # i
    BY <1>1, <2>1 DEF InOrder, LineWaits
  <2>3. SentStarted' /\ StartsInOrder' /\ FormatStages'
    BY <2>1 DEF InOrder, SentStarted, StartsInOrder, FormatStages
  <2>4. LineWaits'
    BY <2>1, <2>2 DEF InOrder, LineWaits
  <2>5. LineIncreases' /\ LineComplete'
    BY <2>1 DEF InOrder, LineIncreases, LineComplete
  <2> QED
    BY <2>3, <2>4, <2>5 DEF InOrder
<1>8. CASE UNCHANGED vars
  BY <1>8 DEF InOrder, SentStarted, StartsInOrder, FormatStages, LineWaits, LineIncreases, LineComplete, vars
<1> QED
  BY <1>2, <1>3, <1>4, <1>5, <1>6, <1>7, <1>8, EditsSend, StepConcernsSession DEF Next

-----------------------------------------------------------------------------
(* The bowl follows the editor *)

\* Whoever holds the session mutex is the first that waits, of all documents.
LEMMA HolderIsFirst ==
  ASSUME TypeOK, InOrder, NEW i \in Message, Holds(session, i), handler[i].stage = "session"
  PROVE  Waits(i) /\ First(i)
<1>1. Waits(i)
  BY DEF Waits
<1>2. ASSUME NEW j \in Message, j < i, Waits(j) PROVE FALSE
  <2>1. CASE handler[j].stage = "new"
    BY <1>2, <2>1 DEF InOrder, StartsInOrder
  <2>2. CASE handler[j].stage = "session"
    <3>1. PICK k \in 1 .. Len(session) : session[k] = j
      BY <2>2 DEF InOrder, LineComplete
    <3>2. session[1] = i /\ 1 \in 1 .. Len(session)
      BY HeadWaits
    <3>3. i \in Nat /\ j \in Nat
      BY DEF Message
    <3> QED
      BY <1>2, <3>1, <3>2, <3>3 DEF InOrder, LineIncreases
  <2> QED
    BY <1>2, <2>1, <2>2 DEF Waits
<1> QED
  BY <1>1, <1>2 DEF First

\* Nothing that EditsChain is about changes.
LEMMA ChainSame ==
  ASSUME EditsChain, UNCHANGED <<text, buffer, disk, sent>>,
         \A i \in Message :
            /\ handler'[i].kind = handler[i].kind /\ handler'[i].doc = handler[i].doc
            /\ handler'[i].from = handler[i].from /\ handler'[i].to = handler[i].to
            /\ Waits(i)' <=> Waits(i)
  PROVE  EditsChain'
<1>1. \A i \in Message : (First(i)' <=> First(i)) /\ (Last(i)' <=> Last(i))
  BY DEF First, Last
<1>2. \A i, j \in Message : Follows(j, i)' <=> Follows(j, i)
  BY DEF Follows
<1>3. NoGarbage' /\ MessagesOK'
  BY DEF EditsChain, NoGarbage, MessagesOK, MessageOK
<1>4. SettledIsBuffer'
  BY DEF EditsChain, SettledIsBuffer
<1>5. FirstApplies'
  BY <1>1 DEF EditsChain, FirstApplies
<1>6. LastIsBuffer'
  BY <1>1 DEF EditsChain, LastIsBuffer
<1>7. NextApplies'
  BY <1>2 DEF EditsChain, NextApplies
<1> QED
  BY <1>3, <1>4, <1>5, <1>6, <1>7 DEF EditsChain

\* The first message that waits is applied, and leaves what it says.
LEMMA ChainApplied ==
  ASSUME TypeOK, EditsChain, NEW i \in Message, Waits(i), First(i), Moved(i),
         handler'[i].stage \notin {"new", "session"}, UNCHANGED <<buffer, disk, sent>>,
         \A d \in Doc \ {handler[i].doc} : text'[d] = text[d],
         text'[handler[i].doc] # Garbage,
         handler[i].to # Absent => text'[handler[i].doc] \in {Absent, handler[i].to}
  PROVE  EditsChain'
<1> DEFINE D == handler[i].doc
<1>1. /\ D \in Doc /\ \A j \in Message : handler[j].doc \in Doc
      /\ Message \subseteq Nat
  BY DEF TypeOK, Handler, Message
<1>2. \A j \in Message :
        /\ handler'[j].kind = handler[j].kind /\ handler'[j].doc = handler[j].doc
        /\ handler'[j].from = handler[j].from /\ handler'[j].to = handler[j].to
        /\ Waits(j)' <=> Waits(j) /\ j # i
  BY DEF Moved, Waits
<1>3. \A j \in Message : Waits(j) /\ handler[j].doc = D => i = j \/ i < j
  BY <1>1 DEF First
<1>4. NoGarbage'
  BY <1>1 DEF EditsChain, NoGarbage
<1>5. MessagesOK'
  BY <1>2 DEF EditsChain, MessagesOK, MessageOK
<1>6. SettledIsBuffer'
  <2> SUFFICES ASSUME NEW d \in Doc, buffer[d] # Absent,
                      \A j \in Message : handler[j].doc = d => ~Waits(j) \/ j = i
               PROVE  text'[d] \in {Absent, buffer[d]}
    BY <1>2 DEF SettledIsBuffer
  <2>1. CASE d = D
    <3>1. Last(i)
      BY <1>1, <2>1 DEF Last
    <3>2. handler[i].to = buffer[d]
      BY <2>1, <3>1 DEF EditsChain, LastIsBuffer
    <3> QED
      BY <2>1, <3>2
  <2>2. CASE d # D
    <3>1. \A j \in Message : handler[j].doc = d => ~Waits(j)
      BY <2>2
    <3> QED
      BY <2>2, <3>1 DEF EditsChain, SettledIsBuffer
  <2> QED
    BY <2>1, <2>2
<1>7. FirstApplies'
  <2> SUFFICES ASSUME NEW j \in Message, Waits(j), j # i, First(j)', handler[j].from # Absent
               PROVE  text'[handler[j].doc] \in {Absent, handler[j].from}
    BY <1>2 DEF FirstApplies
  <2>1. \A k \in Message : k < j /\ handler[k].doc = handler[j].doc => ~Waits(k) \/ k = i
    BY <1>2 DEF First
  <2>2. CASE handler[j].doc = D
    <3>1. i < j
      BY <1>3, <2>2
    <3>2. Follows(j, i)
      BY <1>1, <2>1, <2>2, <3>1 DEF Follows
    <3>3. handler[j].from = handler[i].to
      BY <3>2 DEF EditsChain, NextApplies
    <3> QED
      BY <2>2, <3>3
  <2>3. CASE handler[j].doc # D
    <3>1. First(j)
      BY <2>1, <2>3 DEF First
    <3> QED
      BY <1>1, <2>3, <3>1 DEF EditsChain, FirstApplies
  <2> QED
    BY <2>2, <2>3
<1>8. LastIsBuffer'
  <2> SUFFICES ASSUME NEW j \in Message, Waits(j), j # i, Last(j)'
               PROVE  handler[j].to = buffer[handler[j].doc]
    BY <1>2 DEF LastIsBuffer
  <2>1. \A k \in Message : k > j /\ handler[k].doc = handler[j].doc => ~Waits(k) \/ k = i
    BY <1>2 DEF Last
  <2>2. Last(j)
    BY <1>1, <1>3, <2>1 DEF Last
  <2> QED
    BY <2>2 DEF EditsChain, LastIsBuffer
<1>9. NextApplies'
  <2> SUFFICES ASSUME NEW j \in Message, NEW k \in Message, Waits(j), Waits(k), j # i,
                      Follows(k, j)'
               PROVE  handler[k].from = handler[j].to
    BY <1>2 DEF NextApplies
  <2>1. /\ j < k /\ handler[j].doc = handler[k].doc
        /\ \A l \in Message : j < l /\ l < k /\ handler[l].doc = handler[j].doc
              => ~Waits(l) \/ l = i
    BY <1>2 DEF Follows
  <2>2. Follows(k, j)
    BY <1>1, <1>3, <2>1 DEF Follows
  <2> QED
    BY <2>2 DEF EditsChain, NextApplies
<1> QED
  BY <1>4, <1>5, <1>6, <1>7, <1>8, <1>9 DEF EditsChain

\* A new message starts from the buffer, which is what the last one led to.
LEMMA ChainSent ==
  ASSUME TypeOK, InOrder, EditsChain, NEW d \in Doc, Sent(d)
  PROVE  EditsChain'
<1>1. PICK kind \in {"open", "change", "replace", "close", "format"}, to \in Text :
        /\ Send(kind, d, buffer[d], to)
        /\ buffer' = [buffer EXCEPT ![d] = to]
        /\ kind = "open" => buffer[d] = Absent /\ to # Absent /\ (to = disk[d] \/ to >= 3)
        /\ kind \in {"change", "replace"} => buffer[d] # Absent /\ to >= 3
        /\ kind = "close" => to = Absent
        /\ kind = "format" => to = buffer[d]
  BY DEF Sent
<1>0. sent' \in Message
  BY <1>1, SendTyped DEF TypeOK, Texts
<1>i. PICK i \in Message : i = sent'
  BY <1>0
<1>2. /\ buffer[d] \in Text /\ Message \subseteq Nat /\ sent \in Nat
      /\ \A e \in Doc : buffer'[e] = IF e = d THEN to ELSE buffer[e]
      /\ \A j \in Message : handler[j].doc \in Doc
  BY <1>1 DEF TypeOK, Texts, Message, Handler
<1>3. /\ i = sent + 1 /\ sent' = i /\ text' = text /\ disk' = disk
      /\ \A j \in Message \ {i} : handler'[j] = handler[j]
      /\ handler'[i].kind = kind /\ handler'[i].doc = d /\ handler'[i].stage = "new"
      /\ handler'[i].from = buffer[d] /\ handler'[i].to = to
  BY <1>1, <1>2, <1>i, SendTyped
<1>4. \A j \in Message : j >= i => ~Waits(j)
  BY <1>2, <1>3 DEF InOrder, SentStarted, Waits
<1>5. /\ Waits(i)' /\ \A j \in Message \ {i} : Waits(j)' <=> Waits(j)
      /\ \A j \in Message : Waits(j) => j # i /\ j < i
  BY <1>2, <1>3, <1>4 DEF Waits
<1>6. to # Garbage
  BY <1>1 DEF EditsChain, NoGarbage, Absent, Garbage
<1>7. NoGarbage'
  BY <1>2, <1>3, <1>6 DEF EditsChain, NoGarbage
<1>8. MessagesOK'
  <2>1. MessageOK(i)'
    BY <1>1, <1>3, <1>6 DEF MessageOK, Absent
  <2>2. \A j \in Message \ {i} : j <= sent => MessageOK(j)'
    BY <1>3 DEF EditsChain, MessagesOK, MessageOK
  <2>3. \A j \in Message : j <= sent' => j = i \/ (j \in Message \ {i} /\ j <= sent)
    BY <1>2, <1>3
  <2> QED
    BY <2>1, <2>2, <2>3 DEF MessagesOK
<1>9. SettledIsBuffer'
  <2> SUFFICES ASSUME NEW e \in Doc, \A j \in Message : handler'[j].doc = e => ~Waits(j)',
                      buffer'[e] # Absent
               PROVE  text[e] \in {Absent, buffer'[e]}
    BY <1>3 DEF SettledIsBuffer
  <2>1. e # d
    BY <1>3, <1>5, <1>i
  <2>2. \A j \in Message : handler[j].doc = e => ~Waits(j)
    BY <1>3, <1>5
  <2> QED
    BY <1>2, <2>1, <2>2 DEF EditsChain, SettledIsBuffer
<1>10. FirstApplies'
  <2> SUFFICES ASSUME NEW j \in Message, Waits(j)', First(j)', handler'[j].from # Absent
               PROVE  text[handler'[j].doc] \in {Absent, handler'[j].from}
    BY <1>3 DEF FirstApplies
  <2>1. CASE j = i
    <3>1. \A k \in Message : handler[k].doc = d => ~Waits(k)
      BY <1>2, <1>3, <1>5, <2>1 DEF First
    <3> QED
      BY <1>3, <2>1, <3>1 DEF EditsChain, SettledIsBuffer
  <2>2. CASE j # i
    <3>1. Waits(j) /\ First(j)
      BY <1>3, <1>5, <2>2 DEF First
    <3> QED
      BY <1>3, <2>2, <3>1 DEF EditsChain, FirstApplies
  <2> QED
    BY <2>1, <2>2
<1>11. LastIsBuffer'
  <2> SUFFICES ASSUME NEW j \in Message, Waits(j)', Last(j)'
               PROVE  handler'[j].to = buffer'[handler'[j].doc]
    BY DEF LastIsBuffer
  <2>1. CASE j = i
    BY <1>2, <1>3, <2>1
  <2>2. CASE j # i
    <3>1. Waits(j) /\ j < i /\ handler'[j] = handler[j]
      BY <1>3, <1>5, <2>2
    <3>2. handler[j].doc # d
      BY <1>2, <1>3, <1>5, <3>1 DEF Last
    <3>3. Last(j)
      BY <1>2, <1>3, <1>5, <3>1, <3>2 DEF Last
    <3> QED
      BY <1>2, <3>1, <3>2, <3>3 DEF EditsChain, LastIsBuffer
  <2> QED
    BY <2>1, <2>2
<1>12. NextApplies'
  <2> SUFFICES ASSUME NEW j \in Message, NEW k \in Message, Waits(j)', Waits(k)', Follows(k, j)'
               PROVE  handler'[k].from = handler'[j].to
    BY DEF NextApplies
  <2>1. /\ j < k /\ handler'[j].doc = handler'[k].doc
        /\ \A l \in Message : j < l /\ l < k /\ handler'[l].doc = handler'[j].doc => ~Waits(l)'
    BY DEF Follows
  <2>2. j # i /\ Waits(j) /\ handler'[j] = handler[j]
    BY <1>2, <1>3, <1>5, <2>1
  <2>3. CASE k = i
    <3>1. handler[j].doc = d
      BY <1>3, <2>1, <2>2, <2>3
    <3>2. Last(j)
      BY <1>2, <1>3, <1>5, <2>1, <2>2, <2>3 DEF Last
    <3>3. handler[j].to = buffer[d]
      BY <2>2, <3>1, <3>2 DEF EditsChain, LastIsBuffer
    <3> QED
      BY <1>3, <2>2, <2>3, <3>3
  <2>4. CASE k # i
    <3>1. Waits(k) /\ k < i /\ handler'[k] = handler[k]
      BY <1>3, <1>5, <2>4
    <3>2. Follows(k, j)
      BY <1>2, <1>3, <1>5, <2>1, <2>2, <3>1 DEF Follows
    <3> QED
      BY <2>2, <3>1, <3>2 DEF EditsChain, NextApplies
  <2> QED
    BY <2>3, <2>4
<1> QED
  BY <1>7, <1>8, <1>9, <1>10, <1>11, <1>12 DEF EditsChain

\* What a mutation leaves of its document's text.
LEMMA MutationApplies ==
  ASSUME TypeOK, InOrder, EditsChain, NEW i \in Message, Step(i), Leaves(i),
         handler[i].kind # "format"
  PROVE  /\ Waits(i) /\ First(i)
         /\ \A d \in Doc \ {handler[i].doc} : text'[d] = text[d]
         /\ text'[handler[i].doc] # Garbage
         /\ handler[i].to # Absent => text'[handler[i].doc] \in {Absent, handler[i].to}
<1> DEFINE d == handler[i].doc
<1>1. d \in Doc /\ text \in Texts /\ disk \in Texts
  BY DEF TypeOK, Handler
<1>2. handler[i].stage = "session" /\ Holds(session, i)
  BY HeadWaits DEF InOrder, FormatStages, Leaves
<1>3. Waits(i) /\ First(i)
  BY <1>2, HolderIsFirst
<1>4. MessageOK(i)
  BY <1>2 DEF EditsChain, MessagesOK, InOrder, SentStarted, TypeOK, Message
<1>5. /\ text[d] # Garbage /\ disk[d] # Garbage
      /\ handler[i].from # Absent => text[d] \in {Absent, handler[i].from}
  BY <1>1, <1>3 DEF EditsChain, NoGarbage, FirstApplies
<1>6. CASE DidOpen(i)
  BY <1>1, <1>3, <1>4, <1>6 DEF DidOpen, Texts, MessageOK
<1>7. CASE DidOpenForeign(i)
  BY <1>1, <1>3, <1>5, <1>7 DEF DidOpenForeign
<1>8. CASE DidChange(i)
  <2>1. Edited(i, text[d]) # Garbage /\ Edited(i, text[d]) \in {Absent, handler[i].to}
    BY <1>4, <1>5, <1>8 DEF DidChange, Edited, MessageOK, Absent, Garbage
  <2> QED
    BY <1>1, <1>3, <1>8, <2>1 DEF DidChange, Texts
<1>9. CASE DidClose(i)
  BY <1>1, <1>3, <1>4, <1>5, <1>9 DEF DidClose, Texts, MessageOK
<1> QED
  BY <1>2, <1>6, <1>7, <1>8, <1>9
     DEF Step, Start, FormatRope, FormatRegions, ListOpen, ReadRows, Publish, EndPublish, ReadRope

LEMMA ChainStep == TypeOK /\ InOrder /\ EditsChain /\ [Next]_vars => EditsChain'
<1> SUFFICES ASSUME TypeOK, InOrder, EditsChain, [Next]_vars PROVE EditsChain'
  OBVIOUS
<1>1. ASSUME NEW d \in Doc, Save(d) PROVE EditsChain'
  <2>1. /\ UNCHANGED <<buffer, text, sent, handler>>
        /\ \A e \in Doc : disk'[e] = IF e = d THEN buffer[d] ELSE disk[e]
    BY <1>1 DEF Save, TypeOK, Texts
  <2>2. NoGarbage'
    BY <2>1 DEF EditsChain, NoGarbage
  <2> QED
    BY <2>1, <2>2 DEF EditsChain, MessagesOK, MessageOK, SettledIsBuffer, FirstApplies,
                      LastIsBuffer, NextApplies, First, Last, Follows, Waits
<1>2. ASSUME NEW i \in Message, Step(i) PROVE EditsChain'
  <2>1. CASE Starts(i)
    <3>1. \A j \in Message : Waits(j)' <=> Waits(j)
      BY <2>1 DEF Starts, MovedTo, Moved, Waits
    <3> QED
      BY <2>1, <3>1, ChainSame DEF Starts, MovedTo, Moved
  <2>2. CASE Formats(i)
    <3>1. Waits(i) /\ First(i)
      BY <2>2, HolderIsFirst DEF Formats
    <3>2. handler[i].to = handler[i].from /\ handler[i].doc \in Doc
      BY <2>2 DEF EditsChain, MessagesOK, MessageOK, InOrder, SentStarted, TypeOK, Message,
                  Handler, Formats
    <3>3. /\ text[handler[i].doc] # Garbage
          /\ handler[i].to # Absent => text[handler[i].doc] \in {Absent, handler[i].to}
      BY <3>1, <3>2 DEF EditsChain, NoGarbage, FirstApplies
    <3> QED
      BY <2>2, <3>1, <3>3, ChainApplied DEF Formats, RopeMoves
  <2>3. CASE Leaves(i) /\ handler[i].kind # "format"
    <3>1. handler'[i].stage \notin {"new", "session"}
      BY <2>3 DEF Leaves
    <3> QED
      BY <1>2, <2>3, <3>1, MutationApplies, ChainApplied DEF Leaves
  <2>4. CASE Leaves(i) /\ handler[i].kind = "format"
    <3>1. UNCHANGED <<text, buffer, disk, sent>> /\ RegionsMove(i)
      BY <2>4 DEF Leaves
    <3>2. handler[i].stage = "format"
      BY <2>4 DEF Leaves
    <3>3. \A j \in Message : Waits(j)' <=> Waits(j)
      BY <3>1, <3>2 DEF RegionsMove, Moved, Waits
    <3> QED
      BY <3>1, <3>3, ChainSame DEF RegionsMove, Moved
  <2>5. CASE Advances(i)
    <3>1. \A j \in Message : Waits(j)' <=> Waits(j)
      BY <2>5 DEF Advances, Moved, Waits
    <3> QED
      BY <2>5, <3>1, ChainSame DEF Advances, Moved
  <2> QED
    BY <1>2, <2>1, <2>2, <2>3, <2>4, <2>5, StepConcernsSession
<1>3. CASE UNCHANGED vars
  BY <1>3, ChainSame DEF vars, Waits
<1> QED
  BY <1>1, <1>2, <1>3, ChainSent, EditsSend DEF Next

-----------------------------------------------------------------------------
(* Formatting *)

LEMMA FormatStep == TypeOK /\ InOrder /\ FormatSteady /\ [Next]_vars => FormatSteady'
<1> SUFFICES ASSUME TypeOK, InOrder, FormatSteady, [Next]_vars PROVE FormatSteady'
  OBVIOUS
<1>1. session \in Seq(Message)
  BY DEF TypeOK
<1>2. ASSUME NEW d \in Doc, Sent(d) PROVE FormatSteady'
  <2>1. PICK kind \in {"open", "change", "replace", "close", "format"}, to \in Text :
          Send(kind, d, buffer[d], to)
    BY <1>2 DEF Sent
  <2>2. /\ sent' \in Message /\ session' = session /\ text' = text
        /\ \A j \in Message \ {sent'} : handler'[j] = handler[j]
        /\ handler'[sent'].stage = "new"
    BY <2>1, SendTyped DEF TypeOK, Texts
  <2> QED
    BY <2>2 DEF FormatSteady, Holds
<1>3. ASSUME NEW d \in Doc, Save(d) PROVE FormatSteady'
  BY <1>3 DEF Save, FormatSteady, Holds
<1>4. ASSUME NEW i \in Message, Step(i) PROVE FormatSteady'
  <2> SUFFICES ASSUME NEW j \in Message
               PROVE  /\ handler'[j].stage = "format" =>
                            Holds(session', j) /\ handler'[j].read.rope = text'[handler'[j].doc]
                      /\ handler'[j].kind = "format" /\ handler'[j].stage = "done" =>
                            handler'[j].read.rope = handler'[j].read.rows[handler'[j].doc]
    BY DEF FormatSteady, Holds
  <2>1. CASE Starts(i)
    <3>1. Holds(session, j) => Holds(session', j)
      BY <1>1, <2>1 DEF Starts, Holds
    <3>2. text' = text /\ (j = i => handler'[j].stage = "session")
          /\ (j # i => handler'[j] = handler[j])
      BY <2>1 DEF Starts, MovedTo, Moved
    <3> QED
      BY <3>1, <3>2 DEF FormatSteady
  <2>2. CASE Formats(i)
    BY <2>2 DEF Formats, RopeMoves, Moved, FormatSteady
  <2>3. CASE Leaves(i)
    <3>1. CASE j = i
      BY <2>3, <3>1 DEF Leaves, RegionsMove, Moved, FormatSteady
    <3>2. CASE j # i
      <4>1. handler'[j] = handler[j] /\ ~Holds(session, j)
        BY <2>3, <3>2 DEF Leaves, Moved, Holds
      <4> QED
        BY <4>1 DEF FormatSteady
    <3> QED
      BY <3>1, <3>2
  <2>4. CASE Advances(i)
    <3>1. text' = text /\ session' = session
      BY <2>4 DEF Advances
    <3>2. CASE j = i
      <4>1. handler'[i].kind # "format" /\ handler'[i].stage # "format"
        BY <2>4 DEF Advances, Moved, InOrder, FormatStages
      <4> QED
        BY <3>2, <4>1
    <3>3. CASE j # i
      BY <2>4, <3>1, <3>3 DEF Advances, Moved, FormatSteady
    <3> QED
      BY <3>2, <3>3
  <2> QED
    BY <1>4, <2>1, <2>2, <2>3, <2>4, StepConcernsSession
<1>5. CASE UNCHANGED vars
  BY <1>5 DEF FormatSteady, Holds, vars
<1> QED
  BY <1>2, <1>3, <1>4, <1>5, EditsSend DEF Next

-----------------------------------------------------------------------------
(* Publication *)

\* The ways a step can concern what is published: the text changes and a new
\* publication is due, or a publication goes on.
LEMMA MutationIsPublished ==
  ASSUME TypeOK, InOrder, NEW i \in Message, Starts(i) \/ Formats(i) \/ Leaves(i), Step(i)
  PROVE  \/ UNCHANGED <<text, open, publisher, shown>> /\ handler[i].stage \in {"new", "session", "format"}
            /\ Moved(i) /\ handler'[i].stage \in {"session", "format", "done"}
         \/ shown' = shown /\ publisher' = Append(publisher, i) /\ Moved(i)
            /\ handler'[i].stage = "publisher" /\ handler[i].stage \in {"session", "format"}
         \/ shown' = shown /\ publisher' = publisher /\ CloseMoves(i)
            /\ handler[i].stage \in {"session", "format"}
<1>1. CASE Start(i)
  BY <1>1, SetMoves DEF Start, MovedTo, Stage
<1>2. ASSUME Holds(session, i), ThenPublish(i)
      PROVE  /\ shown' = shown /\ publisher' = Append(publisher, i) /\ Moved(i)
             /\ handler'[i].stage = "publisher" /\ handler[i].stage \in {"session", "format"}
  BY <1>2, SetMoves, HeadWaits DEF ThenPublish, MovedTo, Stage
<1>3. CASE DidOpen(i) \/ DidChange(i)
  BY <1>2, <1>3 DEF DidOpen, DidChange
<1>4. CASE DidOpenForeign(i)
  BY <1>4, SetMoves, HeadWaits DEF DidOpenForeign, MovedTo, Stage
<1>5. CASE DidClose(i)
  BY <1>5, HandlersMove, HeadWaits DEF DidClose
<1>6. CASE FormatRope(i)
  BY <1>6, HandlersMove DEF FormatRope, RopeMoves
<1>7. CASE FormatRegions(i)
  BY <1>7, HandlersMove DEF FormatRegions, RegionsMove
<1>8. handler[i].stage \in {"new", "session", "format"}
  BY HeadWaits DEF Starts, Formats, Leaves
<1> QED
  BY <1>1, <1>3, <1>4, <1>5, <1>6, <1>7, <1>8 DEF Step, ListOpen, ReadRows, Publish, EndPublish, ReadRope

\* A handler that is not in line for the publisher mutex, nor publishes after
\* this step, gets no part in it.
LEMMA LineSame ==
  ASSUME TypeOK, PublishersInLine, NEW i \in Message, Moved(i), publisher' = publisher,
         handler[i].stage \notin {"publisher", "publish", "rows", "send"} \/ handler[i].alone,
         handler[i].stage # "publisher",
         handler'[i].stage \notin {"publish", "rows", "send"} \/ handler'[i].alone
  PROVE  PublishersInLine'
<1>1. \A k \in 1 .. Len(publisher) : publisher[k] \in Message /\ publisher[k] # i
  BY DEF TypeOK, PublishersInLine, PublishersWait, Publishes
<1>2. PublishersWait'
  BY <1>1 DEF PublishersInLine, PublishersWait, Publishes, Moved
<1>3. PublishersDistinct'
  BY DEF PublishersInLine, PublishersDistinct
<1>4. PublisherHolds'
  BY DEF PublishersInLine, PublisherHolds, Publishes, Moved, Holds
<1> QED
  BY <1>2, <1>3, <1>4 DEF PublishersInLine

\* A handler gets in line.
LEMMA LineGrows ==
  ASSUME TypeOK, PublishersInLine, NEW i \in Message, Moved(i), publisher' = Append(publisher, i),
         handler[i].stage \notin {"publisher", "publish", "rows", "send"} \/ handler[i].alone,
         handler[i].stage # "publisher",
         handler'[i].stage = "publisher"
  PROVE  PublishersInLine'
<1>1. \A k \in 1 .. Len(publisher) : publisher[k] \in Message /\ publisher[k] # i
  BY DEF TypeOK, PublishersInLine, PublishersWait, Publishes
<1>2. /\ Len(publisher') = Len(publisher) + 1 /\ Len(publisher) \in Nat
      /\ publisher'[Len(publisher) + 1] = i
      /\ \A k \in 1 .. Len(publisher) : publisher'[k] = publisher[k]
  BY DEF TypeOK
<1>3. PublishersWait'
  <2> SUFFICES ASSUME NEW k \in 1 .. Len(publisher')
               PROVE  \/ handler'[publisher'[k]].stage = "publisher"
                      \/ /\ k = 1 /\ ~handler'[publisher'[k]].alone
                         /\ handler'[publisher'[k]].stage \in {"publish", "rows", "send"}
    BY DEF PublishersWait, Publishes
  <2>1. CASE k = Len(publisher) + 1
    BY <1>2, <2>1
  <2>2. CASE k \in 1 .. Len(publisher)
    <3>1. publisher'[k] = publisher[k] /\ handler'[publisher[k]] = handler[publisher[k]]
      BY <1>1, <1>2, <2>2 DEF Moved
    <3> QED
      BY <2>2, <3>1 DEF PublishersInLine, PublishersWait, Publishes
  <2> QED
    BY <1>2, <2>1, <2>2
<1>4. PublishersDistinct'
  BY <1>1, <1>2 DEF PublishersInLine, PublishersDistinct
<1>5. PublisherHolds'
  <2> SUFFICES ASSUME NEW j \in Message, ~handler'[j].alone, Publishes(j)'
               PROVE  Holds(publisher', j)
    BY DEF PublisherHolds, Holds
  <2>1. j # i /\ handler'[j] = handler[j]
    BY DEF Moved, Publishes
  <2>2. Holds(publisher, j)
    BY <2>1 DEF PublishersInLine, PublisherHolds, Publishes
  <2> QED
    BY <1>2, <2>2 DEF Holds, TypeOK
<1> QED
  BY <1>3, <1>4, <1>5 DEF PublishersInLine

\* The head of the line publishes, or goes on with it.
LEMMA LineWorks ==
  ASSUME TypeOK, PublishersInLine, NEW i \in Message, Moved(i), publisher' = publisher,
         Holds(publisher, i), ~handler'[i].alone, handler'[i].stage \in {"publish", "rows", "send"}
  PROVE  PublishersInLine'
<1>1. \A k \in 1 .. Len(publisher) : publisher[k] \in Message /\ (publisher[k] = i <=> k = 1)
  BY DEF TypeOK, PublishersInLine, PublishersDistinct, Holds
<1>2. PublishersWait'
  <2> SUFFICES ASSUME NEW k \in 1 .. Len(publisher)
               PROVE  \/ handler'[publisher[k]].stage = "publisher"
                      \/ /\ k = 1 /\ ~handler'[publisher[k]].alone
                         /\ handler'[publisher[k]].stage \in {"publish", "rows", "send"}
    BY DEF PublishersWait, Publishes
  <2>1. CASE k = 1
    BY <1>1, <2>1 DEF Publishes
  <2>2. CASE k # 1
    BY <1>1, <2>2 DEF PublishersInLine, PublishersWait, Moved
  <2> QED
    BY <2>1, <2>2
<1>3. PublishersDistinct'
  BY DEF PublishersInLine, PublishersDistinct
<1>4. PublisherHolds'
  BY DEF PublishersInLine, PublisherHolds, Publishes, Moved, Holds
<1> QED
  BY <1>2, <1>3, <1>4 DEF PublishersInLine

\* The head of the line leaves.
LEMMA LineShrinks ==
  ASSUME TypeOK, PublishersInLine, NEW i \in Message, Moved(i), publisher' = Tail(publisher),
         Holds(publisher, i), handler'[i].stage = "done"
  PROVE  PublishersInLine'
<1>1. /\ Len(publisher) \in Nat /\ Len(publisher) >= 1
      /\ \A k \in 1 .. Len(publisher) : publisher[k] \in Message /\ (publisher[k] = i <=> k = 1)
  BY DEF TypeOK, PublishersInLine, PublishersDistinct, Holds
<1>2. /\ Len(publisher') = Len(publisher) - 1
      /\ \A k \in 1 .. Len(publisher') : k + 1 \in 1 .. Len(publisher) /\ publisher'[k] = publisher[k + 1]
  BY <1>1 DEF TypeOK
<1>3. PublishersWait'
  <2> SUFFICES ASSUME NEW k \in 1 .. Len(publisher')
               PROVE  handler'[publisher'[k]].stage = "publisher"
    BY DEF PublishersWait
  <2>1. /\ publisher'[k] = publisher[k + 1] /\ publisher[k + 1] \in Message \ {i} /\ k + 1 # 1
        /\ k + 1 \in 1 .. Len(publisher)
    BY <1>1, <1>2
  <2>2. handler[publisher[k + 1]].stage = "publisher"
    BY <2>1 DEF PublishersInLine, PublishersWait
  <2> QED
    BY <2>1, <2>2 DEF Moved
<1>4. PublishersDistinct'
  BY <1>1, <1>2 DEF PublishersInLine, PublishersDistinct
<1>5. PublisherHolds'
  <2> SUFFICES ASSUME NEW j \in Message, ~handler'[j].alone, Publishes(j)' PROVE FALSE
    BY DEF PublisherHolds
  <2>1. j # i /\ handler'[j] = handler[j]
    BY DEF Moved, Publishes
  <2>2. Holds(publisher, j)
    BY <2>1 DEF PublishersInLine, PublisherHolds, Publishes
  <2> QED
    BY <2>1, <2>2 DEF Holds
<1> QED
  BY <1>3, <1>4, <1>5 DEF PublishersInLine

LEMMA LineStep == TypeOK /\ InOrder /\ PublishersInLine /\ [Next]_vars => PublishersInLine'
<1> SUFFICES ASSUME TypeOK, InOrder, PublishersInLine, [Next]_vars PROVE PublishersInLine'
  OBVIOUS
<1>1. ASSUME NEW d \in Doc, Sent(d) PROVE PublishersInLine'
  <2>1. PICK kind \in {"open", "change", "replace", "close", "format"}, to \in Text :
          Send(kind, d, buffer[d], to)
    BY <1>1 DEF Sent
  <2>2. /\ sent' = sent + 1 /\ sent' \in Message /\ publisher' = publisher
        /\ \A j \in Message \ {sent'} : handler'[j] = handler[j]
        /\ handler'[sent'].stage = "new"
    BY <2>1, SendTyped DEF TypeOK, Texts
  <2>3. handler[sent'].stage = "none"
    BY <2>2 DEF InOrder, SentStarted, TypeOK
  <2>4. \A k \in 1 .. Len(publisher) : publisher[k] \in Message \ {sent'}
    BY <2>3 DEF TypeOK, PublishersInLine, PublishersWait, Publishes
  <2>5. PublishersWait'
    BY <2>2, <2>4 DEF PublishersInLine, PublishersWait, Publishes
  <2>6. PublishersDistinct' /\ PublisherHolds'
    BY <2>2 DEF PublishersInLine, PublishersDistinct, PublisherHolds, Publishes, Holds
  <2> QED
    BY <2>5, <2>6 DEF PublishersInLine
<1>2. ASSUME NEW d \in Doc, Save(d) PROVE PublishersInLine'
  BY <1>2 DEF Save, PublishersInLine, PublishersWait, PublishersDistinct, PublisherHolds,
              Publishes, Holds
<1>3. ASSUME NEW i \in Message, Step(i) PROVE PublishersInLine'
  <2>1. CASE Starts(i) \/ Formats(i) \/ Leaves(i)
    BY <1>3, <2>1, MutationIsPublished, LineSame, LineGrows DEF CloseMoves
  <2>2. CASE ListOpen(i)
    BY <2>2, HandlersMove, LineWorks DEF ListOpen, ListMoves
  <2>3. ASSUME MovedTo(i, "publish") \/ RowsMove(i) \/ (\E d \in Doc : ReadMoves(i, d)),
               Publishes(i), publisher' = publisher
        PROVE  PublishersInLine'
    <3>1. /\ Moved(i) /\ handler'[i].alone = handler[i].alone
          /\ handler'[i].stage \in {"publish", "rows", "send"}
      BY <2>3 DEF MovedTo, RowsMove, ReadMoves
    <3>2. CASE handler[i].alone
      BY <2>3, <3>1, <3>2, LineSame DEF Publishes
    <3>3. CASE ~handler[i].alone
      BY <2>3, <3>1, <3>3, LineWorks DEF PublishersInLine, PublisherHolds
    <3> QED
      BY <3>2, <3>3
  <2>4. CASE ReadRows(i)
    BY <2>3, <2>4, HandlersMove DEF ReadRows, Publishes
  <2>5. ASSUME NEW d \in Doc, ReadRope(i, d) PROVE PublishersInLine'
    BY <2>3, <2>5, HandlersMove DEF ReadRope, Publishes
  <2>6. CASE Publish(i)
    BY <2>3, <2>6, SetMoves DEF Publish, Publishes, Stage
  <2>7. CASE EndPublish(i)
    <3>1. CASE handler[i].alone
      <4>1. publisher' = Append(publisher, i) /\ MovedTo(i, "publisher") /\ handler[i].stage = "publish"
        BY <2>7, <3>1, SetMoves DEF EndPublish, GoesOn, Stage
      <4> QED
        BY <3>1, <4>1, LineGrows DEF MovedTo
    <3>2. CASE ~handler[i].alone
      <4>1. Holds(publisher, i)
        BY <2>7, <3>2 DEF EndPublish, PublishersInLine, PublisherHolds, Publishes
      <4>2. publisher' = Tail(publisher) /\ MovedTo(i, "done")
        BY <2>7, <3>2, <4>1, SetMoves DEF EndPublish, GoesOn, Leave, Stage
      <4> QED
        BY <4>1, <4>2, LineShrinks DEF MovedTo
    <3> QED
      BY <3>1, <3>2
  <2>8. Starts(i) \/ Formats(i) \/ Leaves(i) \/ Advances(i)
    BY <1>3, StepConcernsSession
  <2>9. CASE Advances(i)
    <3>1. handler[i].stage \in {"publisher", "publish", "rows", "send"}
      BY <2>9 DEF Advances
    <3>2. ListOpen(i) \/ ReadRows(i) \/ Publish(i) \/ EndPublish(i) \/ \E d \in Doc : ReadRope(i, d)
      <4>1. ~Holds(session, i)
        BY <3>1, HeadWaits
      <4> QED
        BY <1>3, <3>1, <4>1 DEF Step, Start, DidOpen, DidOpenForeign, DidChange, DidClose,
                                FormatRope, FormatRegions
    <3> QED
      BY <2>2, <2>4, <2>5, <2>6, <2>7, <3>2
  <2> QED
    BY <2>1, <2>8, <2>9
<1>4. CASE UNCHANGED vars
  BY <1>4 DEF vars, PublishersInLine, PublishersWait, PublishersDistinct, PublisherHolds,
              Publishes, Holds
<1> QED
  BY <1>1, <1>2, <1>3, <1>4, EditsSend DEF Next

\* An open document has a text: opening and changing leave one, and closing ends it.
LEMMA OpenStep == TypeOK /\ InOrder /\ EditsChain /\ OpenHasText /\ [Next]_vars => OpenHasText'
<1> SUFFICES ASSUME TypeOK, InOrder, EditsChain, OpenHasText, [Next]_vars PROVE OpenHasText'
  OBVIOUS
<1>1. ASSUME UNCHANGED <<text, open>> PROVE OpenHasText'
  BY <1>1 DEF OpenHasText
<1>2. ASSUME NEW i \in Message, Step(i) PROVE OpenHasText'
  <2> DEFINE d == handler[i].doc
  <2>1. d \in Doc /\ text \in Texts /\ open \subseteq Doc
    BY DEF TypeOK, Handler
  <2>2. ASSUME Holds(session, i) PROVE MessageOK(i)
    BY <2>2, HeadWaits DEF EditsChain, MessagesOK, InOrder, SentStarted, TypeOK, Message
  <2>3. CASE DidOpen(i)
    BY <2>1, <2>2, <2>3 DEF DidOpen, OpenHasText, MessageOK, Texts
  <2>4. CASE DidChange(i)
    <3>1. text[d] # Absent => Edited(i, text[d]) # Absent
      BY <2>2, <2>4 DEF DidChange, Edited, MessageOK, Absent, Garbage
    <3> QED
      BY <2>1, <2>4, <3>1 DEF DidChange, OpenHasText, Texts
  <2>5. CASE DidClose(i)
    BY <2>1, <2>5 DEF DidClose, OpenHasText, Texts
  <2> QED
    BY <1>1, <1>2, <2>3, <2>4, <2>5
       DEF Step, Start, DidOpenForeign, FormatRope, FormatRegions, ListOpen, ReadRows, Publish,
           EndPublish, ReadRope
<1>3. CASE UNCHANGED vars
  BY <1>1, <1>3 DEF vars
<1> QED
  BY <1>1, <1>2, <1>3, EditsSend DEF Next, Sent, Send, Save

\* A handler that neither publishes nor waits to, before and after a step, does
\* not disturb what is or will be published.
LEMMA PresentSame ==
  ASSUME PublishesPresent, NEW i \in Message, UNCHANGED <<text, open, shown>>,
         \A j \in Message \ {i} : handler'[j] = handler[j],
         handler[i].stage \notin {"publisher", "publish", "rows", "send"},
         handler'[i].stage \notin {"publisher", "publish", "rows", "send"}
  PROVE  PublishesPresent'
<1>1. ASSUME Pending PROVE Pending'
  BY <1>1 DEF Pending, Publishes
<1>2. ASSUME NEW d \in open, Covered(d) PROVE Covered(d)'
  <2>1. \A j \in Message : Reads(j, d)' <=> Reads(j, d)
    BY DEF Reads
  <2>2. \A j \in Message : Publishes(j) \/ Reads(j, d) => handler'[j] = handler[j]
    BY DEF Publishes, Reads
  <2>3. CASE \E j \in Message : ~handler[j].alone /\ Publishes(j) /\ d \in handler[j].todo
    BY <2>2, <2>3 DEF Covered, Publishes
  <2>4. CASE \E j \in Message :
               /\ Reads(j, d) /\ handler[j].read.rope = text[d]
               /\ handler[j].stage = "send" => handler[j].read.rows = text
    BY <2>1, <2>2, <2>4 DEF Covered
  <2>5. CASE /\ shown[d].rope = text[d] /\ shown[d].rows = text
             /\ \A j \in Message : ~Reads(j, d)
    BY <2>1, <2>5 DEF Covered
  <2> QED
    BY <1>2, <2>3, <2>4, <2>5 DEF Covered
<1> QED
  BY <1>1, <1>2 DEF PublishesPresent

\* Only one handler publishes the open documents at a time.
LEMMA OnePublisher ==
  ASSUME PublishersInLine, NEW i \in Message, NEW j \in Message,
         ~handler[i].alone, Publishes(i), ~handler[j].alone, Publishes(j)
  PROVE  i = j
  BY DEF PublishersInLine, PublisherHolds, Holds

LEMMA PresentStep ==
  TypeOK /\ InOrder /\ PublishersInLine /\ OpenHasText /\ PublishesPresent /\ [Next]_vars
    => PublishesPresent'
<1> SUFFICES ASSUME TypeOK, InOrder, PublishersInLine, OpenHasText, PublishesPresent, [Next]_vars
             PROVE  PublishesPresent'
  OBVIOUS
<1>1. ASSUME NEW d \in Doc, Sent(d) PROVE PublishesPresent'
  <2>1. PICK kind \in {"open", "change", "replace", "close", "format"}, to \in Text :
          Send(kind, d, buffer[d], to)
    BY <1>1 DEF Sent
  <2>2. /\ sent' = sent + 1 /\ sent' \in Message /\ UNCHANGED <<text, open, shown>>
        /\ \A j \in Message \ {sent'} : handler'[j] = handler[j]
        /\ handler'[sent'].stage = "new"
    BY <2>1, SendTyped DEF TypeOK, Texts
  <2>3. handler[sent'].stage = "none"
    BY <2>2 DEF InOrder, SentStarted, TypeOK
  <2>4. PICK i \in Message : i = sent'
    BY <2>2
  <2> QED
    BY <2>2, <2>3, <2>4, PresentSame
<1>2. ASSUME NEW d \in Doc, Save(d) PROVE PublishesPresent'
  BY <1>2 DEF Save, PublishesPresent, Pending, Publishes, Covered, Reads
<1>3. ASSUME NEW i \in Message, Step(i) PROVE PublishesPresent'
  <2>1. CASE Starts(i) \/ Formats(i) \/ Leaves(i)
    <3>1. CASE /\ UNCHANGED <<text, open, publisher, shown>> /\ Moved(i)
               /\ handler[i].stage \in {"new", "session", "format"}
               /\ handler'[i].stage \in {"session", "format", "done"}
      BY <3>1, PresentSame DEF Moved
    <3>2. CASE Moved(i) /\ handler'[i].stage = "publisher"
      BY <3>2 DEF PublishesPresent, Pending
    <3>3. CASE CloseMoves(i)
      BY <3>3 DEF PublishesPresent, Pending, CloseMoves, Publishes
    <3> QED
      BY <1>3, <2>1, <3>1, <3>2, <3>3, MutationIsPublished
  <2>2. CASE ListOpen(i)
    <3>1. ListMoves(i) /\ open' = open
      BY <2>2, HandlersMove DEF ListOpen
    <3>2. \A d \in open' : Covered(d)'
      BY <3>1 DEF ListMoves, Covered, Publishes
    <3> QED
      BY <3>2 DEF PublishesPresent
  <2>3. ASSUME Publishes(i), Moved(i), handler'[i].alone = handler[i].alone,
               handler[i].alone => Publishes(i)' \/ handler'[i].stage = "publisher",
               UNCHANGED open,
               ASSUME ~handler[i].alone, NEW d \in open, Covered(d) PROVE Covered(d)'
        PROVE  PublishesPresent'
    <3>1. CASE handler[i].alone
      BY <2>3, <3>1 DEF PublishesPresent, Pending
    <3>2. CASE ~handler[i].alone /\ Pending
      <4>1. PICK j \in Message : handler[j].stage = "publisher" \/ (handler[j].alone /\ Publishes(j))
        BY <3>2 DEF Pending
      <4>2. j # i
        BY <2>3, <3>2, <4>1 DEF Publishes
      <4> QED
        BY <2>3, <4>1, <4>2 DEF PublishesPresent, Pending, Moved, Publishes
    <3>3. CASE ~handler[i].alone /\ ~Pending
      BY <2>3, <3>3 DEF PublishesPresent
    <3> QED
      BY <3>1, <3>2, <3>3
  <2>4. ASSUME ~handler[i].alone, Publishes(i), Moved(i), NEW d
        PROVE  /\ \A j \in Message \ {i} : ~Reads(j, d) /\ ~Reads(j, d)'
               /\ \A j \in Message : ~handler[j].alone /\ Publishes(j) => j = i
    <3>1. \A j \in Message \ {i} : ~Reads(j, d)
      BY <2>4, OnePublisher DEF Reads, Publishes
    <3>2. \A j \in Message \ {i} : ~Reads(j, d)'
      BY <2>4, <3>1 DEF Reads, Moved
    <3> QED
      BY <2>4, <3>1, <3>2, OnePublisher
  <2>5. ASSUME NEW d \in Doc, ReadRope(i, d) PROVE PublishesPresent'
    <3>1. /\ ReadMoves(i, d) /\ UNCHANGED <<text, open, shown>>
          /\ handler[i].stage = "publish" /\ Moved(i) /\ Publishes(i)
      BY <2>5, HandlersMove DEF ReadRope, ReadMoves, Publishes
    <3>2. ASSUME ~handler[i].alone, NEW e \in open, Covered(e) PROVE Covered(e)'
      <4>1. /\ \A j \in Message \ {i} : ~Reads(j, e) /\ ~Reads(j, e)'
            /\ \A j \in Message : ~handler[j].alone /\ Publishes(j) => j = i
        BY <2>4, <3>1, <3>2
      <4>2. CASE e = d
        <5>1. /\ handler'[i].stage = "rows" /\ handler'[i].at = e /\ ~handler'[i].alone
              /\ handler'[i].read.rope = text[e]
          BY <3>1, <3>2, <4>2 DEF OpenHasText, ReadMoves
        <5> QED
          BY <3>1, <5>1 DEF Covered, Reads
      <4>3. CASE e # d /\ e \in handler[i].todo
        <5>1. ~handler'[i].alone /\ Publishes(i)' /\ e \in handler'[i].todo
          BY <3>1, <3>2, <4>3 DEF ReadMoves, Publishes
        <5> QED
          BY <5>1 DEF Covered
      <4>4. CASE e # d /\ e \notin handler[i].todo
        <5>1. ~Reads(i, e) /\ ~Reads(i, e)'
          BY <3>1, <4>4 DEF Reads, ReadMoves
        <5>2. shown[e].rope = text[e] /\ shown[e].rows = text
          BY <3>2, <4>1, <4>4, <5>1 DEF Covered
        <5> QED
          BY <3>1, <4>1, <5>1, <5>2 DEF Covered
      <4> QED
        BY <4>2, <4>3, <4>4
    <3>3. Publishes(i)'
      BY <3>1 DEF ReadMoves, Publishes
    <3> QED
      BY <2>3, <3>1, <3>2, <3>3 DEF ReadMoves
  <2>6. CASE ReadRows(i)
    <3>1. /\ RowsMove(i) /\ UNCHANGED <<text, open, shown>>
          /\ handler[i].stage = "rows" /\ Moved(i) /\ Publishes(i) /\ Publishes(i)'
      BY <2>6, HandlersMove DEF ReadRows, RowsMove, Publishes
    <3>2. ASSUME ~handler[i].alone, NEW e \in open, Covered(e) PROVE Covered(e)'
      <4>1. /\ \A j \in Message \ {i} : ~Reads(j, e) /\ ~Reads(j, e)'
            /\ \A j \in Message : ~handler[j].alone /\ Publishes(j) => j = i
        BY <2>4, <3>1, <3>2
      <4>2. CASE e \in handler[i].todo
        <5>1. ~handler'[i].alone /\ Publishes(i)' /\ e \in handler'[i].todo
          BY <3>1, <3>2, <4>2 DEF RowsMove
        <5> QED
          BY <5>1 DEF Covered
      <4>3. CASE e \notin handler[i].todo /\ handler[i].at = e
        <5>1. Reads(i, e)
          BY <3>1, <3>2, <4>3 DEF Reads
        <5>2. handler[i].read.rope = text[e]
          BY <3>2, <4>1, <4>3, <5>1 DEF Covered
        <5>3. /\ Reads(i, e)' /\ handler'[i].read.rope = text'[e] /\ handler'[i].read.rows = text'
          BY <3>1, <3>2, <4>3, <5>2 DEF Reads, RowsMove
        <5> QED
          BY <5>3 DEF Covered
      <4>4. CASE e \notin handler[i].todo /\ handler[i].at # e
        <5>1. ~Reads(i, e) /\ ~Reads(i, e)'
          BY <3>1, <4>4 DEF Reads, RowsMove
        <5>2. shown[e].rope = text[e] /\ shown[e].rows = text
          BY <3>2, <4>1, <4>4, <5>1 DEF Covered
        <5> QED
          BY <3>1, <4>1, <5>1, <5>2 DEF Covered
      <4> QED
        BY <4>2, <4>3, <4>4
    <3> QED
      BY <2>3, <3>1, <3>2 DEF RowsMove
  <2>7. CASE Publish(i)
    <3>1. /\ MovedTo(i, "publish") /\ UNCHANGED <<text, open>>
          /\ shown' = [shown EXCEPT ![handler[i].at] = handler[i].read]
          /\ handler[i].stage = "send" /\ Moved(i) /\ Publishes(i) /\ Publishes(i)'
      BY <2>7, SetMoves DEF Publish, MovedTo, Publishes, Stage
    <3>2. ASSUME ~handler[i].alone, NEW e \in open, Covered(e) PROVE Covered(e)'
      <4>1. /\ \A j \in Message \ {i} : ~Reads(j, e) /\ ~Reads(j, e)'
            /\ \A j \in Message : ~handler[j].alone /\ Publishes(j) => j = i
        BY <2>4, <3>1, <3>2
      <4>2. CASE e \in handler[i].todo
        <5>1. ~handler'[i].alone /\ Publishes(i)' /\ e \in handler'[i].todo
          BY <3>1, <3>2, <4>2 DEF MovedTo
        <5> QED
          BY <5>1 DEF Covered
      <4>3. CASE e \notin handler[i].todo
        <5>1. ~Reads(i, e)'
          BY <3>1 DEF Reads, MovedTo
        <5>2. e \in Doc /\ shown'[e] = IF handler[i].at = e THEN handler[i].read ELSE shown[e]
          BY <3>1 DEF TypeOK
        <5>3. CASE handler[i].at = e
          <6>1. Reads(i, e)
            BY <3>1, <3>2, <5>3 DEF Reads
          <6>2. handler[i].read.rope = text[e] /\ handler[i].read.rows = text
            BY <3>1, <3>2, <4>1, <4>3, <6>1 DEF Covered
          <6> QED
            BY <3>1, <4>1, <5>1, <5>2, <5>3, <6>2 DEF Covered
        <5>4. CASE handler[i].at # e
          <6>1. ~Reads(i, e)
            BY <5>4 DEF Reads
          <6>2. shown[e].rope = text[e] /\ shown[e].rows = text
            BY <3>2, <4>1, <4>3, <6>1 DEF Covered
          <6> QED
            BY <3>1, <4>1, <5>1, <5>2, <5>4, <6>2 DEF Covered
        <5> QED
          BY <5>3, <5>4
      <4> QED
        BY <4>2, <4>3
    <3> QED
      BY <2>3, <3>1, <3>2 DEF MovedTo
  <2>8. CASE EndPublish(i)
    <3>1. /\ UNCHANGED <<text, open, shown>> /\ handler[i].stage = "publish"
          /\ handler[i].todo = {} /\ Publishes(i)
          /\ MovedTo(i, IF handler[i].alone THEN "publisher" ELSE "done")
      BY <2>8, SetMoves DEF EndPublish, GoesOn, Publishes, Stage
    <3>2. ASSUME ~handler[i].alone, NEW e \in open, Covered(e) PROVE Covered(e)'
      <4>1. /\ \A j \in Message \ {i} : ~Reads(j, e) /\ ~Reads(j, e)'
            /\ \A j \in Message : ~handler[j].alone /\ Publishes(j) => j = i
        BY <2>4, <3>1, <3>2 DEF MovedTo
      <4>2. ~Reads(i, e) /\ ~Reads(i, e)'
        BY <3>1 DEF Reads, MovedTo
      <4>3. shown[e].rope = text[e] /\ shown[e].rows = text
        BY <3>1, <3>2, <4>1, <4>2 DEF Covered
      <4> QED
        BY <3>1, <4>1, <4>2, <4>3 DEF Covered
    <3> QED
      BY <2>3, <3>1, <3>2 DEF MovedTo
  <2>9. Starts(i) \/ Formats(i) \/ Leaves(i) \/ Advances(i)
    BY <1>3, StepConcernsSession
  <2>10. CASE Advances(i)
    <3>1. handler[i].stage \in {"publisher", "publish", "rows", "send"} /\ ~Holds(session, i)
      BY <2>10, HeadWaits DEF Advances
    <3>2. ListOpen(i) \/ ReadRows(i) \/ Publish(i) \/ EndPublish(i) \/ \E d \in Doc : ReadRope(i, d)
      BY <1>3, <3>1 DEF Step, Start, DidOpen, DidOpenForeign, DidChange, DidClose,
                        FormatRope, FormatRegions
    <3> QED
      BY <2>2, <2>5, <2>6, <2>7, <2>8, <3>2
  <2> QED
    BY <2>1, <2>9, <2>10
<1>4. CASE UNCHANGED vars
  BY <1>4 DEF vars, PublishesPresent, Pending, Publishes, Covered, Reads
<1> QED
  BY <1>1, <1>2, <1>3, <1>4, EditsSend DEF Next

-----------------------------------------------------------------------------
(* The theorems *)

LspInv ==
    /\ TypeOK /\ InOrder /\ EditsChain /\ FormatSteady
    /\ PublishersInLine /\ OpenHasText /\ PublishesPresent

LEMMA InvInitially == Init => LspInv
<1> SUFFICES ASSUME Init PROVE LspInv
  OBVIOUS
<1>1. TypeOK
  BY TypeInitially
<1>2. /\ \A i \in Message : handler[i].stage = "none" /\ handler[i].kind = "none"
      /\ sent = 0 /\ session = <<>> /\ publisher = <<>> /\ open = {} /\ text = disk
      /\ \A d \in Doc : buffer[d] = Absent /\ disk[d] \in {Original, Absent}
  BY DEF Init
<1>3. InOrder
  <2>1. SentStarted /\ StartsInOrder /\ FormatStages
    BY <1>2 DEF SentStarted, StartsInOrder, FormatStages, Message
  <2>2. LineWaits /\ LineIncreases /\ LineComplete
    BY <1>2 DEF LineWaits, LineIncreases, LineComplete
  <2> QED
    BY <2>1, <2>2 DEF InOrder
<1>4. EditsChain
  <2>1. \A i \in Message : ~Waits(i) /\ ~(i <= sent)
    BY <1>2 DEF Waits, Message
  <2>2. NoGarbage
    BY <1>2 DEF NoGarbage, Absent, Garbage, Original
  <2> QED
    BY <1>2, <2>1, <2>2 DEF EditsChain, MessagesOK, SettledIsBuffer, FirstApplies, LastIsBuffer,
                            NextApplies
<1>5. FormatSteady
  BY <1>2 DEF FormatSteady
<1>6. PublishersInLine
  BY <1>2 DEF PublishersInLine, PublishersWait, PublishersDistinct, PublisherHolds, Publishes
<1>7. OpenHasText /\ PublishesPresent
  BY <1>2 DEF OpenHasText, PublishesPresent
<1> QED
  BY <1>1, <1>3, <1>4, <1>5, <1>6, <1>7 DEF LspInv

\* The inductive invariant of the language server: messages take effect in
\* order, those that wait lead from the bowl's texts to the editor's buffers,
\* and every open document is published or will be.
THEOREM LspInvariant == Spec => []LspInv
<1>1. LspInv /\ [Next]_vars => LspInv'
  BY TypeStep, OrderStep, ChainStep, FormatStep, LineStep, OpenStep, PresentStep DEF LspInv
<1> QED
  BY InvInitially, <1>1, PTL DEF Spec

\* did_open, did_change and did_close leave the bowl with the editor's buffers
\* however their handlers are interleaved: the session mutex keeps their order,
\* and no ranged edit meets a text it was not made to.
THEOREM FollowsEditor == Spec => []BuffersFollowEditor
<1>1. LspInv => BuffersFollowEditor
  <2> SUFFICES ASSUME LspInv, NEW d \in Doc
               PROVE  /\ text[d] # Garbage
                      /\ buffer[d] # Absent /\ text[d] # Absent /\ ~Unapplied(d)
                            => text[d] = buffer[d]
    BY DEF BuffersFollowEditor
  <2>1. text[d] # Garbage
    BY DEF LspInv, EditsChain, NoGarbage
  <2>2. ASSUME buffer[d] # Absent, text[d] # Absent, ~Unapplied(d) PROVE text[d] = buffer[d]
    <3>1. \A i \in Message : handler[i].doc = d => ~Waits(i)
      BY <2>2 DEF Unapplied, Waits
    <3> QED
      BY <2>2, <3>1 DEF LspInv, EditsChain, SettledIsBuffer
  <2> QED
    BY <2>1, <2>2
<1> QED
  BY LspInvariant, <1>1, PTL

\* formatting derives its edits from one revision: it holds the session mutex
\* between reading the rope and reading what is derived from it.
THEOREM FormattingIsOfOneRevision == Spec => []FormatsOneRevision
<1>1. LspInv => FormatsOneRevision
  BY DEF LspInv, FormatSteady, FormatsOneRevision
<1> QED
  BY LspInvariant, <1>1, PTL

\* publish_open_documents runs after every mutation, and its handlers publish
\* one at a time: when all is quiet the editor shows the present diagnostics of
\* every open document, however many handlers ran at once.
THEOREM ShowsPresent == Spec => []OpenShowsPresent
<1>1. LspInv => OpenShowsPresent
  <2> SUFFICES ASSUME LspInv, AtRest, NEW d \in open
               PROVE  shown[d].rope = text[d] /\ shown[d].rows = text
    BY DEF OpenShowsPresent
  <2>1. \A i \in Message : ~Publishes(i) /\ handler[i].stage # "publisher"
    BY DEF AtRest, Publishes
  <2>2. Covered(d)
    BY <2>1 DEF LspInv, PublishesPresent, Pending
  <2> QED
    BY <2>1, <2>2 DEF Covered, Reads, Publishes
<1> QED
  BY LspInvariant, <1>1, PTL
=============================================================================
