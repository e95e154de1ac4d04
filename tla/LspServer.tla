------------------------------ MODULE LspServer ------------------------------
(***************************************************************************)
(* The language server (crates/dsql-lsp/src/server.rs) and its editor: one *)
(* bowl, handlers that run concurrently, a mutex that orders mutations of  *)
(* buffers and another one that orders publications of diagnostics.        *)
(*                                                                         *)
(* A document's text is named by a number.  A ranged change says which     *)
(* text it was made to; applied to another one it leaves garbage.  The     *)
(* diagnostics of a document depend on the texts of all documents, so a    *)
(* publication is the text whose rope gave the positions and the texts     *)
(* that gave the rows; the code reads them in two queries.                 *)
(*                                                                         *)
(* The runtime polls new handlers in the order of their messages, Level at *)
(* a time, and its mutexes are fair; both are outside this repository.     *)
(***************************************************************************)
EXTENDS Naturals, Sequences, FiniteSets

CONSTANTS
    Doc,            \* documents
    Loaded,         \* documents of the project, in the bowl from the start
    Ignored,        \* documents that belong to no scope and are not dsql
    Level,          \* handlers that run at once
    MaxMessages     \* bound on the messages of the editor

Absent == 0         \* the text of a file that is not there
Garbage == 1        \* what is left of a text by an edit made to another one
Original == 2       \* what a file of the project holds at first

Message == 1 .. MaxMessages
Text == 0 .. MaxMessages + 2

ASSUME LspAssumption ==
    /\ Doc # {} /\ Loaded \subseteq Doc /\ Ignored \subseteq Doc \ Loaded
    /\ Level \in Nat \ {0} /\ MaxMessages \in Nat

VARIABLES
    disk,           \* files
    buffer,         \* the editor's buffers, Absent when closed
    sent,           \* how many messages the editor has sent
    text,           \* SourceText of the file entities of the bowl
    open,           \* documents with an OpenBuffer
    rev,            \* revision of the bowl
    handler,        \* the handlers of the messages
    session, publisher,     \* the mutexes: who holds it, then who waits
    shown           \* diagnostics the editor shows, by document

vars == <<disk, buffer, sent, text, open, rev, handler, session, publisher, shown>>

-----------------------------------------------------------------------------
(* Types *)

Texts == [Doc -> Text]
Publication == [rev: Nat, rope: Text, rows: Texts]
NothingRead == [rev |-> 0, rope |-> Absent, rows |-> [d \in Doc |-> Absent]]

\* A handler: kind and document of its message, the text before and after it,
\* its documents still to publish, the one in work, and what it has read.
Handler == [kind: {"none", "open", "change", "replace", "close", "format"},
            doc: Doc, from: Text, to: Text,
            stage: {"none", "new", "session", "format", "publisher", "publish", "rows", "send", "done"},
            todo: SUBSET Doc, alone: BOOLEAN, at: Doc, read: Publication]

Holds(mutex, i) == mutex # <<>> /\ Head(mutex) = i

Set(i, stage) == handler' = [handler EXCEPT ![i].stage = stage]

-----------------------------------------------------------------------------
(* The editor *)

Send(kind, d, from, to) ==
    /\ sent < MaxMessages
    /\ sent' = sent + 1
    /\ handler' = [handler EXCEPT ![sent'] = [@ EXCEPT
            !.kind = kind, !.doc = d, !.from = from, !.to = to, !.stage = "new"]]
    /\ UNCHANGED <<disk, text, open, rev, session, publisher, shown>>

\* An opened document has what is on disk, or is new; each edit makes a text
\* that was not there before.
NewText == sent + 3

SendOpen(d) ==
    /\ buffer[d] = Absent
    /\ \E t \in {disk[d], NewText} \ {Absent} :
          Send("open", d, Absent, t) /\ buffer' = [buffer EXCEPT ![d] = t]

SendChange(d, kind) ==
    /\ buffer[d] # Absent
    /\ Send(kind, d, buffer[d], NewText) /\ buffer' = [buffer EXCEPT ![d] = NewText]

SendClose(d) ==
    /\ buffer[d] # Absent
    /\ Send("close", d, buffer[d], Absent) /\ buffer' = [buffer EXCEPT ![d] = Absent]

SendFormat(d) ==
    buffer[d] # Absent /\ Send("format", d, buffer[d], buffer[d]) /\ UNCHANGED buffer

Save(d) ==
    /\ buffer[d] # Absent /\ disk[d] # buffer[d]
    /\ disk' = [disk EXCEPT ![d] = buffer[d]]
    /\ UNCHANGED <<buffer, sent, text, open, rev, handler, session, publisher, shown>>

-----------------------------------------------------------------------------
(* Mutations, under the session mutex *)

Running(i) == handler[i].stage \notin {"none", "new", "done"}

\* Bug: who waits for the session mutex gets in at any time.
Overtaking(i) == {<<i>> \o session, Append(session, i)}

\* The mutex is fair.
InLine(i) == {Append(session, i)}

\* The next message is taken, and its handler gets in line for the mutex.
Start(i) ==
    /\ handler[i].stage = "new" /\ \A j \in 1 .. i - 1 : handler[j].stage # "new"
    /\ Cardinality({j \in Message : Running(j)}) < Level
    /\ session' \in InLine(i)
    /\ Set(i, "session")
    /\ UNCHANGED <<disk, buffer, sent, text, open, rev, publisher, shown>>

\* The text a change of handler i makes of a text.
Edited(i, t) ==
    IF t = Absent THEN Absent                               \* no such entity
    ELSE IF handler[i].kind = "replace" THEN handler[i].to
    ELSE IF handler[i].from = t THEN handler[i].to ELSE Garbage

\* The mutation is over: the handler leaves the session mutex and gets in line
\* for the publisher mutex in the same turn.
ThenPublish(i) ==
    /\ session' = Tail(session)
    /\ publisher' = Append(publisher, i)
    /\ Set(i, "publisher")
    /\ UNCHANGED <<disk, buffer, sent, shown>>

\* did_open, for a known document or one that a scope or the default owns.
DidOpen(i) ==
    LET d == handler[i].doc
    IN  /\ Holds(session, i) /\ handler[i].kind = "open"
        /\ text[d] # Absent \/ d \notin Ignored
        /\ text' = [text EXCEPT ![d] = handler[i].to]
        /\ open' = open \cup {d}
        /\ rev' = rev + 1
        /\ ThenPublish(i)

\* did_open of a document that is no concern of the server returns early.
DidOpenForeign(i) ==
    LET d == handler[i].doc
    IN  /\ Holds(session, i) /\ handler[i].kind = "open"
        /\ text[d] = Absent /\ d \in Ignored
        /\ session' = Tail(session)
        /\ Set(i, "done")
        /\ UNCHANGED <<disk, buffer, sent, text, open, rev, publisher, shown>>

DidChange(i) ==
    /\ Holds(session, i) /\ handler[i].kind \in {"change", "replace"}
    /\ text' = [text EXCEPT ![handler[i].doc] = Edited(i, @)]
    /\ rev' = rev + 1
    /\ ThenPublish(i)
    /\ UNCHANGED open

\* did_close: the text on disk comes back, unless it cannot be read.  The
\* document is published on its own, without the publisher mutex.
DidClose(i) ==
    LET d == handler[i].doc
    IN  /\ Holds(session, i) /\ handler[i].kind = "close"
        /\ session' = Tail(session)
        /\ text' = IF text[d] = Absent \/ disk[d] = Absent THEN text
                   ELSE [text EXCEPT ![d] = disk[d]]
        /\ open' = open \ {d}
        /\ rev' = rev + 1
        /\ handler' = [handler EXCEPT ![i] = [@ EXCEPT
                !.stage = "publish", !.alone = TRUE, !.todo = {d}]]
        /\ UNCHANGED <<disk, buffer, sent, publisher, shown>>

\* Bug: formatting does not hold the session mutex between its two reads.
Released(mutex) == Tail(mutex)

Held(mutex) == mutex

\* formatting reads the rope, then the documents derived from it.
FormatRope(i) ==
    /\ Holds(session, i) /\ handler[i].kind = "format" /\ handler[i].stage = "session"
    /\ handler' = [handler EXCEPT ![i].stage = "format",
                                  ![i].read.rope = text[handler[i].doc]]
    /\ session' = Held(session)
    /\ UNCHANGED <<disk, buffer, sent, text, open, rev, publisher, shown>>

FormatRegions(i) ==
    /\ handler[i].stage = "format"
    /\ handler' = [handler EXCEPT ![i].stage = "done", ![i].read.rows = text]
    /\ session' = IF Holds(session, i) THEN Tail(session) ELSE session
    /\ UNCHANGED <<disk, buffer, sent, text, open, rev, publisher, shown>>

-----------------------------------------------------------------------------
(* Publication *)

\* publish_open_documents_locked: the open documents are listed.
ListOpen(i) ==
    /\ Holds(publisher, i) /\ handler[i].stage = "publisher"
    /\ handler' = [handler EXCEPT ![i].stage = "publish", ![i].todo = open, ![i].alone = FALSE]
    /\ UNCHANGED <<disk, buffer, sent, text, open, rev, session, publisher, shown>>

\* publish_diagnostics of document d: its rope, if it has one.
ReadRope(i, d) ==
    /\ handler[i].stage = "publish" /\ d \in handler[i].todo
    /\ handler' = [handler EXCEPT
            ![i].todo = @ \ {d}, ![i].at = d,
            ![i].stage = IF text[d] = Absent THEN "publish" ELSE "rows",
            ![i].read = [rev |-> rev, rope |-> text[d], rows |-> handler[i].read.rows]]
    /\ UNCHANGED <<disk, buffer, sent, text, open, rev, session, publisher, shown>>

\* The rows and the projection of regions.
ReadRows(i) ==
    /\ handler[i].stage = "rows"
    /\ handler' = [handler EXCEPT ![i].stage = "send", ![i].read.rows = text]
    /\ UNCHANGED <<disk, buffer, sent, text, open, rev, session, publisher, shown>>

Publish(i) ==
    /\ handler[i].stage = "send"
    /\ shown' = [shown EXCEPT ![handler[i].at] = handler[i].read]
    /\ Set(i, "publish")
    /\ UNCHANGED <<disk, buffer, sent, text, open, rev, session, publisher>>

\* Bug: a closed document's handler does not publish the open ones again.
ClosedIsEnough(i) == FALSE

GoesOn(i) == handler[i].alone

\* Bug: the publisher mutex is not given back.
Keep(mutex) == mutex

Leave(mutex) == Tail(mutex)

\* Everything is published; after its own document a close turns to the others.
EndPublish(i) ==
    /\ handler[i].stage = "publish" /\ handler[i].todo = {}
    /\ IF GoesOn(i)
       THEN publisher' = Append(publisher, i) /\ Set(i, "publisher")
       ELSE /\ publisher' = IF Holds(publisher, i) THEN Leave(publisher) ELSE publisher
            /\ Set(i, "done")
    /\ UNCHANGED <<disk, buffer, sent, text, open, rev, session, shown>>

-----------------------------------------------------------------------------
Init ==
    /\ disk = [d \in Doc |-> IF d \in Loaded THEN Original ELSE Absent]
    /\ buffer = [d \in Doc |-> Absent]
    /\ sent = 0
    /\ text = disk
    /\ open = {} /\ rev = 1
    /\ handler = [i \in Message |->
          [kind |-> "none", doc |-> CHOOSE d \in Doc : TRUE, from |-> Absent, to |-> Absent,
           stage |-> "none", todo |-> {}, alone |-> FALSE, at |-> CHOOSE d \in Doc : TRUE,
           read |-> NothingRead]]
    /\ session = <<>> /\ publisher = <<>>
    /\ shown = [d \in Doc |-> NothingRead]

Edit(d) ==
    \/ SendOpen(d) \/ SendClose(d) \/ SendFormat(d) \/ Save(d)
    \/ \E kind \in {"change", "replace"} : SendChange(d, kind)

Step(i) ==
    \/ Start(i)
    \/ DidOpen(i) \/ DidOpenForeign(i) \/ DidChange(i) \/ DidClose(i)
    \/ FormatRope(i) \/ FormatRegions(i)
    \/ ListOpen(i) \/ ReadRows(i) \/ Publish(i) \/ EndPublish(i)
    \/ \E d \in Doc : ReadRope(i, d)

Next == (\E d \in Doc : Edit(d)) \/ (\E i \in Message : Step(i))

Spec == Init /\ [][Next]_vars

\* Handlers are polled; the editor reads what is sent to it.
FairSpec == Spec /\ \A i \in Message : WF_vars(Step(i))

-----------------------------------------------------------------------------
(* Properties *)

Unapplied(d) ==
    \E i \in Message : handler[i].doc = d /\ handler[i].stage \in {"new", "session"}

\* The bowl's text of an open document is the editor's buffer as soon as the
\* messages about it are applied, and no ranged edit meets a text it was not
\* made to: concurrent handlers keep the order of the editor.
BuffersFollowEditor ==
    \A d \in Doc :
        /\ text[d] # Garbage
        /\ buffer[d] # Absent /\ text[d] # Absent /\ ~Unapplied(d) => text[d] = buffer[d]

AtRest == \A i \in Message : handler[i].stage \in {"none", "done"}

\* When nothing is under way, the diagnostics of every open document are those
\* of the present texts of all documents, at positions of its present rope,
\* however publications and edits were interleaved.
OpenShowsPresent ==
    AtRest => \A d \in open : shown[d].rope = text[d] /\ shown[d].rows = text

\* The edits of formatting are made of one revision: the rope that gives the
\* positions is the text the regions were derived from.
FormatsOneRevision ==
    \A i \in Message : handler[i].kind = "format" /\ handler[i].stage = "done"
        => handler[i].read.rope = handler[i].read.rows[handler[i].doc]

\* Every message is handled to its end: the two mutexes and the bound on
\* running handlers never block each other.
EveryMessageHandled ==
    \A i \in Message : handler[i].stage = "new" ~> handler[i].stage = "done"

\* server.rs: "an older handler's publication can never overtake a newer one".
NewestPublicationWins ==
    [][\A d \in Doc : shown'[d].rev >= shown[d].rev]_shown
=============================================================================
