----------------------------- MODULE Definitions -----------------------------
(***************************************************************************)
(* The named definitions of a project and how names find them: queries,    *)
(* fragments and trusted-context entries (definition.rs, context.rs), the  *)
(* resolution of fragment spreads (fragment_spread.rs) and the expansion   *)
(* of a definition into the occurrences of the fragments it reaches        *)
(* (expansion.rs), which checks, inputs and plans all follow.  Expansion   *)
(* has the rounds in which it is computed.                                 *)
(*                                                                         *)
(* A project is a record: imports, a scope graph, and definitions, a set   *)
(* of records [id, kind, name, scope, spreads]; spreads is the sequence of *)
(* the fragment names its body spreads, nested selections included.  Ids   *)
(* are in the order of files and positions.                                *)
(***************************************************************************)
EXTENDS Scopes, FiniteSets

SameName(d, e) == d # e /\ d.kind = e.kind /\ d.name = e.name

-----------------------------------------------------------------------------
(* Conflicts of definitions: check_definition_conflicts and                *)
(* check_import_ambiguities, check_context_declarations for the context.   *)

\* A same-name definition of the same scope that comes earlier.
IsDuplicate(project, d) == \E e \in project.definitions: SameName(d, e) /\ e.scope = d.scope /\ e.id < d.id

\* Bug: only the scopes an import names are looked at.
CollidesDirectly(project, d) ==
    \E e \in project.definitions: SameName(d, e) /\ Contains(project.imports[d.scope], e.scope)

\* A same-name definition that d's scope imports.
CollidesWithImport(project, d) ==
    \E e \in project.definitions:
        SameName(d, e) /\ e.scope # d.scope /\ Sees(project.imports, d.scope, e.scope)

\* The definitions of d's name that a scope imports, if d is one of them.
ImportedPeers(project, consumer, d) ==
    LET imported == ImportsOf(project.imports, consumer) IN
    IF d.scope \notin imported THEN {} ELSE {e \in project.definitions: SameName(d, e) /\ e.scope \in imported}

\* d is the first of several scopes' definitions that one scope imports; fragments are
\* ambiguous only where they are used.
IsAmbiguousImport(project, d) ==
    /\ d.kind # "fragment"
    /\ \E consumer \in DOMAIN project.imports:
        LET peers == ImportedPeers(project, consumer, d) IN
        /\ \E e \in peers: e.scope # d.scope
        /\ \A e \in peers: d.id < e.id

ConflictingDefinitions(project) ==
    {d \in project.definitions:
        IsDuplicate(project, d) \/ CollidesWithImport(project, d) \/ IsAmbiguousImport(project, d)}

-----------------------------------------------------------------------------
(* Names *)

\* The definitions a name may mean in a scope: bind_visible_fragment_candidates,
\* bind_context_use_candidates.
Candidates(project, scope, kind, name) ==
    {d \in project.definitions: d.kind = kind /\ d.name = name /\ Sees(project.imports, scope, d.scope)}

\* resolve_spreads, resolve_context_uses: one candidate, or no target.
Resolve(project, scope, kind, name) ==
    LET found == Candidates(project, scope, kind, name)
    IN  IF Cardinality(found) = 1 THEN found ELSE {}

\* check_unknown_fragments; duplicates of one scope are the duplicate's own report.
SpreadProblem(project, scope, name) ==
    LET found == Candidates(project, scope, "fragment", name)
    IN  found = {} \/ Cardinality({d.scope : d \in found}) > 1

\* The spreads [from, at] of a definition that resolve, with their targets.
Spreads(project, d) ==
    {[from |-> d, at |-> i, to |-> CHOOSE e \in Resolve(project, d.scope, "fragment", d.spreads[i]): TRUE] :
        i \in {j \in DOMAIN d.spreads: Resolve(project, d.scope, "fragment", d.spreads[j]) # {}}}

-----------------------------------------------------------------------------
(* Expansion.  An occurrence is the path of spreads that leads to it from    *)
(* its root, and the names it has visited.                                   *)

Occurrence(root, path, visited) == [root |-> root, path |-> path, visited |-> visited]

\* The definition that an occurrence is of, the one its last spread leads to.
Target(o) == IF o.path = <<>> THEN o.root ELSE Last(o.path).to

\* A root counts as an occurrence that no spread leads to.  The name of a query is not one
\* that a spread could come back to.
RootOccurrence(root) == Occurrence(root, <<>>, IF root.kind = "fragment" THEN {root.name} ELSE {})

Opened(o, spread) == spread.to.name \notin o.visited

After(o, spread) == Occurrence(o.root, Append(o.path, spread), o.visited \cup {spread.to.name})

\* What an invocation of seed_expansion_occurrences adds for a root, and one of
\* extend_expansion_occurrences for another occurrence: occurrences, and records of the
\* spreads it cuts, whose fragments were visited.
Extensions(project, o) == {After(o, s) : s \in {t \in Spreads(project, Target(o)): Opened(o, t)}}

Cut(o, spread) == [root |-> o.root, path |-> Append(o.path, spread)]

\* Bug: roots are not looked at.
CutsBelow(project, o) == {Cut(o, s) : s \in {t \in Spreads(project, Target(o)): o.path # <<>> /\ ~Opened(o, t)}}

Cuts(project, o) == {Cut(o, s) : s \in {t \in Spreads(project, Target(o)): ~Opened(o, t)}}
=============================================================================
