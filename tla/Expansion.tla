------------------------------ MODULE Expansion ------------------------------
(***************************************************************************)
(* How the fragments of a project are expanded (dsql-core/src/entities/    *)
(* expansion.rs): every root at once, one depth of spreads at a time,      *)
(* until nothing is added.  A spread whose fragment the occurrence has     *)
(* visited, under its name, is cut and recorded, and check_expansion_      *)
(* cycles reports the records of fragments.                                *)
(***************************************************************************)
EXTENDS Definitions

CONSTANT ProjectSet

\* Ids are positions, and there are finitely many definitions.
ASSUME ProjectsAssumption ==
    \A p \in ProjectSet:
        /\ IsFiniteSet(p.definitions)
        /\ \A d, e \in p.definitions: d.id \in Nat /\ (d.id = e.id => d = e)

VARIABLES
    project,
    occurrences,   \* those found so far
    waiting,       \* those of the last round, which are not extended yet
    cycles         \* the cuts [root, path], the last spread of the path being the one cut

expansionVars == <<project, occurrences, waiting, cycles>>

Roots == {RootOccurrence(d) : d \in project.definitions}

ExpansionInit ==
    /\ project \in ProjectSet
    /\ occurrences = Roots /\ waiting = Roots /\ cycles = {}

\* seed_expansion_occurrences the first time, then extend_expansion_occurrences.
ExtendOccurrences ==
    /\ waiting # {}
    /\ waiting' = UNION {Extensions(project, o) : o \in waiting}
    /\ occurrences' = occurrences \cup waiting'
    /\ cycles' = cycles \cup UNION {Cuts(project, o) : o \in waiting}
    /\ UNCHANGED project

ExpansionSpec == ExpansionInit /\ [][ExtendOccurrences]_expansionVars

\* check_expansion_cycles: one report for each spread that closes a cycle of some fragment.
CircularSpreads == {Last(c.path) : c \in {k \in cycles: k.root.kind = "fragment"}}

-----------------------------------------------------------------------------
(* What names mean *)

Conflicts == ConflictingDefinitions(project)

\* A scope of the project, and the definitions of d's name that it sees.
ProjectScopes == DOMAIN project.imports \cup {d.scope : d \in project.definitions}
SeenWith(scope, d) == Candidates(project, scope, d.kind, d.name)

\* Some scope sees d and another definition of its name.
SeenApart(d) == \E scope \in ProjectScopes: d \in SeenWith(scope, d) /\ Cardinality(SeenWith(scope, d)) > 1

\* Without a conflict, a scope sees at most one definition of a name, its own or an
\* imported one; and a conflict is reported whenever a scope sees two, fragments of two
\* imports excepted: a spread that finds two, or none, is reported.
NamesMeanOneThing ==
    /\ Conflicts = {} => \A d \in project.definitions: SeenApart(d) => d.kind = "fragment"
    /\ Conflicts # {} => \E d \in project.definitions: SeenApart(d)
    /\ Conflicts = {} =>
            \A d \in project.definitions: \A name \in ToSet(d.spreads):
                SpreadProblem(project, d.scope, name) <=> Resolve(project, d.scope, "fragment", name) = {}

-----------------------------------------------------------------------------
(* What expansion is for *)

AllSpreads == UNION {Spreads(project, d) : d \in project.definitions}

\* A fragment leads to another along spreads, or is it.
ClosedUnderSpreads(definitions) == \A s \in AllSpreads: s.from \in definitions => s.to \in definitions
LeadsTo(d, e) ==
    \A definitions \in SUBSET project.definitions:
        d \in definitions /\ ClosedUnderSpreads(definitions) => e \in definitions

OnSpreadCycle(spread) == LeadsTo(spread.to, spread.from)

\* The walks along spreads from a definition, up to a length that no walk exceeds which
\* meets no definition twice.
IsWalk(d, walk) == \A i \in DOMAIN walk: walk[i] \in Spreads(project, IF i = 1 THEN d ELSE walk[i - 1].to)
Walks(d) ==
    {walk \in UNION {[1..n -> AllSpreads] : n \in 0..Cardinality(project.definitions)}: IsWalk(d, walk)}

Expanded == waiting = {}

\* A spread is reported exactly if it is on a cycle of fragments, although only names are
\* compared; and without cycles every walk along spreads is an occurrence, and no other.
SpreadsExpandFully ==
    /\ CircularSpreads = {s \in AllSpreads: s.from.kind = "fragment" /\ OnSpreadCycle(s)}
    /\ CircularSpreads = {} =>
            \A d \in project.definitions: {o.path : o \in {k \in occurrences: k.root = d}} = Walks(d)

\* Names are looked up from where they are written: what the checks let through means
\* one thing in every scope that imports it.  Expansion cuts a spread whose fragment was
\* visited under its name: it ends, cuts nothing but cycles, and every cycle of fragments
\* is reported (check_definition_conflicts, check_context_declarations,
\* extend_expansion_occurrences, check_expansion_cycles).
NamesReachDefinitions ==
    /\ NamesMeanOneThing
    /\ \A o \in occurrences: Len(o.path) <= Cardinality(project.definitions)
    /\ Expanded /\ Conflicts = {} => SpreadsExpandFully
=============================================================================
