------------------------------ MODULE ImportWalk ------------------------------
(***************************************************************************)
(* The two walks along the imports of scopes (dsql-core/src/source.rs):    *)
(* visible_from, which collects what a scope sees, and import_cycle, which *)
(* searches all of a project for a cycle.  Both are recursive functions;   *)
(* here the calls that are open are a stack of frames, each with the       *)
(* position of the import that its loop comes to next.                     *)
(***************************************************************************)
EXTENDS Scopes

CONSTANTS
    ScopeName,     \* names of scopes, configured or only imported
    Configured,    \* the configured scopes in lexical order
    ImportGraphs   \* what the configured scopes may import

ASSUME ConfiguredScopes == Configured \in Seq(ScopeName)
ASSUME GraphsOfScopes == ImportGraphs \subseteq [ToSet(Configured) -> Seq(ScopeName)]

VARIABLES
    imports,   \* the graph
    walk,      \* which walk this is, "visible" or "cycle"
    stack,     \* its open calls, [scope, next]
    start,     \* the scope that visible_from is called with
    visible,   \* what it has seen so far, in order
    root,      \* position of the next configured scope that import_cycle starts from
    visited,   \* scopes that import_cycle is done with; those on the stack are being visited
    cycle      \* what it has found: a cycle, closed by its first scope, or nothing

walkVars == <<imports, walk, stack, start, visible, root, visited, cycle>>

Frame(scope) == [scope |-> scope, next |-> 1]

WalkInit ==
    /\ imports \in ImportGraphs /\ start \in ScopeName
    /\ root = 1 /\ visited = {} /\ cycle = <<>>
    /\ \/ walk = "visible" /\ stack = <<Frame(start)>> /\ visible = <<start>>
       \/ walk = "cycle" /\ stack = <<>> /\ visible = <<>>

\* The innermost call, its imports, and the one it comes to.
Here == stack[Len(stack)].scope
HereImports == ImportList(imports, Here)
AtImport == stack # <<>> /\ stack[Len(stack)].next <= Len(HereImports)
AtEnd == stack # <<>> /\ stack[Len(stack)].next > Len(HereImports)
Import == HereImports[stack[Len(stack)].next]

\* The stack after the loop has taken an import, and with a call for that import.
Advanced == [stack EXCEPT ![Len(stack)].next = @ + 1]
Called == Append(Advanced, Frame(Import))

OnStack(scope) == \E i \in DOMAIN stack: stack[i].scope = scope

-----------------------------------------------------------------------------
(* visible_from *)

\* A scope that was seen is not taken again.
CollectSeen ==
    /\ walk = "visible" /\ AtImport /\ Contains(visible, Import)
    /\ stack' = Advanced
    /\ UNCHANGED <<imports, walk, start, visible, root, visited, cycle>>

\* Bug: imports of imports are left out.
CollectShallow ==
    /\ walk = "visible" /\ AtImport /\ ~Contains(visible, Import)
    /\ stack' = Advanced
    /\ visible' = Append(visible, Import)
    /\ UNCHANGED <<imports, walk, start, root, visited, cycle>>

CollectNew ==
    /\ walk = "visible" /\ AtImport /\ ~Contains(visible, Import)
    /\ stack' = Called
    /\ visible' = Append(visible, Import)
    /\ UNCHANGED <<imports, walk, start, root, visited, cycle>>

CollectReturns ==
    /\ walk = "visible" /\ AtEnd
    /\ stack' = Front(stack)
    /\ UNCHANGED <<imports, walk, start, visible, root, visited, cycle>>

-----------------------------------------------------------------------------
(* import_cycle *)

Searching == walk = "cycle" /\ cycle = <<>>

VisitRoot ==
    /\ Searching /\ stack = <<>> /\ root <= Len(Configured)
    /\ stack' = IF Configured[root] \in visited THEN <<>> ELSE <<Frame(Configured[root])>>
    /\ root' = root + 1
    /\ UNCHANGED <<imports, walk, start, visible, visited, cycle>>

\* Bug: a scope that is being visited is taken for one that was.
VisitSeen ==
    /\ Searching /\ AtImport /\ (Import \in visited \/ OnStack(Import))
    /\ stack' = Advanced
    /\ UNCHANGED <<imports, walk, start, visible, root, visited, cycle>>

VisitVisited ==
    /\ Searching /\ AtImport /\ Import \in visited
    /\ stack' = Advanced
    /\ UNCHANGED <<imports, walk, start, visible, root, visited, cycle>>

VisitNew ==
    /\ Searching /\ AtImport /\ Import \notin visited /\ ~OnStack(Import)
    /\ stack' = Called
    /\ UNCHANGED <<imports, walk, start, visible, root, visited, cycle>>

\* Bug: the way to the cycle is reported with it.
WholeStack(scope) == Append([i \in DOMAIN stack |-> stack[i].scope], scope)

\* The scopes on the stack, from where the scope stands on it.
CycleOf(scope) ==
    LET first == CHOOSE i \in DOMAIN stack: stack[i].scope = scope
    IN  Append([i \in 1..(Len(stack) - first + 1) |-> stack[first + i - 1].scope], scope)

\* Every call returns the cycle.
FindCycle ==
    /\ Searching /\ AtImport /\ Import \notin visited /\ OnStack(Import)
    /\ cycle' = CycleOf(Import)
    /\ stack' = <<>>
    /\ UNCHANGED <<imports, walk, start, visible, root, visited>>

FinishVisit ==
    /\ Searching /\ AtEnd
    /\ visited' = visited \cup {Here}
    /\ stack' = Front(stack)
    /\ UNCHANGED <<imports, walk, start, visible, root, cycle>>

WalkNext ==
    \/ CollectSeen \/ CollectNew \/ CollectReturns
    \/ VisitRoot \/ VisitVisited \/ VisitNew \/ FindCycle \/ FinishVisit

WalkSpec == WalkInit /\ [][WalkNext]_walkVars

-----------------------------------------------------------------------------
(* What the walks are for *)

CollectDone == walk = "visible" /\ stack = <<>>
SearchDone == walk = "cycle" /\ stack = <<>> /\ (cycle # <<>> \/ root > Len(Configured))

\* The scope, once and first, then all that it imports, over any number of imports, once.
CollectsWhatIsSeen ==
    /\ IsInjective(visible) /\ visible[1] = start
    /\ ToSet(visible) = VisibleFrom(imports, start)

\* Each import is written, and no scope is on it twice but the one that closes it.
IsImportCycle(scopes) ==
    /\ Len(scopes) > 1 /\ scopes[1] = scopes[Len(scopes)]
    /\ \A i \in 1..Len(scopes) - 1: scopes[i + 1] \in ImportsFrom(imports, scopes[i])
    /\ \A i, j \in 2..Len(scopes): scopes[i] = scopes[j] => i = j

\* A cycle is found if there is one, and what is found is one.
FindsTheCycle ==
    /\ cycle = <<>> <=> \A scope \in ScopeName: ~OnImportCycle(imports, scope)
    /\ cycle # <<>> => IsImportCycle(cycle)

\* Every configured scope is generated from, by a target that sees it, and no target sees
\* another.
TargetsCover ==
    LET targets == {scope \in ScopeName: IsGenerationTarget(imports, scope)} IN
    /\ \A scope \in DOMAIN imports: \E target \in targets: Sees(imports, target, scope)
    /\ \A s, t \in targets: Sees(imports, s, t) => s = t

\* A scope sees itself and all that it imports, over any number of imports, cycles and
\* scopes imported twice, each once; the search for a cycle of imports, which forgets the
\* stack of a scope it is done with, misses none; and artifacts are generated for the
\* scopes nobody imports, which in a project that loads leave none out (visible_from,
\* import_cycle, is_generation_target).
ImportsAreFollowed ==
    /\ CollectDone => CollectsWhatIsSeen
    /\ SearchDone => FindsTheCycle
    /\ SearchDone /\ cycle = <<>> => TargetsCover
=============================================================================
