-------------------------------- MODULE Scopes --------------------------------
(***************************************************************************)
(* The scopes of a project (dsql-core/src/source.rs) and what a scope sees *)
(* through its imports.  A scope graph is a function from the configured   *)
(* scopes to the sequence of scopes each one imports, in the order they    *)
(* are written; a scope may import one that is not configured.             *)
(*                                                                         *)
(* What is visible is stated here as a set, which is all that the modules  *)
(* about names read.  ImportWalk has the code's walk along the imports,    *)
(* and ScopeProofs the proof that it collects this set.                    *)
(***************************************************************************)
EXTENDS Naturals, SequencesExt

\* The imports of a scope, none for one that is not configured.
ImportList(graph, scope) == IF scope \in DOMAIN graph THEN graph[scope] ELSE <<>>

ImportsFrom(graph, scope) == ToSet(ImportList(graph, scope))

ClosedUnderImports(graph, scopes) == \A scope \in scopes: ImportsFrom(graph, scope) \subseteq scopes

\* The scopes a walk that starts at scope could meet.
WithinReachOf(graph, scope) == {scope} \cup UNION {ToSet(graph[other]) : other \in DOMAIN graph}

\* visible_from: in every set that has the scope and whatever its members import.
Sees(graph, scope, other) ==
    \A scopes \in SUBSET WithinReachOf(graph, scope):
        scope \in scopes /\ ClosedUnderImports(graph, scopes) => other \in scopes

VisibleFrom(graph, scope) == {other \in WithinReachOf(graph, scope): Sees(graph, scope, other)}

\* imports_of
ImportsOf(graph, scope) == VisibleFrom(graph, scope) \ {scope}

\* Bug: the scopes at the other end of the imports.
ImportsNothing(graph, scope) == scope \in DOMAIN graph /\ graph[scope] = <<>>

IsGenerationTarget(graph, scope) ==
    scope \in DOMAIN graph /\ \A other \in DOMAIN graph: ~Contains(graph[other], scope)

\* Some import of the scope leads back to it.
OnImportCycle(graph, scope) == \E import \in ImportsFrom(graph, scope): Sees(graph, import, scope)
=============================================================================
