---------------------------- MODULE MCDefinitions ----------------------------
(***************************************************************************)
(* Small scope graphs for ImportWalk and small projects for Expansion.     *)
(***************************************************************************)
EXTENDS Naturals, SequencesExt

-----------------------------------------------------------------------------
(* Scopes *)

Roots == <<"a", "b", "c">>     \* the configured scopes, in lexical order
Known == ToSet(Roots) \cup {"d"}   \* d is imported without being configured

ImportLists == UNION {{list \in [1..n -> Known]: IsInjective(list)} : n \in 0..2}
Graphs == [ToSet(Roots) -> ImportLists]

-----------------------------------------------------------------------------
(* Definitions *)

\* A chain, and a scope that imports two.
ScopeGraphs ==
    {[app |-> <<"lib">>, lib |-> <<"base">>, base |-> <<>>], [app |-> <<"lib", "base">>, lib |-> <<>>, base |-> <<>>]}

Define(id, kind, name, scope, spreads) == [id |-> id, kind |-> kind, name |-> name, scope |-> scope, spreads |-> spreads]

Names == {"A", "B"}
Bodies == {<<>>, <<"A">>, <<"B">>, <<"A", "B">>}
Fragment(id) == {Define(id, "fragment", name, scope, spreads) :
                    name \in Names, scope \in {"app", "lib", "base"}, spreads \in Bodies}
Third == {Define(3, "fragment", "A", scope, spreads) : scope \in {"lib", "base"}, spreads \in {<<>>, <<"B">>}}
            \cup {Define(3, "context", "A", scope, <<>>) : scope \in {"lib", "base"}}
Fourth == {Define(4, "context", "A", scope, <<>>) : scope \in {"app", "lib", "base"}}

Query == Define(0, "query", "A", "app", <<"A", "B", "C">>)

DefinitionSets ==
    {{Query, one, two, three} : one \in Fragment(1), two \in Fragment(2), three \in Third}
        \cup {{one, three, four} : one \in {Define(1, "query", "A", s, <<>>) : s \in {"lib", "base"}}
                                            \cup {Define(1, "context", "A", s, <<>>) : s \in {"lib", "base"}},
                                   three \in Third, four \in Fourth}
        \cup {{Query, Define(1, "query", "A", s, <<>>), Define(2, "query", "A", t, <<>>)} :
                s \in {"app", "lib", "base"}, t \in {"lib", "base"}}
        \cup {{Define(1, "query", "A", s, <<>>), Define(2, "query", "A", t, <<>>)} : s, t \in {"lib", "base"}}

SmallProjects == {[imports |-> graph, definitions |-> definitions] : graph \in ScopeGraphs, definitions \in DefinitionSets}
=============================================================================
