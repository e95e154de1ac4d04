------------------------------- MODULE MCInputs -------------------------------
(***************************************************************************)
(* Small projects for Inputs: a query spreads F, which spreads G; and what *)
(* a variable of a fragment means, from the query inwards.                 *)
(***************************************************************************)
EXTENDS Inputs

Variable(source, name, role, inferred, key, type) ==
    [source |-> source, name |-> name, role |-> role, inferred |-> inferred, key |-> key, type |-> type]
Compared(source, name) == Variable(source, name, "where", <<"x">>, NoName, "int")
Limited(source, name) == Variable(source, name, "limit", <<"limit">>, NoName, "int")
\* x compared by an operator that is an input, with an anonymous value.
Operated == <<Variable("structured", NoName, "where", <<"x">>, "value", "int"),
              Variable("structured", NoName, "op", <<"x">>, NoName, "operator")>>

Ref(source, name) == [source |-> source, name |-> name]
Forward(source, name) == [target |-> Ref(source, name), from |-> <<>>]
Bound(source, name, from, as) == [target |-> Ref(source, name), from |-> <<Ref(from, as)>>]

Refine(source, name, nullable, default) == [source |-> source, name |-> name, nullable |-> nullable, default |-> default]
One == <<[type |-> "int", value |-> 1]>>
Minus == <<[type |-> "int", value |-> -1]>>
Null == <<[type |-> "null", value |-> 0]>>

Field(out, aggregated, uses, items) == [k |-> "field", out |-> out, aggregated |-> aggregated, uses |-> uses, items |-> items]
SpreadOf(name, bindings) == [k |-> "spread", name |-> name, bindings |-> bindings]

InputDefinition(id, kind, name, items, header, refinements) ==
    LET sites == Sites(items, DefinitionPath) IN
    [id |-> id, kind |-> kind, name |-> name, scope |-> "app", spreads |-> [i \in DOMAIN sites |-> sites[i].spread.name],
     items |-> items, header |-> header, refinements |-> refinements]

FragmentG(uses, refinements) ==
    InputDefinition(3, "fragment", "G", <<Field("tags", FALSE, uses, <<>>)>>, <<>>, refinements)
FragmentF(uses, inner, refinements) ==
    InputDefinition(2, "fragment", "F", inner \o <<Field("author", FALSE, uses, <<>>)>>, <<>>, refinements)
QueryQ(uses, items, header, refinements) ==
    InputDefinition(1, "query", "Q", <<Field("posts", FALSE, uses, items)>>, header, refinements)

WholeBindings ==
    {<<>>, <<Forward("top", NoName)>>, <<Forward("structured", NoName)>>, <<Forward("structured", NoName), Forward("top", NoName)>>,
     <<Bound("top", NoName, "structured", "ns")>>, <<Bound("structured", NoName, "top", "ns")>>,
     <<Bound("structured", NoName, "structured", "ns"), Bound("top", NoName, "structured", "ns")>>}
LeafBindingLists ==
    {<<Forward("top", "v")>>, <<Bound("top", "v", "top", "w")>>, <<Bound("top", "v", "structured", "w")>>,
     <<Bound("structured", "x", "top", "v")>>, <<Bound("top", "limit", "top", NoName)>>,
     <<Forward("top", "v"), Forward("top", NoName)>>, <<Forward("top", "v"), Bound("top", "v", "top", "w")>>}
BindingLists == WholeBindings \cup LeafBindingLists

UsesOfF ==
    {<<Compared("top", "v")>>, <<Compared("structured", NoName)>>, <<Limited("top", NoName)>>, <<Compared("context", "me")>>, Operated,
     <<Compared("top", "v"), Limited("top", NoName)>>, <<Compared("structured", NoName), Compared("structured", "x")>>,
     <<Compared("structured", "v"), Compared("top", "v")>>}
Refinements ==
    {<<>>, <<Refine("top", "v", TRUE, <<>>)>>, <<Refine("top", "v", FALSE, One)>>, <<Refine("top", "v", TRUE, Null)>>,
     <<Refine("structured", "x", FALSE, One)>>, <<Refine("top", "limit", FALSE, Minus)>>}
UsesOfQ ==
    {<<>>, <<Compared("top", "v")>>, <<Limited("top", "v")>>, <<Compared("structured", "w")>>}
RefinementsOfQ == {<<>>, <<Refine("top", "v", TRUE, Null)>>, <<Refine("top", "w", TRUE, <<>>)>>, <<Refine("structured", "w", FALSE, One)>>}

AssignedBy == Variable("top", "v", "filter", <<"soft">>, NoName, "bool")

InputProjects ==
    {{QueryQ(uses, <<SpreadOf("F", bindings)>>, header, refinements), FragmentF(inner, <<>>, refined)} :
        uses \in UsesOfQ, bindings \in BindingLists, header \in {<<>>}, refinements \in RefinementsOfQ,
        inner \in UsesOfF, refined \in Refinements}
    \cup {{QueryQ(<<>>, <<SpreadOf("F", bindings)>>, <<AssignedBy>>, <<>>), FragmentF(inner, <<>>, <<>>)} :
        bindings \in BindingLists, inner \in UsesOfF}
    \cup {{QueryQ(<<>>, <<SpreadOf("F", bindings)>>, <<>>, <<>>), FragmentF(uses, <<SpreadOf("G", through)>>, refined), FragmentG(inner, refinedInner)} :
        bindings \in BindingLists, uses \in {<<>>, <<Compared("top", "v")>>}, through \in BindingLists, refined \in Refinements,
        inner \in {<<Compared("top", "v")>>, <<Compared("structured", NoName), Limited("top", NoName)>>}, refinedInner \in Refinements}
    \cup {{QueryQ(<<>>, <<SpreadOf("F", bindings), Field("author", aggregated, uses, <<SpreadOf("F", again)>>)>>, <<>>, <<>>), FragmentF(inner, <<>>, refined)} :
        bindings \in BindingLists, again \in BindingLists, aggregated \in BOOLEAN, uses \in {<<>>, <<Compared("structured", NoName)>>},
        inner \in {<<Compared("top", "v")>>, <<Compared("structured", NoName)>>}, refined \in {<<>>, <<Refine("top", "v", FALSE, One)>>}}

-----------------------------------------------------------------------------

Program(definitions) == [imports |-> [app |-> <<>>], definitions |-> definitions]

\* The occurrences of fragments, from some on.
RECURSIVE Occurrences(_, _)
Occurrences(project, from) ==
    IF from = {} THEN {} ELSE from \cup Occurrences(project, UNION {Extensions(project, o) : o \in from})

\* The contracts of a program, none if it is rejected, and the value of each variable
\* under each way from the query to it.
PlannedInputs(definitions) ==
    LET project == Program(definitions)
        query == CHOOSE d \in definitions: d.kind = "query"
        contracts == [d \in definitions |-> Contract(project, d)]
        spreads == UNION {Spreads(project, d) : d \in definitions}
        maps == [s \in spreads |-> contracts[s.from].maps[s]]
        ways == {[to |-> Target(o), path |-> o.path] : o \in Occurrences(project, {RootOccurrence(query)})}
    IN  IF \E d \in definitions: contracts[d].invalid THEN <<>>
        ELSE <<[contracts |-> [d \in definitions |-> contracts[d].bindings],
                values |-> UNION {{[way |-> way, use |-> use, value |-> VariableValue(maps, way.path, use)] : use \in Uses(way.to)} : way \in ways}]>>

Entry(contract, path) == CHOOSE b \in contract: b.path = path
PathsOf(contract) == {b.path : b \in contract}

\* What the query gives each input of a fragment that is reached along spreads: by its
\* binding lists, each read where it is written.
RECURSIVE Given(_, _, _)
Given(contracts, query, spreads) ==
    IF spreads = <<>> THEN [path \in PathsOf(contracts[query]) |-> Public(path)]
    ELSE LET s == Last(spreads)
             outer == Given(contracts, query, Front(spreads))
             site == Sites(s.from.items, DefinitionPath)[s.at]
             own(leaf) ==
                LET source == IF leaf.path[1] = "input" THEN "structured" ELSE "top"
                    lists == RootBindings(site.spread, source)
                    named == {b \in lists: b.target.name = Last(leaf.path)}
                    at == SitePath(site.path)
                    ref == SourceRef(CHOOSE b \in (IF named # {} THEN named ELSE lists): TRUE)
                IN  CASE leaf.source = "context" -> outer[leaf.path]
                      [] leaf.source # "context" /\ lists = {} -> outer[<<"input">> \o at \o <<site.spread.name>> \o leaf.path]
                      [] leaf.source # "context" /\ named # {} -> outer[LiftedPath(site.path, leaf, ref)]
                      [] leaf.source # "context" /\ \E b \in lists: IsWhole(b) ->
                            outer[<<RootOf(ref.source)>> \o (IF ref.source = "top" THEN <<>> ELSE at)
                                    \o (IF ref.name = NoName THEN <<>> ELSE <<ref.name>>) \o Tail(leaf.path)]
                      [] OTHER -> Constant(leaf.default[1])
         IN  [path \in PathsOf(contracts[s.to]) |-> own(Entry(contracts[s.to], path))]

\* Each variable reads what its definition is given, an input that the query's contract
\* has for its type, and null only where its own definition expects it; and every
\* input of the contract is read.
InputsReachTheirUses(definitions, found) ==
    LET query == CHOOSE d \in definitions: d.kind = "query"
        contracts == found.contracts
    IN  /\ \A v \in found.values:
            LET own == Entry(contracts[v.way.to], NativePath(v.use.path, v.use.variable)) IN
            /\ v.value = Given(contracts, query, v.way.path)[own.path]
            /\ v.value.k = "public" =>
                LET entry == Entry(contracts[query], v.value.path) IN
                /\ v.value.path \in PathsOf(contracts[query])
                /\ entry.type = v.use.variable.type /\ (entry.source # "context" => entry.role = v.use.variable.role)
                /\ entry.nullable => own.nullable
            /\ v.value.k = "constant" => own.default = <<v.value.default>>
        /\ \A path \in PathsOf(contracts[query]): \E v \in found.values: v.value = Public(path)

\* Spreads without bindings keep their inputs apart: variables share one only if they
\* stand in the same fragment, spread at the same selection all the way.
ContainedInputsStayApart(definitions, found) ==
    LET contained(v) == \A s \in ToSet(v.way.path): Sites(s.from.items, DefinitionPath)[s.at].spread.bindings = <<>>
        envelope(v) == [i \in DOMAIN v.way.path |-> <<Sites(v.way.path[i].from.items, DefinitionPath)[v.way.path[i].at].path, v.way.path[i].to>>]
    IN  \A v, w \in found.values:
            v.value = w.value /\ v.value.k = "public" /\ v.use.variable.source # "context" /\ contained(v) /\ contained(w) =>
                envelope(v) = envelope(w) /\ NativePath(v.use.path, v.use.variable) = NativePath(w.use.path, w.use.variable)
=============================================================================
