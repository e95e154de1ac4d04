-------------------------------- MODULE Inputs --------------------------------
(***************************************************************************)
(* The inputs of a definition (variable.rs, variable_path.rs): what its    *)
(* variables infer, what its header refines, what the fragments it spreads *)
(* pass on, and the input the planner reads for each variable.             *)
(*                                                                         *)
(* A definition of Definitions has besides                                 *)
(*   items        its body: fields [k, out, aggregated, uses, items] and   *)
(*                spreads [k, name, bindings],                             *)
(*   header       the variables of its own filter assignments,             *)
(*   refinements  [source, name, nullable, default],                       *)
(* and its spreads are those of items, in that order.  A variable is       *)
(* [source, name, role, inferred, key, type]; name and key, the name of an *)
(* anonymous variable besides an operator variable, may be NoName.  A      *)
(* default is none or one [type, value].                                   *)
(***************************************************************************)
EXTENDS Definitions

NoName == "-"

-----------------------------------------------------------------------------
(* Paths *)

SelectionPath(parts, inBody) == [parts |-> parts, inBody |-> inBody]

\* The fields of a query and of a fragment.
DefinitionPath == SelectionPath(<<>>, FALSE)

\* spread_site_path, and relation_child_path before the name.
SitePath(path) == IF path.inBody THEN Append(path.parts, "body") ELSE path.parts

ChildPath(path, field) ==
    SelectionPath(SitePath(path) \o <<field.out>> \o (IF field.aggregated THEN <<"aggregate">> ELSE <<>>), TRUE)

\* The fields of a body with their paths: collect_selection, plan_selection_set.
RECURSIVE Fields(_, _)
Fields(items, path) ==
    UNION {LET child == ChildPath(path, items[i]) IN {[path |-> child, uses |-> items[i].uses]} \cup Fields(items[i].items, child) :
            i \in {j \in DOMAIN items: items[j].k = "field"}}

\* The spreads of a body with their paths, in order: collect_spread_sites.
RECURSIVE Sites(_, _)
Sites(items, path) ==
    FlattenSeq([i \in DOMAIN items |->
        IF items[i].k = "spread" THEN <<[path |-> path, spread |-> items[i]]>>
        ELSE Sites(items[i].items, ChildPath(path, items[i]))])

\* The variables of a definition with the selection each one stands in, and its place there.
Uses(d) ==
    LET within(path, variables) == {[path |-> path, at |-> i, variable |-> variables[i]] : i \in DOMAIN variables}
    IN  within(<<>>, d.header) \cup UNION {within(f.path.parts, f.uses) : f \in Fields(d.items, DefinitionPath)}

ClauseSegment(role) ==
    CASE role \in {"where", "op"} -> "where"
      [] role = "dir" -> "order_by"
      [] OTHER -> role

Key(v) ==
    CASE v.name # NoName -> v.name
      [] v.key # NoName -> v.key
      [] v.role = "op" -> "op"
      [] OTHER -> Last(v.inferred)

StructuredPath(path, v) ==
    <<"input">> \o path \o <<"clause", ClauseSegment(v.role)>>
        \o (IF v.role \in {"limit", "offset"} THEN <<>> ELSE v.inferred)
        \o (IF v.name # NoName \/ v.key # NoName \/ v.role = "op" THEN <<Key(v)>> ELSE <<>>)

\* native_variable_path
NativePath(path, v) ==
    CASE v.source = "structured" -> StructuredPath(path, v)
      [] v.source = "top" -> <<"params", Key(v)>>
      [] v.source = "context" -> <<"context", Key(v)>>

-----------------------------------------------------------------------------
(* The contract of a definition: a binding for each path a caller gives a   *)
(* value.                                                                   *)

\* push_binding; context types are checked where a context is used.
LocalBinding(use) ==
    LET v == use.variable IN
    [path |-> NativePath(use.path, v), source |-> v.source, name |-> v.name, role |-> v.role, type |-> v.type,
     required |-> TRUE, nullable |-> FALSE, default |-> <<>>,
     allows |-> v.source # "context", refinable |-> v.source # "context"]

\* diagnose_duplicate_anonymous_bindings
HasDuplicateAnonymous(d) ==
    \E one, two \in Uses(d):
        /\ one # two
        /\ LocalBinding(one).path = LocalBinding(two).path
        /\ one.variable.source # "context" /\ one.variable.name = NoName /\ two.variable.name = NoName

\* The leaves of one root of a contract: PublicInputRoot::of_path.
RootOf(source) == IF source = "structured" THEN "input" ELSE "params"
Leaves(contract, source) == {b \in contract: b.path[1] = RootOf(source)}

SourceRef(binding) == IF binding.from = <<>> THEN binding.target ELSE binding.from[1]
RootBindings(spread, source) == {b \in ToSet(spread.bindings): b.target.source = source}
IsWhole(binding) == binding.target.name = NoName
CandidateLeaves(contract, binding) == {b \in Leaves(contract, binding.target.source): Last(b.path) = binding.target.name}

\* The binding a spread has for a leaf by its name, none or one.
LeafBindings(contract, spread, source, leaf) ==
    {b \in RootBindings(spread, source): ~IsWhole(b) /\ CandidateLeaves(contract, b) = {leaf}}

\* decide_spread_root
Decision(spread, source) ==
    LET bindings == RootBindings(spread, source)
        whole == {b \in bindings: IsWhole(b)}
    IN  CASE bindings = {} -> "contained"
          [] whole = {} -> "leaves"
          [] whole # {} /\ bindings = whole /\ Cardinality(whole) = 1 -> "whole"
          [] OTHER -> "invalid"

InvalidSpread(contract, spread) ==
    \E source \in {"structured", "top"}:
        LET decision == Decision(spread, source) IN
        \/ decision = "invalid"
        \/ decision = "leaves" /\
            \/ \E b \in RootBindings(spread, source): Cardinality(CandidateLeaves(contract, b)) # 1
            \/ \E leaf \in Leaves(contract, source):
                    LET bound == Cardinality(LeafBindings(contract, spread, source, leaf)) IN
                    bound > 1 \/ (bound = 0 /\ leaf.default = <<>>)

\* contained_binding
Contained(path, spread, leaf) ==
    [leaf EXCEPT !.path = <<"input">> \o SitePath(path) \o <<spread.name>> \o leaf.path,
                 !.source = "structured", !.refinable = FALSE]

\* lifted_root_binding
LiftedRoot(path, leaf, ref) ==
    [leaf EXCEPT !.path = <<RootOf(ref.source)>> \o (IF ref.source = "top" THEN <<>> ELSE SitePath(path))
                            \o (IF ref.name = NoName THEN <<>> ELSE <<ref.name>>) \o Tail(leaf.path),
                 !.source = ref.source, !.refinable = FALSE]

\* lifted_leaf_binding: a variable of the caller in the role of the leaf.
LiftedPath(path, leaf, ref) ==
    NativePath(path.parts, [source |-> ref.source, name |-> ref.name, role |-> leaf.role,
                            inferred |-> <<Last(leaf.path)>>, key |-> NoName])

\* Bug: the leaf keeps what its definition says of it.
KeepsContract(path, leaf, ref) ==
    [leaf EXCEPT !.path = LiftedPath(path, leaf, ref), !.source = ref.source, !.name = ref.name]

LiftedLeaf(path, leaf, ref) ==
    [leaf EXCEPT !.path = LiftedPath(path, leaf, ref), !.source = ref.source, !.name = ref.name,
                 !.required = TRUE, !.nullable = FALSE, !.default = <<>>,
                 !.allows = leaf.nullable, !.refinable = TRUE]

\* The caller's binding for a leaf, none or one.
Passed(contract, site, leaf) ==
    LET path == site.path
        spread == site.spread
        source == IF leaf.path[1] = "input" THEN "structured" ELSE "top"
        whole == CHOOSE b \in RootBindings(spread, source): IsWhole(b)
        bound == LeafBindings(contract, spread, source, leaf)
    IN  CASE leaf.source = "context" -> <<leaf>>
          [] leaf.source # "context" /\ Decision(spread, source) = "contained" -> <<Contained(path, spread, leaf)>>
          [] leaf.source # "context" /\ Decision(spread, source) = "whole" -> <<LiftedRoot(path, leaf, SourceRef(whole))>>
          [] leaf.source # "context" /\ Decision(spread, source) = "leaves" /\ bound # {} ->
                <<LiftedLeaf(path, leaf, SourceRef(CHOOSE b \in bound: TRUE))>>
          [] OTHER -> <<>>

\* spread_input_map: the input of the caller, or the default, each leaf stands for.
Public(path) == [k |-> "public", path |-> path]
Constant(default) == [k |-> "constant", default |-> default]

InputMap(contract, site) ==
    LET passed(leaf) == Passed(contract, site, leaf)
        leaf(path) == CHOOSE b \in contract: b.path = path
        mapped == {b.path : b \in {c \in contract: passed(c) # <<>> \/ c.default # <<>>}}
    IN  [path \in mapped |-> IF passed(leaf(path)) # <<>> THEN Public(passed(leaf(path))[1].path)
                             ELSE Constant(leaf(path).default[1])]

-----------------------------------------------------------------------------
(* Refinements and merging *)

\* refinement_matches
Matches(refinement, b) ==
    /\ b.source = refinement.source
    /\ IF refinement.source = "top" THEN b.path = <<"params", refinement.name>>
       ELSE b.refinable /\ refinement.name \in {b.name, Last(b.path)}

\* validate_refinement
ValidFor(refinement, b) ==
    /\ b.refinable
    /\ refinement.nullable => b.allows /\ b.role \notin {"filter", "op"}
    /\ refinement.default # <<>> =>
            IF refinement.default[1].type = "null" THEN refinement.nullable
            ELSE refinement.default[1].type = b.type /\ (b.role \in {"limit", "offset"} => refinement.default[1].value >= 0)

InvalidRefinement(d, bindings, refinement) ==
    LET matching == {b \in bindings: Matches(refinement, b)} IN
    \/ \E other \in ToSet(d.refinements): other # refinement /\ other.source = refinement.source /\ other.name = refinement.name
    \/ matching = {}
    \/ refinement.source = "structured" /\ Cardinality({b.path : b \in matching}) > 1
    \/ \E b \in matching: ~ValidFor(refinement, b)

\* refine_bindings
Refined(d, bindings) ==
    LET by(b) == {r \in ToSet(d.refinements): Matches(r, b) /\ ~InvalidRefinement(d, bindings, r)}
        refine(b) == LET r == CHOOSE s \in by(b): TRUE IN
                     [b EXCEPT !.nullable = r.nullable, !.required = (r.default = <<>>), !.default = r.default]
    IN  {IF by(b) = {} THEN b ELSE refine(b) : b \in bindings}

\* bindings_compatible, merge_context_bindings
Compatible(a, b) ==
    /\ a.source = b.source /\ a.type = b.type
    /\ a.source # "context" => a.role = b.role
    /\ a.required = b.required /\ a.nullable = b.nullable /\ a.default = b.default

IsPathPrefix(a, b) == Len(a) < Len(b) /\ SubSeq(b, 1, Len(a)) = a

\* merge_bindings
Merged(bindings) == {CHOOSE b \in bindings: b.path = path : path \in {b.path : b \in bindings}}

ConflictingBindings(bindings) ==
    \E a, b \in bindings: (a.path = b.path /\ ~Compatible(a, b)) \/ IsPathPrefix(a.path, b.path)

\* definition_contract, for a definition that reaches no cycle: its bindings, how each
\* spread maps its target's, and whether anything is wrong.
RECURSIVE Contract(_, _)
Contract(project, d) ==
    LET sites == Sites(d.items, DefinitionPath)
        reached == [s \in Spreads(project, d) |-> Contract(project, s.to).bindings]
        passed(s) == UNION {ToSet(Passed(reached[s], sites[s.at], leaf)) : leaf \in reached[s]}
        local == {LocalBinding(use) : use \in Uses(d)}
        inferred == local \cup UNION {passed(s) : s \in DOMAIN reached}
        refined == Refined(d, inferred)
    IN  [bindings |-> Merged(refined),
         maps |-> [s \in DOMAIN reached |-> InputMap(reached[s], sites[s.at])],
         invalid |-> \/ \E s \in DOMAIN reached: InvalidSpread(reached[s], sites[s.at].spread)
                     \/ \E r \in ToSet(d.refinements): InvalidRefinement(d, inferred, r)
                     \/ HasDuplicateAnonymous(d)
                     \/ ConflictingBindings(refined)]

-----------------------------------------------------------------------------
(* Planning *)

\* Bug: the frames are applied from the root inwards.
OutermostFirst(value, frames) ==
    FoldLeft(LAMBDA found, frame: IF found.k = "public" /\ found.path \in DOMAIN frame THEN frame[found.path] ELSE found,
             value, frames)

\* The fold of variable_value, from the innermost spread out.
ThroughFrames(value, frames) ==
    FoldRight(LAMBDA frame, found: IF found.k = "public" /\ found.path \in DOMAIN frame THEN frame[found.path] ELSE found,
              frames, value)

\* The value a variable has in the plan, under the spreads that lead to it; maps is the
\* input map of every spread.
VariableValue(maps, spreads, use) ==
    ThroughFrames(Public(NativePath(use.path, use.variable)), [i \in DOMAIN spreads |-> maps[spreads[i]]])
=============================================================================
