----------------------------- MODULE MCCompiler -----------------------------
(***************************************************************************)
(* The compiler's algorithms, one topic each: an input is chosen, and one  *)
(* step computes what the code makes of it.  The walks along imports and   *)
(* the expansion of fragments take their steps one by one.                 *)
(***************************************************************************)
EXTENDS SqlLogic, ImportWalk, Expansion

CONSTANTS
    NoRow, Relations, Tables, ColumnTypes,
    KeyOrder, FirstSentinel, SafeBound,
    DefaultSchema,
    Topics   \* what this run asks about

F == INSTANCE MCFilters
S == INSTANCE MCSelections
P == INSTANCE MCPolicies
D == INSTANCE MCDefinitions
I == INSTANCE MCInputs
E == INSTANCE MCExecution
C == INSTANCE MCOverlays

-----------------------------------------------------------------------------
(* The catalog that several topics share *)

\* Posts reply to posts, notes are attached to a post, a post has at most one card.
SmallRelations ==
    [up |-> [from |-> "post", to |-> "post", on |-> {<<"fk", "id">>}, forward |-> TRUE],
     replies |-> [from |-> "post", to |-> "post", on |-> {<<"id", "fk">>}, forward |-> FALSE],
     post |-> [from |-> "note", to |-> "post", on |-> {<<"fk", "id">>}, forward |-> TRUE],
     notes |-> [from |-> "post", to |-> "note", on |-> {<<"id", "fk">>}, forward |-> FALSE],
     owner |-> [from |-> "card", to |-> "post", on |-> {<<"fk", "id">>}, forward |-> TRUE],
     card |-> [from |-> "post", to |-> "card", on |-> {<<"id", "fk">>}, forward |-> FALSE]]
SmallTables ==
    [post |-> [notNull |-> {"id"}, keys |-> {{"id"}}, indexes |-> {}],
     note |-> [notNull |-> {"id", "fk"}, keys |-> {{"id"}, {"fk", "x"}}, indexes |-> {}],
     card |-> [notNull |-> {"id", "fk", "x"}, keys |-> {{"id"}}, indexes |-> {{"fk"}}]]
SmallTypes ==
    [post |-> [id |-> "int", fk |-> "int", x |-> "int"], note |-> [id |-> "int", fk |-> "int", x |-> "int"],
     card |-> [id |-> "int", fk |-> "int", x |-> "text"]]

\* Every key of the objects that callers send to the small operations, sorted.
SmallKeys ==
    <<"and", "bin", "eq", "gt", "gte", "in", "is_null", "like", "lt", "lte", "mood", "n", "name", "neq",
      "not", "not_in", "note", "or", "secret", "title">>

\* The scopes that projects configure, and what they may import.
SmallConfigured == D!Roots
SmallScopes == D!Known
SmallGraphs == D!Graphs

SmallProjects == D!SmallProjects
-----------------------------------------------------------------------------

VARIABLES
    topic,
    site,     \* what the program depends on besides its source
    source,   \* what is compiled
    answer    \* what becomes of it, none or one

vars == <<topic, site, source, answer, walkVars, expansionVars>>

\* There is no walk in the other topics.
NoWalk ==
    /\ walk = "none" /\ start = "none" /\ root = 0 /\ visited = {}
    /\ imports = <<>> /\ stack = <<>> /\ visible = <<>> /\ cycle = <<>>

\* Nor are there definitions.
NoDefinitions ==
    /\ project = [imports |-> <<>>, definitions |-> {}]
    /\ occurrences = {} /\ waiting = {} /\ cycles = {}

Init ==
    /\ topic \in Topics /\ answer = <<>>
    /\ IF topic = "scopes" THEN WalkInit ELSE NoWalk
    /\ IF topic = "definitions" THEN ExpansionInit ELSE NoDefinitions
    /\ CASE topic = "filters" -> site \in F!FilterSites /\ source \in F!PostClauses
         [] topic = "selections" ->
                site \in S!Sites /\ source \in {query \in S!Queries: ~S!LimitedAlone(site, query)}
         [] topic = "limits" ->
                site \in S!Sites /\ source \in {query \in S!Queries: S!LimitedAlone(site, query)}
         [] topic = "policies" ->
                source \in P!Projects /\ site \in P!PolicySites(source)
         [] topic = "inputs" -> site = "none" /\ source \in I!InputProjects
         [] topic = "executions" -> source \in E!Programs /\ site \in E!Requests(source)
         [] topic = "catalogs" ->
                \/ site \in C!Databases /\ source \in C!OverlaySets
                \/ site \in C!TypeGraphs /\ source = <<>>
         [] topic \in {"scopes", "definitions"} -> site = "none" /\ source = "none"

Answer(about, value) ==
    /\ topic \in about /\ answer = <<>>
    /\ answer' = <<value>>
    /\ UNCHANGED <<topic, site, source, walkVars, expansionVars>>

RunClause == Answer({"filters"}, F!Kept(site, source))

RunQuery == Answer({"selections", "limits"}, S!Run(site, source))

GuardQuery == Answer({"policies"}, P!Outcome(site))

FollowImports ==
    /\ topic = "scopes" /\ WalkNext
    /\ UNCHANGED <<topic, site, source, answer, expansionVars>>

Expand ==
    /\ topic = "definitions" /\ ExtendOccurrences
    /\ UNCHANGED <<topic, site, source, answer, walkVars>>

PlanInputs == Answer({"inputs"}, I!PlannedInputs(source))

Execute == Answer({"executions"}, E!ExecutedRequest(source, site))

ComposeCatalog == Answer({"catalogs"}, C!CatalogOf(site, source))

Next == RunClause \/ RunQuery \/ GuardQuery \/ FollowImports \/ Expand \/ PlanInputs \/ Execute \/ ComposeCatalog
Spec == Init /\ [][Next]_vars

Answered(name) == topic = name /\ answer # <<>>

\* A where clause that the checks accept has a plan, and keeps exactly the rows it says:
\* hidden rows are missing, denied columns are null and atoms of null inputs left out,
\* through the plan, the guards of the SQL and the aliases; relations are followed from the
\* current row (check_predicate_expr, plan_filter_expr, conditional_filter_expr).
ClausesKeepWhatIsMeant ==
    Answered("filters") /\ answer[1] # <<>> /\ F!WithinReach(source) =>
        answer[1][1] = F!MeantToKeep(site, source)

\* A query the checks accept returns one row, with for each selection what it selects on its own: no
\* join multiplies or loses rows, no alias reads another occurrence, proofs of a single
\* row are right (resolve_selection_shape, generate_query_sql).  The result has the shape
\* the generated types promise: a null, an object or an array only where the contract
\* says so (result_shape).
QueriesReturnWhatIsMeant ==
    Answered("selections") =>
        \A result \in S!ToSet(answer[1]):
            /\ result.rows = <<S!QueryAnswer(site, source)>>
            /\ \A i \in DOMAIN result.rows: S!HasShape(result.rows[i], result.shape)

\* The rows and fields a query reads are those its filters let it read: nothing that
\* the checks accept is left out of the plan, conditions mean the same wherever they
\* are used, the last assignment decides, and enforcement cannot be switched off
\* (compile_policy, plan_source_policies).  The projects have no `in` rule whose left side
\* is not a column: the code leaves it out (compile_policy).  What is published about filters holds: a field
\* said to be unconditional is never hidden, one said to depend on context alone is hidden
\* for every row or for none, and the context a guard reads is required.
PoliciesHideWhatIsMeant ==
    Answered("policies") => P!HidesWhatIsMeant(site, answer[1]) /\ P!ReportsHold(site, answer[1])

\* Every variable of an accepted program reads the input its fragment is given, however
\* spreads contain, lift and bind it on the way: one the query's contract has, with its
\* type, and that is null only where the fragment expects null; no input goes unread, and
\* unbound fragments share none (definition_contract, spread_input_map, variable_value).
InputsReachTheirUses ==
    Answered("inputs") /\ answer[1] # <<>> =>
        /\ I!InputsReachTheirUses(source, answer[1][1])
        /\ I!ContainedInputsStayApart(source, answer[1][1])

\* An operation that is generated can be executed: what is sent is run, or refused, alike by
\* both runtimes, no marker, sentinel or parameter of the statement meets another or the
\* author's text, and the run reads what its source means by the values that were sent;
\* what the client makes of its host values passes (materialize, materializeDsqlQuery,
\* materializeDsqlOperationVariables, generate_postgres_sql_with_options).  The programs
\* have neither a placeholder of a variant in the author's text, nor two terms of an order
\* over one column: there the code takes one for the other.
OperationsRunAsMeant ==
    Answered("executions") /\ answer[1] # <<>> => E!OperationRunsAsMeant(source, site, answer[1][1])

\* A catalog shows what the database and the overlays say, in whatever order the files are
\* read: hidden is what some file hides, relationships have the rows the facts of all files
\* allow, every claim about rows has its proof, authored names resolve, and any change shows
\* in the fingerprint; graphs of types are settled or refused (compose, try_from_metadata,
\* check_field_ref, semantic_fingerprint, value_shape_for_type).
CatalogsSayWhatFilesSay ==
    Answered("catalogs") => C!CatalogHolds(site, source, answer[1])

\* A limit slices the rows of its selection, also without a cap, order or offset.
LimitsSliceRows ==
    Answered("limits") => \A result \in S!ToSet(answer[1]): result.rows = <<S!QueryAnswer(site, source)>>
=============================================================================
