------------------------------ MODULE MCExecution ------------------------------
(***************************************************************************)
(* Small operations for Execution, what callers send them, and the runs.   *)
(***************************************************************************)
EXTENDS ExecutionMeaning

Column(type, notNull, visible) == [type |-> type, notNull |-> notNull, visible |-> visible]
Index(method, keys) == [method |-> method, keys |-> keys]
IndexKey(column, like) == [column |-> column, like |-> like]

OperationTables ==
    [post |-> [name |-> "post",
               columns |-> [name |-> Column("text", TRUE, TRUE), n |-> Column("int", FALSE, TRUE),
                            mood |-> Column("mood", FALSE, TRUE), note |-> Column("text", FALSE, TRUE),
                            secret |-> Column("int", FALSE, FALSE)],
               indexes |-> <<Index("btree", <<IndexKey("name", TRUE), IndexKey("note", TRUE)>>),
                             Index("gin", <<IndexKey("n", FALSE), IndexKey("mood", FALSE)>>),
                             Index("btree", <<IndexKey("secret", FALSE)>>)>>],
     raw |-> [name |-> "raw", columns |-> [name |-> Column("text", TRUE, TRUE), n |-> Column("int", TRUE, TRUE), mood |-> Column("mood", FALSE, TRUE),
                           note |-> Column("text", FALSE, TRUE), bin |-> Column("blob", TRUE, TRUE)],
              indexes |-> <<Index("btree", <<IndexKey("bin", FALSE)>>)>>]]

Row(id, name, n, mood, note) ==
    [id |-> id, name |-> Text(name), n |-> n, mood |-> mood, note |-> note, secret |-> Null, bin |-> Null]
OperationRows ==
    {Row(1, "word", Whole(1), Text("word"), Token("internal", FirstSentinel)), Row(2, "other", Null, Text("other"), Token("public", 0)),
     Row(3, "word", Whole(2), Null, Token("number", FirstSentinel)), Row(4, "uuid", Whole(1), Text("word"), Token("text", 0))}

Me == <<"context", "me">>
Guard(access, rows, denies) == [access |-> access, rows |-> rows, denies |-> denies, context |-> IF denies = {} THEN {} ELSE {Me}]
RowGuard == Guard("row_dependent", {1}, {})
ContextGuard == Guard("context_only", {}, {Text("other")})

Dynamic(name, surface) == [k |-> "dynamic", name |-> name, surface |-> surface]
Both(left, right) == [k |-> "and", left |-> left, right |-> right]
Either(left, right) == [k |-> "or", left |-> left, right |-> right]
Inside(k, operand) == [k |-> k, operand |-> operand]
Comparison(column) == [k |-> "compare", column |-> column, path |-> <<"params", "v">>]
Literal(token) == [k |-> "literal", column |-> "note", token |-> token]
Selected(out, column) == [out |-> out, column |-> column]
Surfaces == {"selected", "indexed", "selected_indexed", "searchable"}
Plain == {Selected("name", "name"), Selected("title", "note")}
Aliased == {Selected("n", "n"), Selected("title", "mood")}

Turn == [k |-> "turned", column |-> "n", path |-> <<"params", "d">>, nullable |-> TRUE]
ByColumn == [k |-> "column", column |-> "name", direction |-> "asc"]
NoLimit == [k |-> "none"]
LimitAt(n) == [k |-> "number", n |-> n]
LimitBy == [k |-> "parameter", path |-> <<"params", "limit">>]

Root(table, body, selected, where, order, limit, guards) ==
    [table |-> table, body |-> body, selected |-> selected, where |-> where, order |-> order, limit |-> limit, guards |-> guards]

InputField(name, dynamic, wire) ==
    [path |-> <<"params", name>>, dynamic |-> dynamic, wire |-> wire, collection |-> FALSE, nullable |-> FALSE,
     required |-> TRUE, default |-> <<>>, closed |-> {}, pattern |-> <<>>, serialize |-> FALSE]
Defaulted(field, default) == [field EXCEPT !.required = FALSE, !.default = <<default>>]
Nullable(field) == [field EXCEPT !.nullable = TRUE]
Default(kind) == [kind |-> kind]
DefaultOf(n, whole) == [kind |-> "number", n |-> n, whole |-> whole]
DefaultText(s) == [kind |-> "string", s |-> s]
DefaultItems(items) == [kind |-> "collection", items |-> items]

PredicateField == InputField("p", "predicate", "json")
OrderOf == InputField("o", "order", "json")
TurnField == [Nullable(InputField("d", "no", "text")) EXCEPT !.closed = {"asc", "desc"}]
LimitField == InputField("limit", "no", "integer")
ComparedField == InputField("v", "no", "text")

\* The inputs of a query are those it uses.
Uses(query) ==
    LET places == UNION {{query[i].where, query[i].order, <<query[i].limit>>}: i \in DOMAIN query} IN
    [dynamic |-> \E i \in DOMAIN query: query[i].where # <<>> /\ query[i].where[1].k \notin {"compare", "literal"},
     compared |-> \E i \in DOMAIN query: query[i].where # <<>> /\ query[i].where[1] \in {Comparison("name"), Both(Comparison("name"), Dynamic("p", "indexed"))},
     ordered |-> \E i \in DOMAIN query: \E t \in Range(query[i].order): t.k = "dynamic",
     turned |-> \E i \in DOMAIN query: Turn \in Range(query[i].order),
     limited |-> \E i \in DOMAIN query: query[i].limit.k = "parameter"]

One(used, field) == IF used THEN <<field>> ELSE <<>>
Program(query, predicate, compared) ==
    LET uses == Uses(query) IN
    [query |-> query,
     inputs |-> One(uses.dynamic, predicate) \o One(uses.compared, compared) \o One(uses.ordered, Defaulted(OrderOf, DefaultItems(<<>>)))
                    \o One(uses.turned, TurnField) \o One(uses.limited, Defaulted(LimitField, DefaultOf(2, TRUE)))]

Wheres ==
    {<<Dynamic("p", surface)>>: surface \in Surfaces} \cup
    {<<Both(Dynamic("p", "indexed"), Dynamic("p", "indexed"))>>, <<Both(Dynamic("p", "indexed"), Dynamic("p", "searchable"))>>,
     <<Both(Comparison("name"), Dynamic("p", "indexed"))>>, <<Either(Literal(Token("text", 0)), Dynamic("p", "indexed"))>>,
     <<Inside("not", Dynamic("p", "indexed"))>>, <<Inside("exists", Dynamic("p", "indexed"))>>,
     <<Both(Inside("not", Literal(Token("text", 0))), Dynamic("p", "indexed"))>>}
Orders == {<<>>, <<Dynamic("o", "selected")>>, <<Dynamic("o", "indexed"), ByColumn>>, <<Turn, Dynamic("o", "indexed")>>}
GuardSets == {<<>>, [n |-> RowGuard], [mood |-> ContextGuard], [n |-> ContextGuard, name |-> RowGuard]}

\* Every place of a predicate, every order, aggregates, and two usages of one input: of the
\* same fields, or not.
PredicateQueries ==
    {<<Root("post", "rows", selected, where, <<>>, LimitBy, guards)>>: selected \in {Plain, Aliased}, where \in Wheres, guards \in GuardSets}
    \cup {<<Root("post", "aggregate", Plain, where, <<>>, NoLimit, <<>>)>>: where \in Wheres}
OrderedQueries ==
    {<<Root("post", body, selected, <<Dynamic("p", "indexed")>>, order, limit, guards)>>:
        body \in {"rows", "aggregate"}, selected \in {Plain, Aliased}, order \in Orders \ {<<>>}, limit \in {NoLimit, LimitBy}, guards \in GuardSets}
SharedQueries ==
    {<<Root("post", "rows", Plain, <<Dynamic("p", surface)>>, <<>>, NoLimit, guards),
       Root(table, "rows", selected, <<Dynamic("p", other)>>, <<>>, LimitBy, others)>>:
        surface \in {"selected", "indexed"}, other \in {"selected", "indexed"}, table \in {"post", "raw"},
        selected \in {Plain, Aliased, {Selected("and", "name")}}, guards \in {<<>>, [mood |-> ContextGuard]}, others \in {<<>>, [mood |-> ContextGuard]}}
\* What the author writes looks like what the template uses.
ForgedTokens == {Token(t, n): t \in {"internal", "number"}, n \in FirstSentinel..(FirstSentinel + 2)} \cup {Token("public", 0), Token("public", 1)}
ForgedQueries ==
    {<<Root("post", "rows", Plain, <<Both(Literal(token), Dynamic("p", "indexed"))>>, order, limit, <<>>)>>:
        token \in ForgedTokens, order \in {<<>>, <<Dynamic("o", "indexed")>>}, limit \in {LimitBy, LimitAt(FirstSentinel), LimitAt(FirstSentinel + 1)}}

PredicateFields == {PredicateField, Nullable(Defaulted(PredicateField, Default("null"))), Defaulted(PredicateField, Default("empty_object"))}

\* One compared value, of each encoding.
ScalarFields ==
    LET encoded(wire) == InputField("v", "no", wire)
        of(wire) == {encoded(wire), Nullable(encoded(wire)), [Nullable(encoded(wire)) EXCEPT !.collection = TRUE]} IN
    UNION {of(wire): wire \in {"text", "uuid", "timestamptz", "integer", "big_integer", "numeric", "float", "boolean", "json", "text_cast"}}
    \cup {[field EXCEPT !.serialize = TRUE, !.pattern = <<{"word"}>>]: field \in of("text")}
    \cup {Defaulted(encoded("integer"), DefaultOf(n, TRUE)): n \in {1, SafeBound, SafeBound + 1}}
    \cup {Defaulted(encoded(wire), DefaultOf(1, whole)): wire \in {"float", "numeric"}, whole \in BOOLEAN}
    \cup {Defaulted([encoded("text") EXCEPT !.serialize = serialize, !.closed = closed, !.pattern = pattern], DefaultText("word")):
              serialize \in BOOLEAN, closed \in {{}, {"word"}, {"other"}}, pattern \in {<<>>, <<{"other"}>>}}
    \cup {Defaulted(Nullable(encoded("text")), Default("null")), Defaulted(encoded("uuid"), DefaultText("word")),
          Defaulted([encoded("text") EXCEPT !.collection = TRUE], DefaultItems(<<DefaultText("word"), DefaultText("other")>>)),
          Defaulted([encoded("text") EXCEPT !.collection = TRUE, !.pattern = <<{"word"}>>], DefaultItems(<<DefaultText("word"), DefaultText("other")>>)),
          Defaulted(encoded("boolean"), [kind |-> "boolean", b |-> TRUE])}

ScalarQuery == <<Root("post", "rows", Plain, <<Comparison("name")>>, <<>>, NoLimit, <<>>)>>

-----------------------------------------------------------------------------
\* What is sent.

Entry(key, value) == Object(key :> value)
Is(key, name, operand) == Entry(key, Entry(name, operand))
NameIsWord == Is("name", "eq", Text("word"))

Predicates ==
    {Null, Object(<<>>), NameIsWord, Is("name", "like", Text("any")), Is("name", "in", Array(<<>>)), Is("n", "not_in", Array(<<>>)),
     Is("mood", "in", Array(<<Host("word"), Text("other")>>)), Is("mood", "eq", Host("other")), Is("mood", "neq", Text("word")),
     Is("n", "gte", Whole(1)), Is("n", "eq", Whole(SafeBound + 1)), Is("n", "is_null", Bool(TRUE)), Is("n", "is_null", Text("word")),
     Is("title", "eq", Text("word")), Is("secret", "eq", Whole(1)), Is("note", "is_null", Bool(FALSE)), Is("name", "gt", Text("word")),
     Is("name", "eq", Null), Is("n", "in", Array(<<Whole(1), Null>>)), Entry("name", Text("word")), Entry("name", Object(<<>>)),
     Entry("name", Object([eq |-> Text("word"), neq |-> Text("other"), is_null |-> Bool(FALSE)])),
     Object([name |-> Entry("eq", Text("word")), n |-> Entry("gt", Whole(1)), mood |-> Entry("is_null", Bool(TRUE))])}
    \cup {Entry("or", Array(items)): items \in {<<>>, <<Object(<<>>)>>, <<Object(<<>>), NameIsWord>>, <<NameIsWord, Is("n", "eq", Whole(2))>>}}
    \cup {Entry("and", Array(items)): items \in {<<>>, <<Object(<<>>), NameIsWord>>, <<Is("n", "eq", Whole(1)), NameIsWord>>}}
    \cup {Entry("not", item): item \in {Object(<<>>), NameIsWord, Is("n", "gt", Whole(1)), Entry("or", Array(<<>>)), Array(<<>>)}}
    \cup {Object([name |-> Entry("neq", Text("uuid")), or |-> Array(<<Entry("not", Is("n", "in", Array(<<Whole(2)>>))), Is("n", "is_null", Bool(TRUE))>>)])}
PredicateOrders ==
    {Array(<<>>), Null, Array(<<Entry("name", Text("desc"))>>), Array(<<Entry("n", Text("asc_nulls_first")), Entry("name", Text("asc"))>>),
     Array(<<Entry("name", Text("up"))>>), Array(<<Object(<<>>)>>), Entry("name", Text("asc"))}

Scalars ==
    {Null, Whole(1), Whole(SafeBound + 1), Fraction(1), Bool(TRUE), Object(<<>>), Array(<<>>)}
    \cup {Text(s): s \in {"word", "other", "uuid", "time", "whole", "decimal"}} \cup {Host("word"), Host("other")}
    \cup {Array(<<first, Null>>): first \in {Whole(1), Whole(SafeBound + 1), Text("word"), Text("other"), Host("word"), Bool(TRUE)}}

Params(of) == Object([params |-> Object(of)])
NoVariables == Object(<<>>)

Forged == Object([params |-> Object([p |-> NameIsWord, v |-> Text("word"), d |-> Null]), context |-> Entry("me", Text("other"))])

NoContext == Object(<<>>)
Contexts == {NoContext, Entry("me", Text("word")), Entry("me", Text("other")), Entry("me", Null)}

Programs ==
    {Program(query, PredicateField, ComparedField): query \in PredicateQueries \cup OrderedQueries \cup SharedQueries \cup ForgedQueries}
    \cup {Program(<<Root("post", "rows", Plain, <<Dynamic("p", "indexed")>>, <<>>, NoLimit, <<>>)>>, field, ComparedField): field \in PredicateFields}
    \cup {Program(ScalarQuery, PredicateField, field): field \in ScalarFields}

IsOrdered(program) == Uses(program.query).ordered

\* What is not varied is given, or left to its default.
VariablesFor(program) ==
    CASE program.query = ScalarQuery -> {NoVariables, Object([params |-> Null])} \cup {Params([v |-> value]): value \in Scalars}
      [] IsOrdered(program) ->
             {Params([p |-> NameIsWord, v |-> Text("word"), o |-> order, d |-> direction]): order \in PredicateOrders, direction \in {Null, Text("asc"), Text("up")}}
             \cup {Params([p |-> NameIsWord, v |-> Text("word")])}
      [] OTHER -> {NoVariables, Forged, Params([p |-> NameIsWord])}
                  \cup {Params([p |-> p, v |-> Text("word"), d |-> Text("desc"), limit |-> Whole(1)]): p \in Predicates}

ReadsContext(query) == \E i \in DOMAIN query: \E c \in DOMAIN query[i].guards: query[i].guards[c] = ContextGuard

Requests(program) ==
    {[variables |-> variables, context |-> context]: variables \in VariablesFor(program),
        context \in IF ReadsContext(program.query) THEN Contexts ELSE {NoContext}}

\* The context as the host has it.
HostContext(context) == IF context.of = <<>> \/ context.of["me"] = Null THEN context ELSE Entry("me", Host(context.of["me"].s))

-----------------------------------------------------------------------------
\* The two runs of what is sent, and of what the client makes of it first.

Runs(operation, variables, context) ==
    [sent |-> variables, rust |-> Materialize(operation, variables, context),
     typescript |-> MaterializeDsqlQuery(operation, variables, HostContext(context))]

OperationRuns(operation, request, wire) ==
    [direct |-> Runs(operation, request.variables, request.context),
     client |-> IF wire = Rejected THEN <<>> ELSE <<Runs(operation, wire, request.context)>>]

RunsOf(operation, request) == OperationRuns(operation, request, MaterializeDsqlOperationVariables(operation, request.variables))

Executed(program, plan, request) ==
    IF plan.problems THEN <<>>
    ELSE <<RunsOf(OperationMetadata(plan, program.inputs, GenerateStatement(plan, program.query)), request)>>

\* Nothing, when there is a diagnostic.
ExecutedRequest(program, request) == Executed(program, PlanDynamic(OperationTables, program.query), request)

Agree(rust, typescript) ==
    /\ rust.k = typescript.k
    /\ rust.k = "run" =>
           /\ rust.statement = typescript.statement
           /\ [i \in DOMAIN rust.parameters |-> rust.parameters[i].value] = typescript.parameters

\* A run reads what its source means by what was sent.
Answers(program, request, runs) ==
    runs.rust.k = "run" =>
        /\ \A i \in DOMAIN runs.rust.parameters: Binds(runs.rust.parameters[i])
        /\ LET values == [i \in DOMAIN runs.rust.parameters |-> runs.rust.parameters[i].value] IN
           AnswerOf(runs.rust.statement, values, OperationRows)
               = MeantAnswer(program, runs.sent, request.context, OperationRows)

RunsAsMeant(program, request, runs) ==
    /\ Agree(runs.rust, runs.typescript)
    /\ runs.rust # Corrupt
    /\ Answers(program, request, runs)

\* The server refuses what the client let through for its context only, or for an order or
\* a direction, which the client does not look at.
ClientSends(program, request, runs) ==
    runs.rust = Rejected =>
        \/ request.context \in {NoContext, Entry("me", Null)}
        \/ \E i \in DOMAIN program.inputs: program.inputs[i].dynamic = "order" \/ program.inputs[i].closed # {}

\* The client fills in defaults as the server does.
DefaultsPass(request, executed) ==
    request.variables = NoVariables /\ executed.direct.rust.k = "run" => executed.client # <<>>

OperationRunsAsMeant(program, request, executed) ==
    /\ RunsAsMeant(program, request, executed.direct)
    /\ DefaultsPass(request, executed)
    /\ \A i \in DOMAIN executed.client:
           RunsAsMeant(program, request, executed.client[i]) /\ ClientSends(program, request, executed.client[i])
=============================================================================
