--------------------------- MODULE ExecutionMeaning ---------------------------
(***************************************************************************)
(* What a run of an operation answers on some rows, and what its source    *)
(* and the caller's values mean (docs/spec/variables.md): an object is the *)
(* conjunction of its members, what is empty is absent, an or of nothing   *)
(* is false, and absent members take no part.                              *)
(***************************************************************************)
EXTENDS TypeScriptRuntime

Holds(operator, value, operand) ==
    CASE operator \in {"in", "not_in"} /\ operand = Array(<<>>) -> operator = "not_in"
      [] value = Null -> NULL
      [] operator = "eq" -> value = operand
      [] operator = "like" -> operand = Text("any") \/ value = operand
      [] operator = "in" -> value \in ItemsOf(operand)
      [] operator = "neq" -> value # operand
      [] operator = "not_in" -> value \notin ItemsOf(operand)
      [] operator = "gt" -> value.n > operand.n
      [] operator = "gte" -> value.n >= operand.n
      [] operator = "lt" -> value.n < operand.n
      [] operator = "lte" -> value.n <= operand.n

-----------------------------------------------------------------------------
\* A run, on a row.

Shown(expression, values, row) ==
    IF expression.guard # <<>> /\ (row.id \in expression.guard[1].rows
                                     \/ \E i \in expression.guard[1].reads: values[i] \in expression.guard[1].denies)
    THEN Null ELSE row[expression.column]

RECURSIVE PredicateHolds(_, _, _)
PredicateHolds(sql, values, row) ==
    CASE sql.k = "conjoined" -> FoldLeft(LAMBDA so, part: And3(so, PredicateHolds(part, values, row)), TRUE, sql.of)
      [] sql.k = "disjoined" -> FoldLeft(LAMBDA so, part: Or3(so, PredicateHolds(part, values, row)), FALSE, sql.of)
      [] sql.k = "opposite" -> Not3(PredicateHolds(sql.of, values, row))
      [] sql.k = "constant" -> sql.b
      [] sql.k = "test" -> Holds(sql.operator, Shown(sql.expression, values, row), values[sql.parameter])
      [] sql.k = "null test" -> (Shown(sql.expression, values, row) = Null) = sql.b

RECURSIVE FilterHolds(_, _, _)
FilterHolds(sql, values, row) ==
    CASE sql.k = "and" -> And3(FilterHolds(sql.left, values, row), FilterHolds(sql.right, values, row))
      [] sql.k = "or" -> Or3(FilterHolds(sql.left, values, row), FilterHolds(sql.right, values, row))
      [] sql.k = "not" -> Not3(FilterHolds(sql.operand, values, row))
      [] sql.k = "exists" -> FilterHolds(sql.operand, values, row) = TRUE
      [] sql.k = "compare" -> Holds("eq", Shown(sql.expression, values, row), values[sql.token.n])
      [] sql.k = "literal" -> Holds("eq", Shown(sql.expression, values, row), sql.token)
      [] sql.k = "site" -> sql.token.sql = <<>> \/ PredicateHolds(sql.token.sql[1], values, row) = TRUE

\* A term, unless it is the identity of an order.
Turned(expression, direction) == [column |-> expression.column, masked |-> expression.guard # <<>>, direction |-> direction]
TermsOf(term) ==
    IF term.k = "site" THEN [i \in DOMAIN term.token.sql |-> Turned(term.token.sql[i].expression, term.token.sql[i].direction)]
    ELSE <<Turned(term.expression, term.token.text)>>

LimitOf(limit, values) ==
    CASE limit = <<>> -> Missing
      [] limit[1].t = "number" -> Whole(limit[1].n)
      [] limit[1].t = "parameter" -> values[limit[1].n]

RootAnswer(root, values, rows) ==
    [kept |-> {row.id: row \in {r \in rows: root.where = <<>> \/ FilterHolds(root.where[1], values, r) = TRUE}},
     order |-> FlattenSeq([i \in DOMAIN root.order |-> TermsOf(root.order[i])]),
     limit |-> LimitOf(root.limit, values)]

AnswerOf(statement, values, rows) == [i \in DOMAIN statement |-> RootAnswer(statement[i], values, rows)]

-----------------------------------------------------------------------------
\* The source, on a row: the caller's values by path, and the columns behind a key.

DefaultMeaning(default) ==
    CASE default.kind = "number" -> IF default.whole THEN Whole(default.n) ELSE Fraction(default.n)
      [] default.kind = "string" -> Text(default.s)
      [] default.kind = "boolean" -> Bool(default.b)
      [] default.kind = "null" -> Null
      [] default.kind = "collection" -> Array([i \in DOMAIN default.items |-> Text(default.items[i].s)])
      [] default.kind = "empty_object" -> Object(<<>>)

Given(inputs, variables, path) ==
    LET value == LookupPath(variables, path) IN
    IF value = Missing THEN DefaultMeaning(FieldAt(inputs, path).default[1]) ELSE value

ColumnBehind(root, surface, key) ==
    IF surface \in {"selected", "selected_indexed"} THEN (CHOOSE s \in root.selected: s.out = key).column ELSE key

Seen(root, column, row, context) ==
    IF column \in DOMAIN root.guards /\ (row.id \in root.guards[column].rows
                                           \/ \E path \in root.guards[column].context:
                                                  LookupPath(context, Tail(path)) \in root.guards[column].denies)
    THEN Null ELSE row[column]

Nothing == Meant(TRUE, TRUE)

MeantOperators(value, operators) ==
    FoldSet(LAMBDA name, so:
                MeantBoth(so, Meant(FALSE, IF name = "is_null" THEN (value = Null) = operators.of[name].b
                                           ELSE Holds(name, value, operators.of[name]))),
            Nothing, DOMAIN operators.of)

RECURSIVE MeantObject(_, _, _, _, _)
MeantMember(root, surface, key, item, row, context) ==
    CASE key = "and" -> FoldLeft(LAMBDA so, child: MeantBoth(so, MeantObject(root, surface, child, row, context)), Nothing, item.items)
      [] key = "or" ->
             LET either == FoldLeft(LAMBDA so, child: MeantEither(so, MeantObject(root, surface, child, row, context)), Nothing, item.items) IN
             IF either.gone THEN Meant(FALSE, FALSE) ELSE either
      [] key = "not" -> MeantNot(MeantObject(root, surface, item, row, context))
      [] OTHER -> MeantOperators(Seen(root, ColumnBehind(root, surface, key), row, context), item)
MeantObject(root, surface, object, row, context) ==
    FoldSet(LAMBDA key, so: MeantBoth(so, MeantMember(root, surface, key, object.of[key], row, context)), Nothing, DOMAIN object.of)

MeantDynamic(root, surface, value, row, context) ==
    IF value = Null THEN Nothing ELSE MeantObject(root, surface, value, row, context)

RECURSIVE MeantFilter(_, _, _, _, _)
MeantFilter(root, expr, values, row, context) ==
    CASE expr.k = "dynamic" -> MeantDynamic(root, expr.surface, values[<<"params", expr.name>>], row, context)
      [] expr.k = "and" -> MeantBoth(MeantFilter(root, expr.left, values, row, context), MeantFilter(root, expr.right, values, row, context))
      [] expr.k = "or" -> MeantEither(MeantFilter(root, expr.left, values, row, context), MeantFilter(root, expr.right, values, row, context))
      [] expr.k = "not" -> MeantNot(MeantFilter(root, expr.operand, values, row, context))
      [] expr.k = "exists" -> Meant(FALSE, MeantFilter(root, expr.operand, values, row, context).truth = TRUE)
      [] expr.k = "compare" -> Meant(FALSE, Holds("eq", Seen(root, expr.column, row, context), values[expr.path]))
      [] expr.k = "literal" -> Meant(FALSE, Holds("eq", Seen(root, expr.column, row, context), expr.token))

Sorted(root, column, direction) == [column |-> column, masked |-> column \in DOMAIN root.guards, direction |-> direction]

MeantEntries(root, surface, value) ==
    IF value = Null THEN <<>>
    ELSE [i \in DOMAIN value.items |->
             LET key == CHOOSE key \in DOMAIN value.items[i].of: TRUE IN
             Sorted(root, ColumnBehind(root, surface, key), value.items[i].of[key].s)]

MeantTerm(root, term, values) ==
    CASE term.k = "dynamic" -> MeantEntries(root, term.surface, values[<<"params", term.name>>])
      [] term.k = "column" -> <<Sorted(root, term.column, term.direction)>>
      [] term.k = "turned" ->
             <<Sorted(root, term.column, IF values[term.path] = Null THEN "null" ELSE values[term.path].s)>>

MeantLimit(limit, values) ==
    CASE limit.k = "none" -> Missing
      [] limit.k = "number" -> Whole(limit.n)
      [] limit.k = "parameter" -> values[limit.path]

MeantRoot(root, values, context, rows) ==
    LET keeps(row) == root.where = <<>> \/
                          LET m == MeantFilter(root, root.where[1], values, row, context) IN m.gone \/ m.truth = TRUE IN
    [kept |-> {row.id: row \in {r \in rows: keeps(r)}},
     order |-> FlattenSeq([i \in DOMAIN root.order |-> MeantTerm(root, root.order[i], values)]),
     limit |-> MeantLimit(root.limit, values)]

ValuesOf(inputs, variables) == [path \in {inputs[i].path: i \in DOMAIN inputs} |-> Given(inputs, variables, path)]

MeantRoots(query, values, context, rows) == [i \in DOMAIN query |-> MeantRoot(query[i], values, context, rows)]
MeantAnswer(program, variables, context, rows) ==
    MeantRoots(program.query, ValuesOf(program.inputs, variables), context, rows)
=============================================================================
