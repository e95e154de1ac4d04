------------------------------- MODULE Filters -------------------------------
(***************************************************************************)
(* From a where clause to the rows it keeps: what the checks accept        *)
(* (resolution.rs, clause.rs), the filter plan_filter_expr makes of it     *)
(* (plan/build.rs), and what PostgreSQL computes from the SQL filter_expr  *)
(* renders for that filter (sql/postgres.rs).  The text itself is left     *)
(* out: rendering and evaluation are one operator over an environment that *)
(* maps the aliases of the open queries to their rows, so that an alias    *)
(* that hides another one does so here.                                    *)
(*                                                                         *)
(* Expressions are records whose field k names the constructor of Expr, or *)
(* of FilterExpr for a planned filter.                                     *)
(***************************************************************************)
EXTENDS SqlLogic, Integers, Sequences, FiniteSets

CONSTANTS
    Relations,    \* relation name -> [from, to: tables, on: set of <<local, target>> columns, forward]
    Tables,       \* table -> [notNull: columns, keys and indexes: sets of sets of columns]
    ColumnTypes,  \* table -> column -> logical type
    NoRow         \* no parent row

(* Inputs of a clause.  bind maps a variable to what it stands for once      *)
(* fragment bindings are applied: the public input [public, nullable, value] *)
(* or a fixed default.  A collection value is a sequence.  pol maps a table  *)
(* to its effective policies: rows, a set of rules [col, op, value] that all *)
(* must hold, and fields, a function from the columns and relations that     *)
(* have a rule to that rule.                                                 *)
Public(nullable, value) == [public |-> TRUE, nullable |-> nullable, value |-> value]
Default(value) == [public |-> FALSE, nullable |-> FALSE, value |-> value]

-----------------------------------------------------------------------------
(* Catalog *)

LocalColumns(relation) == {pair[1] : pair \in Relations[relation].on}
TargetColumns(relation) == {pair[2] : pair \in Relations[relation].on}

\* column_set_is_unique
UniqueColumns(table, columns) ==
    \E key \in Tables[table].keys \cup Tables[table].indexes: key # {} /\ key \subseteq columns

Singular(relation) ==
    Relations[relation].forward \/ UniqueColumns(Relations[relation].to, TargetColumns(relation))

NullableRelation(relation) ==
    Relations[relation].forward =>
        \E column \in LocalColumns(relation): column \notin Tables[Relations[relation].from].notNull

-----------------------------------------------------------------------------
(* Acceptance: the checks report nothing about the clause.  A context is the *)
(* tables that the anchors of a path start from; at the top of a clause      *)
(* there is no parent, however deep its selection is nested.  Literals are   *)
(* numbers or null, types int and text, and what aggregates yield.           *)

IsPath(e) == e.k = "path"
IsVariable(e) == e.k = "variable"
IsAggregate(e) == e.k = "aggregate"
IsLiteral(e) == e.k = "literal"

\* op is a comparison, or the name of an operator variable.
Concrete(op) == op \in {"==", "!=", "<"}

ClauseContext(root, table) == [root |-> root, current |-> table, parent |-> "none"]
PredicateContext(context, table) == [context EXCEPT !.current = table, !.parent = context.current]

\* The table at the end of relations, or none when one of them is not found.
RECURSIVE TableAlong(_, _)
TableAlong(table, rels) ==
    CASE rels = <<>> -> table
      [] rels # <<>> /\ Head(rels) \in DOMAIN Relations /\ Relations[Head(rels)].from = table ->
            TableAlong(Relations[Head(rels)].to, Tail(rels))
      [] OTHER -> "none"

ColumnType(table, col) ==
    IF table \in DOMAIN ColumnTypes /\ col \in DOMAIN ColumnTypes[table] THEN ColumnTypes[table][col] ELSE "none"

\* resolve_path: the type of the column at its end.
PathType(context, path) == ColumnType(TableAlong(context[path.anchor], path.rels), path.col)

\* A direct relation of the table that may have several rows.
DirectCollection(table, relation) ==
    relation \in DOMAIN Relations /\ Relations[relation].from = table /\ ~Singular(relation)

ExistenceResolves(context, e) ==
    IF e.relation = "none" THEN e.table \in DOMAIN ColumnTypes ELSE DirectCollection(context.current, e.relation)

\* resolve_aggregate_value: the type of a function of a column (none for no operand) of the rows of a table.
AggregateValueType(table, function, operand) ==
    CASE function = "count" -> IF operand = "none" \/ ColumnType(table, operand) # "none" THEN "bigint" ELSE "none"
      [] function = "exists" -> IF operand = "none" THEN "boolean" ELSE "none"
      [] function = "min" -> ColumnType(table, operand)

AggregateType(context, e) ==
    IF DirectCollection(context.current, e.relation)
    THEN AggregateValueType(Relations[e.relation].to, e.function, e.operand)
    ELSE "none"

\* resolved_expr_type, none for an expression that is neither a column nor an aggregate.
TypeOf(context, e) ==
    CASE IsPath(e) -> PathType(context, e)
      [] IsAggregate(e) -> AggregateType(context, e)
      [] OTHER -> "none"

Supported(type) == IF type \in {"int", "bigint"} THEN {"==", "!=", "<"} ELSE {"==", "!="}

LiteralFits(type, value) == value = NULL \/ type \in {"int", "bigint"}

\* The side of a comparison that has a type, the left one if both do, none or one.
TypedSide(e) ==
    CASE IsPath(e.left) \/ IsAggregate(e.left) -> {e.left}
      [] IsPath(e.right) \/ IsAggregate(e.right) -> {e.right}
      [] OTHER -> {}

Operators(allowed, op) == IF Concrete(op) THEN {op} ELSE allowed[op]

\* check_binary_predicate_types, of a column or an aggregate and a literal.  What an operator
\* variable compares with is only checked for null, which has no order.
LiteralComparable(allowed, context, e) ==
    \A side \in TypedSide(e), other \in {e.left, e.right}:
        IsLiteral(other) /\ TypeOf(context, side) # "none" =>
            /\ Concrete(e.op) => LiteralFits(TypeOf(context, side), other.value)
            /\ other.value = NULL => Operators(allowed, e.op) \subseteq {"==", "!="}

\* check_operator_variable: whatever it may be set to is an operator of the column.  An
\* aggregate on the right of a column goes unnoticed.
OperatorsSupported(allowed, context, e) ==
    ~Concrete(e.op) =>
        \A side \in TypedSide(e):
            ~IsAggregate(side) /\ (TypeOf(context, side) # "none" => allowed[e.op] \subseteq Supported(TypeOf(context, side)))

\* check_aggregate_comparison_operator, check_aggregate_comparison_path
AggregateComparable(context, e) ==
    LET aggregate == IF IsAggregate(e.left) THEN e.left ELSE e.right IN
    Concrete(e.op) /\ IsAggregate(aggregate) =>
        /\ TypeOf(context, aggregate) # "none" => e.op \in Supported(TypeOf(context, aggregate))
        /\ \A path \in {side \in {e.left, e.right}: IsPath(side)}: path.rels = <<>> /\ path.anchor \in {"current", "root"}

AcceptedComparison(allowed, context, e) ==
    /\ LiteralComparable(allowed, context, e)
    /\ OperatorsSupported(allowed, context, e)
    /\ AggregateComparable(context, e)

\* check_membership_types
AcceptedMembership(context, e) ==
    /\ IsPath(e.left)
    /\ IsVariable(e.right) \/ e.right.k = "list"
    /\ e.right.k = "list" =>
            \A i \in DOMAIN e.right.items:
                IsLiteral(e.right.items[i]) /\ LiteralFits(PathType(context, e.left), e.right.items[i].value)

\* check_predicate_expr; boolean says that a truth value is meant.
RECURSIVE AcceptedPredicate(_, _, _, _)
AcceptedPredicate(allowed, context, e, boolean) ==
    LET accepted(f, truth) == AcceptedPredicate(allowed, context, f, truth) IN
    CASE IsPath(e) -> PathType(context, e) # "none" /\ ~boolean
      [] IsLiteral(e) -> ~boolean
      [] IsVariable(e) -> TRUE
      [] e.k = "list" -> ~boolean /\ \A i \in DOMAIN e.items: accepted(e.items[i], FALSE)
      [] IsAggregate(e) -> AggregateType(context, e) # "none" /\ (boolean => e.function = "exists")
      [] e.k = "not" -> accepted(e.operand, TRUE)
      [] e.k = "null_test" -> IsPath(e.operand) /\ accepted(e.operand, FALSE)
      [] e.k \in {"and", "or"} -> accepted(e.left, TRUE) /\ accepted(e.right, TRUE)
      [] e.k = "compare" -> AcceptedComparison(allowed, context, e) /\ accepted(e.left, FALSE) /\ accepted(e.right, FALSE)
      [] e.k = "in" -> AcceptedMembership(context, e) /\ accepted(e.left, FALSE) /\ accepted(e.right, FALSE)
      [] e.k = "exists" ->
            /\ ExistenceResolves(context, e)
            /\ \A i \in DOMAIN e.predicate:
                    AcceptedPredicate(allowed, PredicateContext(context, e.table), e.predicate[i], TRUE)

AcceptedWhere(allowed, context, e) == AcceptedPredicate(allowed, context, e, TRUE)

-----------------------------------------------------------------------------
(* Planning *)

Column(scope, col) == [k |-> "column", scope |-> scope, col |-> col]
Literal(value) == [k |-> "literal", value |-> value]
Parameter(name) == [k |-> "parameter", name |-> name]
Optional(name, operand) == [k |-> "optional", name |-> name, operand |-> operand]
Binary(left, op, right) == [k |-> "binary", left |-> left, op |-> op, right |-> right]
AbsentFilter == [k |-> "absent"]
\* FilterCollection: a list, or the parameter that holds it.
Membership(operand, name, items, negated) ==
    [k |-> "membership", operand |-> operand, name |-> name, items |-> items, negated |-> negated]
Exists(relation, table, kind, filter) ==
    [k |-> "exists", relation |-> relation, table |-> table, kind |-> kind, filter |-> filter]

\* The fixed value of a default; null omits the predicate.
InputDefault(value) == IF value = NULL THEN AbsentFilter ELSE Literal(value)

PublicFilterValue(bind, name) ==
    IF bind[name].public THEN Parameter(name) ELSE InputDefault(bind[name].value)

OptionalFilter(bind, name, filter) ==
    IF bind[name].nullable THEN Optional(name, filter) ELSE filter

RECURSIVE WrapOptionalAtom(_, _)
WrapOptionalAtom(filter, names) ==
    IF names = <<>> THEN filter
    ELSE Optional(Head(names), WrapOptionalAtom(filter, Tail(names)))

\* The operand without its own guards, and the nullable inputs it depends on.
RECURSIVE PredicateAtomOperand(_, _)
PredicateAtomOperand(bind, operand) ==
    CASE operand.k = "optional" ->
            LET inner == PredicateAtomOperand(bind, operand.operand)
            IN  IF inner.operand.k = "parameter"
                THEN [operand |-> inner.operand,
                      names |-> SelectSeq(<<operand.name>>, LAMBDA n: ~\E i \in 1..Len(inner.names): inner.names[i] = n)
                                   \o inner.names]
                ELSE [operand |-> Optional(operand.name, inner.operand), names |-> <<>>]
      [] operand.k = "parameter" /\ bind[operand.name].nullable ->
            [operand |-> operand, names |-> <<operand.name>>]
      [] OTHER -> [operand |-> operand, names |-> <<>>]

\* Bug: only the guards of the left operand reach the atom.
OneSided(bind, left, op, right) ==
    IF left.k = "absent" \/ right.k = "absent" THEN AbsentFilter
    ELSE WrapOptionalAtom(Binary(PredicateAtomOperand(bind, left).operand, op, PredicateAtomOperand(bind, right).operand),
                          PredicateAtomOperand(bind, left).names)

BinaryOrVariant(bind, left, op, right) ==
    IF left.k = "absent" \/ right.k = "absent" THEN AbsentFilter
    ELSE LET l == PredicateAtomOperand(bind, left)
             r == PredicateAtomOperand(bind, right)
         IN  WrapOptionalAtom(Binary(l.operand, op, r.operand),
                 l.names \o SelectSeq(r.names, LAMBDA n: ~\E i \in 1..Len(l.names): l.names[i] = n))

\* A path of one segment reads the source of the predicate when it stands on
\* the right of a comparison (inner).
PathScope(path, inner) ==
    IF path.anchor = "current" /\ inner /\ Len(path.rels) = 0 THEN "predicate_source" ELSE path.anchor

OperandPath(path, inner) == Column(PathScope(path, inner), path.col)

\* A path over relations becomes nested existence tests, the first one outermost.
RECURSIVE WrapRelationPredicate(_, _)
WrapRelationPredicate(rels, filter) ==
    IF rels = <<>> THEN filter
    ELSE Exists(Head(rels), Relations[Head(rels)].to, "predicate",
                <<WrapRelationPredicate(Tail(rels), filter)>>)

(* plan_filter_expr gives up when a part has no plan; then so does the      *)
(* predicate that holds it, and a clause without a plan filters nothing.    *)

\* plan_filter_path: a path of one segment.
DirectPath(e) == IsPath(e) /\ e.rels = <<>>

FollowsFromCurrent(e) == IsPath(e) /\ e.anchor = "current" /\ e.rels # <<>>

\* A fixed null, which removes a comparison with a path before the path is planned.
FixedNull(bind, e) == IsVariable(e) /\ ~bind[e.name].public /\ bind[e.name].value = NULL

\* plan_filter_expr is Some, for an expression the checks accept.
RECURSIVE Plannable(_, _)
Plannable(bind, e) ==
    CASE IsPath(e) -> DirectPath(e)
      [] e.k = "list" -> FALSE
      [] IsAggregate(e) -> e.function = "exists"
      [] e.k = "not" -> Plannable(bind, e.operand)
      [] e.k \in {"and", "or"} -> Plannable(bind, e.left) /\ Plannable(bind, e.right)
      [] e.k = "compare" /\ "aggregate" \in {e.left.k, e.right.k} ->
            Concrete(e.op) /\ \A side \in {e.left, e.right}: IsAggregate(side) \/ Plannable(bind, side)
      [] e.k = "compare" /\ "aggregate" \notin {e.left.k, e.right.k} ->
            \/ IsPath(e.left) /\ FixedNull(bind, e.right)
            \/ (FollowsFromCurrent(e.left) \/ Plannable(bind, e.left)) /\ Plannable(bind, e.right)
      [] OTHER -> TRUE

RECURSIVE PlanFilterExpr(_, _, _)

\* The filter of a clause, none or one.
PlanWhere(bind, where) ==
    IF where # <<>> /\ Plannable(bind, where[1]) THEN <<PlanFilterExpr(bind, where[1], FALSE)>> ELSE <<>>

\* A side of a comparison: a variable stands for its value, without its guard.
ComparisonOperand(bind, e, inner) ==
    IF IsVariable(e) THEN PublicFilterValue(bind, e.name) ELSE PlanFilterExpr(bind, e, inner)

PlanExists(bind, e) ==
    Exists(e.relation, e.table, "explicit", PlanWhere(bind, e.predicate))

PlanMembership(bind, e, inner) ==
    LET name == e.right.name
        test(source, items) ==
            WrapRelationPredicate(e.left.rels, Membership(OperandPath(e.left, inner), source, items, e.negated))
    IN  CASE ~IsVariable(e.right) ->
                test("none", [i \in DOMAIN e.right.items |-> PlanFilterExpr(bind, e.right.items[i], inner)])
          [] IsVariable(e.right) /\ bind[name].public ->
                OptionalFilter(bind, name, test(name, <<>>))
          [] OTHER ->
                IF bind[name].value = NULL THEN AbsentFilter
                ELSE test("none", [i \in DOMAIN bind[name].value |-> Literal(bind[name].value[i])])

\* A path over relations is compared inside the existence tests.
PlanRelationComparison(bind, e) ==
    LET right == ComparisonOperand(bind, e.right, TRUE)
        test == WrapRelationPredicate(e.left.rels,
                    BinaryOrVariant(bind, Column("current", e.left.col), e.op, right))
    IN  CASE right.k = "absent" -> AbsentFilter
          [] right.k = "parameter" -> OptionalFilter(bind, right.name, test)
          [] OTHER -> test

PlanComparison(bind, e, inner) ==
    CASE "aggregate" \in {e.left.k, e.right.k} ->
            BinaryOrVariant(bind, ComparisonOperand(bind, e.left, TRUE), e.op, ComparisonOperand(bind, e.right, TRUE))
      [] IsPath(e.left) /\ e.left.anchor = "current" /\ Len(e.left.rels) > 0 ->
            PlanRelationComparison(bind, e)
      [] IsPath(e.left) /\ IsVariable(e.right) ->
            BinaryOrVariant(bind, PlanFilterExpr(bind, e.left, inner), e.op, ComparisonOperand(bind, e.right, inner))
      [] OTHER ->
            BinaryOrVariant(bind, PlanFilterExpr(bind, e.left, inner), e.op, PlanFilterExpr(bind, e.right, inner))

PlanFilterExpr(bind, e, inner) ==
    CASE IsPath(e) -> OperandPath(e, inner)
      [] e.k = "literal" -> Literal(e.value)
      [] IsVariable(e) ->
            LET value == PublicFilterValue(bind, e.name)
            IN  IF value.k = "parameter" THEN OptionalFilter(bind, e.name, value) ELSE value
      [] e.k = "not" -> [k |-> "not", operand |-> PlanFilterExpr(bind, e.operand, inner)]
      [] e.k = "null_test" ->
            WrapRelationPredicate(e.operand.rels,
                [k |-> "null_test", operand |-> OperandPath(e.operand, inner), negated |-> e.negated])
      [] e.k = "exists" -> PlanExists(bind, e)
      [] e.k = "aggregate" ->
            [k |-> "aggregate", relation |-> e.relation, function |-> e.function, operand |-> e.operand]
      [] e.k = "in" -> PlanMembership(bind, e, inner)
      [] e.k \in {"and", "or"} ->
            Binary(PlanFilterExpr(bind, e.left, inner), e.k, PlanFilterExpr(bind, e.right, inner))
      [] e.k = "compare" -> PlanComparison(bind, e, inner)
-----------------------------------------------------------------------------
(* SQL.  A view is an alias with the policies its columns are read under,    *)
(* none for the raw view that policies themselves read.  site is what a      *)
(* rendering depends on besides the filter: the tables db, the inputs bind,  *)
(* the policies pol, and for the operator variables their chosen operators.  *)

View(alias, fields) == [alias |-> alias, fields |-> fields]
NoFields == [f \in {} |-> {}]
Raw(alias) == View(alias, NoFields)
Readable(site, alias, table) == View(alias, site.pol[table].fields)

Scope(current, root, source, parent) ==
    [current |-> current, root |-> root, predicate_source |-> source, parent |-> parent]

\* filter_column_source: without a parent the current row stands in.
Source(scope, name) ==
    IF name = "parent" /\ scope.parent = NoRow THEN scope.current ELSE scope[name]

Compare3(op, a, b) ==
    CASE NULL \in {a, b} -> NULL
      [] op = "==" -> a = b
      [] op = "!=" -> a # b
      [] op = "<" -> a < b

In3(a, items) ==
    LET equal(i) == Compare3("==", a, items[i]) IN
    CASE \E i \in DOMAIN items: equal(i) = TRUE -> TRUE
      [] \E i \in DOMAIN items: equal(i) = NULL -> NULL
      [] OTHER -> FALSE

\* A rule is a comparison of a column of the row with a value, which stands for
\* any policy condition; render_policy_field_filter reads it from the raw row.
RuleHolds(rule, row) == Compare3(rule.op, row[rule.col], rule.value)

\* masked_column_expression: CASE WHEN guard THEN column END.
MaskedColumn(view, env, col) ==
    IF col \in DOMAIN view.fields /\ RuleHolds(view.fields[col], env[view.alias]) # TRUE
    THEN NULL ELSE env[view.alias][col]

\* null_test_expr: the guard is a conjunct beside the test of the raw column.
NullTestColumn(view, env, col, negated) ==
    LET test == (env[view.alias][col] = NULL) # negated
    IN  IF col \in DOMAIN view.fields
        THEN And3(RuleHolds(view.fields[col], env[view.alias]), test)
        ELSE test

IsNull(value, negated) == (value = NULL) # negated

\* context_for: the alias of a subquery's table names the table, and the
\* function for an aggregate, but not the place of the subquery.
ExistsAlias(table) == <<"exists", table>>
AggregateAlias(table, function) == <<function, table>>

\* relation_condition: child and parent columns, read through the aliases.
RelationCondition(env, parent, child, relation) ==
    \A pair \in Relations[relation].on:
        Compare3("==", env[child.alias][pair[2]], env[parent.alias][pair[1]]) = TRUE

\* Bug: the relation is followed whatever its rule says.
RelatedUnguarded(site, env, from, view, relation, table) ==
    /\ RelationCondition(env, from, view, relation)
    /\ \A rule \in site.pol[table].rows: RuleHolds(rule, env[view.alias]) = TRUE

\* The conjuncts a subquery over a relation always has: the condition, the rule of
\* the relation in the view it starts from, and the row policies of its table.
Related(site, env, from, view, relation, table) ==
    /\ RelationCondition(env, from, view, relation)
    /\ relation \in DOMAIN from.fields =>
            RuleHolds(from.fields[relation], env[from.alias]) = TRUE
    /\ \A rule \in site.pol[table].rows: RuleHolds(rule, env[view.alias]) = TRUE

Bind(env, alias, row) == [a \in DOMAIN env \cup {alias} |-> IF a = alias THEN row ELSE env[a]]

\* aggregate_value_expression, over the operand's value in each row; an aggregate
\* without an operand counts rows.
AggregateOf(function, values) ==
    LET known == {values[row] : row \in DOMAIN values} \ {NULL} IN
    CASE function = "exists" -> DOMAIN values # {}
      [] function = "count" -> Cardinality({row \in DOMAIN values: values[row] # NULL})
      [] function = "min" ->
            IF known = {} THEN NULL ELSE CHOOSE v \in known: \A w \in known: v <= w

NullComparison(left, right) ==
    CASE left = Literal(NULL) -> <<right>>
      [] left # Literal(NULL) /\ right = Literal(NULL) -> <<left>>
      [] OTHER -> <<>>

OperatorOf(site, op) == IF Concrete(op) THEN op ELSE site.operators[op]

RECURSIVE ConditionalFilter(_, _, _, _)
RECURSIVE FilterValue(_, _, _, _)

\* filter_expr
FilterExpr(site, env, scope, f) == Closed(ConditionalFilter(site, env, scope, f))

NullTest(site, env, scope, f, negated) ==
    IF f.k = "column" THEN NullTestColumn(Source(scope, f.scope), env, f.col, negated)
    ELSE IsNull(FilterExpr(site, env, scope, f), negated)

\* conditional_filter_expr
ConditionalFilter(site, env, scope, f) ==
    ConditionalOf(f, f.k = "optional" /\ site.bind[f.name].value # NULL,
                  [side \in Sides(f) |-> ConditionalFilter(site, env, scope, f[side])],
                  FilterValue(site, env, scope, f))

MembershipValue(site, env, scope, f) ==
    LET given == f.name # "none"
        found == In3(FilterExpr(site, env, scope, f.operand),
                     IF given THEN site.bind[f.name].value
                     ELSE [i \in DOMAIN f.items |-> FilterExpr(site, env, scope, f.items[i])])
    IN  CASE given /\ site.bind[f.name].value = NULL -> NULL
          [] f.negated -> Not3(found)
          [] OTHER -> found

ComparisonValue(site, env, scope, f) ==
    LET op == OperatorOf(site, f.op)
        null == NullComparison(f.left, f.right)
        value(g) == FilterExpr(site, env, scope, g)
    IN  CASE null # <<>> /\ op \in {"==", "!="} ->
                IF Concrete(f.op) THEN NullTest(site, env, scope, null[1], op = "!=")
                ELSE IsNull(value(null[1]), op = "!=")
          [] OTHER -> Compare3(op, value(f.left), value(f.right))

ExistsValue(site, env, scope, f) ==
    LET view == Readable(site, ExistsAlias(f.table), f.table)
        inner == IF f.kind = "explicit"
                 THEN Scope(view, scope.root, view, scope.current)
                 ELSE Scope(view, scope.root, scope.predicate_source, scope.parent)
    IN  \E row \in site.db[f.table]:
            LET open == Bind(env, view.alias, row) IN
            /\ IF f.relation = "none"
               THEN \A rule \in site.pol[f.table].rows: RuleHolds(rule, row) = TRUE
               ELSE Related(site, open, scope.current, view, f.relation, f.table)
            /\ f.filter # <<>> => FilterExpr(site, open, inner, f.filter[1]) = TRUE

AggregateFilterValue(site, env, scope, f) ==
    LET table == Relations[f.relation].to
        view == Readable(site, AggregateAlias(table, f.function), table)
        open(row) == Bind(env, view.alias, row)
        related == {row \in site.db[table]: Related(site, open(row), scope.current, view, f.relation, table)}
    IN  AggregateOf(f.function,
            [row \in related |-> IF f.operand = "none" THEN 1 ELSE MaskedColumn(view, open(row), f.operand)])

\* filter_value_expr
FilterValue(site, env, scope, f) ==
    CASE f.k = "column" -> MaskedColumn(Source(scope, f.scope), env, f.col)
      [] f.k = "parameter" -> site.bind[f.name].value
      [] f.k = "literal" -> f.value
      [] f.k = "null_test" -> NullTest(site, env, scope, f.operand, f.negated)
      [] f.k = "membership" -> MembershipValue(site, env, scope, f)
      [] f.k = "binary" -> ComparisonValue(site, env, scope, f)
      [] f.k = "exists" -> ExistsValue(site, env, scope, f)
      [] f.k = "aggregate" -> AggregateFilterValue(site, env, scope, f)
=============================================================================
