----------------------------- MODULE Selections -----------------------------
(***************************************************************************)
(* From a selection to the row a query returns: how many rows a selection  *)
(* can have (resolution.rs), which queries the checks accept               *)
(* (field_selection.rs, aggregate.rs), its plan (plan/build.rs), what PostgreSQL *)
(* computes from the SQL of the plan (sql/postgres.rs) and the shape that  *)
(* generated code is told to expect (dsql-generate/src/assemble.rs).       *)
(*                                                                         *)
(* A selection is a record: name, the table it reads and the relation it   *)
(* follows ("none" at the root), where (no or one expression), order (pairs *)
(* of a column and a direction), limit and offset (no or one value),       *)
(* flattened, and a body of rows (items) or of an aggregate (keys,         *)
(* fields).  Values are those of Filters; an object is a function from     *)
(* names, an array a sequence; groups come in one fixed order.           *)
(***************************************************************************)
EXTENDS Filters, SequencesExt

(* site.cap is GenerateOptions.collection_limit, or NULL.                    *)

-----------------------------------------------------------------------------
(* How many rows *)

NullableInput(site, name) ==
    site.bind[name].nullable \/ (~site.bind[name].public /\ site.bind[name].value = NULL)

\* fixed_value_identity
IsFixed(e) == e.k = "variable" \/ (e.k = "literal" /\ e.value # NULL)
Identity(e) == IF e.k = "variable" THEN <<"variable", e.name>> ELSE <<"literal", e.value>>

DirectColumn(e) == e.k = "path" /\ e.anchor = "current" /\ e.rels = <<>>

\* The column and the fixed value an equality pins it to.
EqualityOf(left, right) ==
    CASE DirectColumn(left) /\ IsFixed(right) -> {<<left.col, Identity(right)>>}
      [] DirectColumn(right) /\ IsFixed(left) -> {<<right.col, Identity(left)>>}
      [] OTHER -> {}

NullableIdentity(site, identity) == identity[1] = "variable" /\ NullableInput(site, identity[2])

\* An operator variable may be anything its declaration allows.
OnlyEquality(site, op) == IF Concrete(op) THEN op = "==" ELSE site.allowed[op] = {"=="}

\* Bug: an alternative counts as if it always applied.
RECURSIVE EqualitiesOfEither(_, _)
EqualitiesOfEither(site, e) ==
    CASE e.k \in {"and", "or"} -> EqualitiesOfEither(site, e.left) \cup EqualitiesOfEither(site, e.right)
      [] e.k = "compare" /\ OnlyEquality(site, e.op) -> EqualityOf(e.left, e.right)
      [] OTHER -> {}

RECURSIVE GuaranteedEqualities(_, _)
GuaranteedEqualities(site, e) ==
    CASE e.k = "and" -> GuaranteedEqualities(site, e.left) \cup GuaranteedEqualities(site, e.right)
      [] e.k = "or" -> GuaranteedEqualities(site, e.left) \cap GuaranteedEqualities(site, e.right)
      [] e.k = "compare" /\ OnlyEquality(site, e.op) ->
            {pair \in EqualityOf(e.left, e.right): ~NullableIdentity(site, pair[2])}
      [] OTHER -> {}

\* unique_key_for_predicate
PinsUniqueKey(site, table, e) ==
    \E key \in Tables[table].keys:
        key # {} /\ key \subseteq {pair[1] : pair \in GuaranteedEqualities(site, e)}

FollowsSingular(sel) == sel.relation # "none" /\ Singular(sel.relation)

AtMostOne(site, sel) ==
    \/ FollowsSingular(sel)
    \/ sel.where # <<>> /\ PinsUniqueKey(site, sel.table, sel.where[1])
    \/ sel.limit = <<Literal(1)>>

\* A limit that a run may set to 0.
MaySuppress(limit) == limit # <<>> /\ limit[1] \in {Literal(0)} \cup {v \in {limit[1]} : v.k = "variable"}

\* Bug: a filter on a singular relation is taken to keep its row.
NullableWithoutFilter(site, sel) ==
    AtMostOne(site, sel) /\
        (FollowsSingular(sel) => NullableRelation(sel.relation) \/ sel.offset # <<>> \/ MaySuppress(sel.limit))

ShapeNullable(site, sel) ==
    AtMostOne(site, sel) /\
        (FollowsSingular(sel) => \/ NullableRelation(sel.relation)
                                 \/ sel.where # <<>> \/ sel.offset # <<>> \/ MaySuppress(sel.limit))

-----------------------------------------------------------------------------
(* Aggregates *)

OutputNames(body) == [i \in DOMAIN body.keys |-> body.keys[i].name] \o [i \in DOMAIN body.fields |-> body.fields[i].name]

\* resolve_aggregates finds no problem.
AcceptedAggregate(site, sel) ==
    /\ sel.body.fields # <<>>
    /\ ~AtMostOne(site, sel)
    /\ sel.order = <<>> /\ sel.limit = <<>> /\ sel.offset = <<>>
    /\ sel.body.keys # <<>> => ~sel.flattened /\ \A i \in DOMAIN sel.body.fields: sel.body.fields[i].function # "exists"
    /\ \A i \in DOMAIN sel.body.keys: ColumnType(sel.table, sel.body.keys[i].col) # "none"
    /\ \A i \in DOMAIN sel.body.fields:
            AggregateValueType(sel.table, sel.body.fields[i].function, sel.body.fields[i].operand) # "none"
    /\ IsInjective(OutputNames(sel.body))

PlanAggregate(sel) ==
    LET grouped == sel.body.keys # <<>>
        lacks(column) == column \notin Tables[sel.table].notNull
        key(k) == [name |-> k.name, col |-> k.col, nullable |-> lacks(k.col)]
        field(f) == [name |-> f.name, function |-> f.function, operand |-> f.operand,
                     nullable |-> f.function = "min" /\ (~grouped \/ lacks(f.operand))]
    IN  [k |-> "aggregate", grouped |-> grouped,
         keys |-> [i \in DOMAIN sel.body.keys |-> key(sel.body.keys[i])],
         fields |-> [i \in DOMAIN sel.body.fields |-> field(sel.body.fields[i])]]

-----------------------------------------------------------------------------
(* Acceptance: the checks report nothing about the query.  A spread names the *)
(* table its fragment is for, which is the root of the clauses in it.         *)

\* collect_closure_field_output_keys: the names an item, or a selection, has in the object it is part of.
RECURSIVE Contributed(_)
Contributed(item) ==
    CASE item.k = "column" -> {item.name}
      [] item.k = "spread" -> UNION {Contributed(i) : i \in ToSet(item.items)}
      [] item.k = "relation" /\ ~item.sel.flattened -> {item.sel.name}
      [] item.k = "relation" /\ item.sel.flattened ->
            IF item.sel.body.k = "rows" THEN UNION {Contributed(i) : i \in ToSet(item.sel.body.items)}
            ELSE ToSet(OutputNames(item.sel.body))

\* check_output_keys
OutputKeysDiffer(items) ==
    \A i, j \in DOMAIN items: i # j => Contributed(items[i]) \cap Contributed(items[j]) = {}

\* check_non_negative_integer
AcceptedNumber(value) == IsVariable(value) \/ (IsLiteral(value) /\ value.value # NULL /\ value.value >= 0)

\* resolve_clauses, of the columns that rows are ordered by.
OrderResolves(sel) == \A term \in ToSet(sel.order): ColumnType(sel.table, term.col) # "none"

\* check_clause_semantics
AcceptedClauses(site, root, sel) ==
    /\ \A e \in ToSet(sel.where): AcceptedWhere(site.allowed, ClauseContext(root, sel.table), e)
    /\ OrderResolves(sel)
    /\ \A value \in ToSet(sel.limit) \cup ToSet(sel.offset): AcceptedNumber(value)

\* check_resolved_selection, check_spread_site: what the item names is there.
Fits(table, item) ==
    CASE item.k = "column" -> ColumnType(table, item.col) # "none"
      [] item.k = "spread" -> item.table = table
      [] item.k = "relation" -> TableAlong(table, <<item.sel.relation>>) = item.sel.table

\* check_selection_shape: only one row can give its fields to its parent.
FlattenedIsOne(site, sel) == sel.flattened /\ sel.body.k = "rows" => AtMostOne(site, sel)

\* check_set: the clauses of a fragment resolve where it is declared.
RECURSIVE AcceptedItems(_, _, _, _)
AcceptedSelection(site, root, sel) ==
    /\ AcceptedClauses(site, root, sel)
    /\ FlattenedIsOne(site, sel)
    /\ IF sel.body.k = "aggregate" THEN AcceptedAggregate(site, sel)
       ELSE AcceptedItems(site, root, sel.table, sel.body.items)

AcceptedItems(site, root, table, items) ==
    /\ OutputKeysDiffer(items)
    /\ \A item \in ToSet(items):
            /\ Fits(table, item)
            /\ item.k = "spread" => AcceptedItems(site, table, table, item.items)
            /\ item.k = "relation" => AcceptedSelection(site, root, item.sel)

\* resolve_roots
RootResolves(sel) == sel.table \in DOMAIN ColumnTypes

\* check_query_roots
AcceptedQuery(site, roots) ==
    /\ OutputKeysDiffer([i \in DOMAIN roots |-> [k |-> "relation", sel |-> roots[i]]])
    /\ \A i \in DOMAIN roots: RootResolves(roots[i]) /\ AcceptedSelection(site, roots[i].table, roots[i])

-----------------------------------------------------------------------------
(* Plan *)

\* An order term without a direction ascends; one whose direction is fixed to null is dropped.
PlanOrder(site, order) ==
    LET term(o) ==
            CASE o.dir.k = "literal" -> <<[col |-> o.col, dir |-> o.dir, nullable |-> FALSE]>>
              [] o.dir.k = "variable" /\ site.bind[o.dir.name].public ->
                    <<[col |-> o.col, dir |-> Parameter(o.dir.name), nullable |-> site.bind[o.dir.name].nullable]>>
              [] OTHER ->
                    IF site.bind[o.dir.name].value = NULL THEN <<>>
                    ELSE <<[col |-> o.col, dir |-> Literal(site.bind[o.dir.name].value), nullable |-> FALSE]>>
    IN  FlattenSeq([i \in DOMAIN order |-> term(order[i])])

\* plan_pagination_value, of a value the checks accept.
PlanPagination(site, value) ==
    CASE value = <<>> -> <<>>
      [] value # <<>> /\ value[1].k = "variable" /\ site.bind[value[1].name].public -> <<Parameter(value[1].name)>>
      [] value # <<>> /\ value[1].k = "variable" /\ ~site.bind[value[1].name].public ->
            IF site.bind[value[1].name].value = NULL THEN <<>> ELSE <<Literal(site.bind[value[1].name].value)>>
      [] OTHER -> value

\* plan_collection; a spread stands for its items, in the order of the source.
RECURSIVE Plan(_, _)
RECURSIVE PlanItems(_, _)
PlanItems(site, items) ==
    LET planned(item) ==
            CASE item.k = "column" -> <<item>>
              [] item.k = "spread" -> PlanItems(site, item.items)
              [] item.k = "relation" -> <<[k |-> "relation", plan |-> Plan(site, item.sel)]>>
    IN  FlattenSeq([i \in DOMAIN items |-> planned(items[i])])

Plan(site, sel) ==
    [name |-> sel.name, table |-> sel.table, relation |-> sel.relation, flattened |-> sel.flattened,
     one |-> AtMostOne(site, sel), nullable |-> ShapeNullable(site, sel),
     filter |-> PlanWhere(site.bind, sel.where),
     order |-> PlanOrder(site, sel.order),
     limit |-> PlanPagination(site, sel.limit), offset |-> PlanPagination(site, sel.offset),
     result |-> IF sel.body.k = "rows" THEN [k |-> "rows", items |-> PlanItems(site, sel.body.items)]
                ELSE PlanAggregate(sel)]

\* collect_collection_output_names
RECURSIVE ResultNames(_)
ResultNames(result) ==
    IF result.k = "aggregate" THEN [i \in DOMAIN result.fields |-> result.fields[i].name]
    ELSE FlattenSeq([i \in DOMAIN result.items |->
            LET item == result.items[i] IN
            CASE item.k = "column" -> <<item.name>>
              [] item.k = "relation" /\ item.plan.flattened -> ResultNames(item.plan.result)
              [] OTHER -> <<item.plan.name>>])
-----------------------------------------------------------------------------
(* SQL *)

ValueOf(site, value) == IF value.k = "parameter" THEN site.bind[value.name].value ELSE value.value

\* effective_limit, NULL for none.
EffectiveLimit(site, plan) ==
    CASE plan.limit # <<>> /\ plan.limit[1].k = "literal" ->
            IF site.cap # NULL /\ site.cap < plan.limit[1].value THEN site.cap ELSE plan.limit[1].value
      [] OTHER -> site.cap

UsesSourceSubquery(site, plan) == EffectiveLimit(site, plan) # NULL \/ plan.offset # <<>> \/ plan.order # <<>>

\* The LIMIT that apply_order_limit_offset writes: a parameter is bounded by the override.
LimitValue(site, plan, override) ==
    LET written == IF plan.limit = <<>> THEN NULL ELSE ValueOf(site, plan.limit[1]) IN
    CASE override = NULL -> written
      [] override # NULL /\ plan.limit # <<>> /\ plan.limit[1].k = "parameter" ->
            IF written # NULL /\ written < override THEN written ELSE override
      [] OTHER -> override

\* LIMIT and OFFSET of a query; NULL for none.
Slice(rows, limit, offset) ==
    LET rest == SubSeq(rows, (IF offset = NULL THEN 0 ELSE offset) + 1, Len(rows))
    IN  IF limit = NULL \/ limit >= Len(rest) THEN rest ELSE SubSeq(rest, 1, limit)

Sliced(site, plan, rows, limit) ==
    Slice(rows, limit, IF plan.offset = <<>> THEN NULL ELSE ValueOf(site, plan.offset[1]))

\* A sort key, and whether a precedes b: NULLS LAST ascending, NULLS FIRST descending.
Key(value, dir) == [value |-> value, dir |-> dir]
Lower(a, b) == (b = NULL /\ a # NULL) \/ (NULL \notin {a, b} /\ a < b)
KeyBefore(a, b) == IF a.dir = "asc" THEN Lower(a.value, b.value) ELSE Lower(b.value, a.value)
Before(a, b) ==
    \E i \in DOMAIN a: KeyBefore(a[i], b[i]) /\ \A j \in 1..(i - 1): ~KeyBefore(a[j], b[j]) /\ ~KeyBefore(b[j], a[j])

\* rows by their keys, one for each row, and in their order where the keys agree.
SortBy(rows, keys) ==
    LET precedes(i, j) == Before(keys[i], keys[j]) \/ (~Before(keys[j], keys[i]) /\ i < j)
        place(i) == Cardinality({j \in DOMAIN rows: precedes(j, i)}) + 1
    IN  [n \in DOMAIN rows |-> rows[CHOOSE i \in DOMAIN rows: place(i) = n]]

\* A direction chosen at run time is one of two sort keys, the other being null.
VariantKeys(site, value, name) ==
    [i \in 1..2 |-> Key(IF site.bind[name].value = <<"asc", "desc">>[i] THEN value ELSE NULL, <<"asc", "desc">>[i])]

\* The keys of JSON_AGG's ORDER BY; those of the query's own are plain where they can be.
AggregateOrderKeys(site, view, env, order) ==
    FlattenSeq([i \in DOMAIN order |->
        LET value == MaskedColumn(view, env, order[i].col) IN
        IF order[i].dir.k = "parameter" THEN VariantKeys(site, value, order[i].dir.name)
        ELSE <<Key(value, order[i].dir.value)>>])

OrderKeys(site, view, env, order) ==
    FlattenSeq([i \in DOMAIN order |->
        LET value == MaskedColumn(view, env, order[i].col)
            plain == order[i].dir.k = "parameter" => ~order[i].nullable /\ order[i].col \notin DOMAIN view.fields
        IN  IF plain THEN <<Key(value, ValueOf(site, order[i].dir))>>
            ELSE VariantKeys(site, value, order[i].dir.name)])

\* The rows of a table in a fixed order, where the query asks for none.
Stored(rows) == [n \in 1..Cardinality(rows) |-> CHOOSE row \in rows: Cardinality({r \in rows: r.id < row.id}) = n - 1]

SelectAlias(path) == <<"select", path>>

\* relation_instance_path: occurrences of a table under one name are told apart.
RelationInstancePath(items, i, path) ==
    LET same(j) == items[j].k = "relation" /\ items[j].plan.table = items[i].plan.table /\ items[j].plan.name = items[i].plan.name
    IN  Append(path, <<items[i].plan.table, items[i].plan.name, Cardinality({j \in 1..(i - 1): same(j)})>>)

\* The rows of the source that pass the relation, the policies and the filter; from is
\* the view of the parent.
SourceRows(site, env, plan, view, from, root) ==
    LET open(row) == Bind(env, view.alias, row)
        scope == Scope(view, root, view, from)
        passes(row) ==
            /\ IF plan.relation = "none" THEN \A rule \in site.pol[plan.table].rows: RuleHolds(rule, row) = TRUE
               ELSE Related(site, open(row), from, view, plan.relation, plan.table)
            /\ plan.filter # <<>> => FilterExpr(site, open(row), scope, plan.filter[1]) = TRUE
    IN  Stored({row \in site.db[plan.table]: passes(row)})

\* generate_aggregate: one row, whose column is called result unless it is flattened.
GenerateAggregate(site, env, plan, view, rows, result) ==
    LET body == plan.result
        keyed(row) == [i \in DOMAIN body.keys |-> MaskedColumn(view, Bind(env, view.alias, row), body.keys[i].col)]
        column(f, row) == IF f.operand = "none" THEN 1 ELSE MaskedColumn(view, Bind(env, view.alias, row), f.operand)
        value(f, group) == AggregateOf(f.function, [row \in group |-> column(f, row)])
        fields(group) == [n \in ToSet(ResultNames(body)) |->
                            value(CHOOSE f \in ToSet(body.fields): f.name = n, group)]
        keys(group) == [n \in {body.keys[i].name : i \in DOMAIN body.keys} |->
                            keyed(CHOOSE row \in group: TRUE)[CHOOSE i \in DOMAIN body.keys: body.keys[i].name = n]]
    IN  CASE body.grouped ->
                <<[n \in {result} |-> SetToSeq({keys(group) @@ fields(group) :
                        group \in {{r \in ToSet(rows): keyed(r) = keyed(row)} : row \in ToSet(rows)}})]>>
          [] ~body.grouped /\ plan.flattened -> <<fields(ToSet(rows))>>
          [] OTHER -> <<[n \in {result} |-> fields(ToSet(rows))]>>

\* LEFT JOIN LATERAL ... ON true, each row of left with each of the rows right has for
\* it, or with nulls under names when there is none.
LeftJoin(left, right, alias, names) ==
    FlattenSeq([i \in DOMAIN left |->
        LET rows == IF right[i] = <<>> THEN <<[n \in names |-> NULL]>> ELSE right[i]
        IN  [j \in DOMAIN rows |-> Bind(left[i], alias, rows[j])]])

\* The names a joined selection has for its parent.
ExportedNames(plan) == IF plan.flattened THEN ToSet(ResultNames(plan.result)) ELSE {"result"}

\* selection_field_expressions
ObjectOf(items, view, env, path) ==
    LET parts == [i \in DOMAIN items |->
            IF items[i].k = "column" THEN [n \in {items[i].name} |-> MaskedColumn(view, env, items[i].col)]
            ELSE LET joined == env[SelectAlias(RelationInstancePath(items, i, path))] IN
                 IF items[i].plan.flattened THEN [n \in ExportedNames(items[i].plan) |-> joined[n]]
                 ELSE [n \in {items[i].plan.name} |-> joined["result"]]]
    IN  FoldLeft(LAMBDA object, part: object @@ part, [n \in {} |-> NULL], parts)

Sourced(site, plan) == ~plan.one /\ UsesSourceSubquery(site, plan)

\* The rows of envs in the order of the selection.
Ordered(site, plan, view, envs) ==
    SortBy(envs, [i \in DOMAIN envs |-> OrderKeys(site, view, envs[i], plan.order)])

\* limited_source_query: a selection of several rows is ordered and sliced before its joins.
GenerateSource(site, plan, view, opened) ==
    IF Sourced(site, plan)
    THEN Sliced(site, plan, Ordered(site, plan, view, opened), LimitValue(site, plan, EffectiveLimit(site, plan)))
    ELSE opened

\* One row, its column the JSON_AGG of the objects.
AggregatedRows(site, plan, view, path, result, joined) ==
    LET objects(envs) == [i \in DOMAIN envs |-> ObjectOf(plan.result.items, view, envs[i], path)]
    IN  <<[n \in {result} |->
            objects(SortBy(joined, [i \in DOMAIN joined |-> AggregateOrderKeys(site, view, joined[i], plan.order)]))]>>

\* One row for each, its column the object, or a column for each field of a flattened one.
ObjectRows(plan, view, path, result, envs) ==
    LET row(object) == IF plan.flattened THEN object ELSE [n \in {result} |-> object]
    IN  [i \in DOMAIN envs |-> row(ObjectOf(plan.result.items, view, envs[i], path))]

\* generate_rows, of the rows that the joins made.
GenerateRows(site, plan, view, path, result, joined) ==
    CASE plan.one ->
            Sliced(site, plan, ObjectRows(plan, view, path, result, Ordered(site, plan, view, joined)), LimitValue(site, plan, NULL))
      [] Sourced(site, plan) -> AggregatedRows(site, plan, view, path, result, joined)
      [] OTHER -> Sliced(site, plan, AggregatedRows(site, plan, view, path, result, joined), LimitValue(site, plan, NULL))

\* generate_collection: the rows of the subquery.
RECURSIVE Generate(_, _, _, _, _, _, _)
Generate(site, env, plan, from, outer, path, result) ==
    LET view == Readable(site, SelectAlias(path), plan.table)
        root == IF outer = NoRow THEN view ELSE outer
        rows == SourceRows(site, env, plan, view, from, root)
        items == plan.result.items
        joined(left, i, child) ==
            LeftJoin(left, [j \in DOMAIN left |-> Generate(site, left[j], items[i].plan, view, root, child, "result")],
                     SelectAlias(child), ExportedNames(items[i].plan))
        join(left, i) == IF items[i].k = "column" THEN left ELSE joined(left, i, RelationInstancePath(items, i, path))
        opened(found) == [i \in DOMAIN found |-> Bind(env, view.alias, found[i])]
    IN  IF plan.result.k = "aggregate" THEN GenerateAggregate(site, env, plan, view, rows, result)
        ELSE GenerateRows(site, plan, view, path, result,
                          FoldLeftDomain(join, GenerateSource(site, plan, view, opened(rows)), items))

\* Bug: a root that finds no row takes the whole result with it.
BareRoot(site, plan) ==
    Generate(site, [a \in {} |-> NULL], plan, NoRow, NoRow, <<<<plan.table, plan.name, 0>>>>, plan.name)

\* generate_root_query, with the envelope that keeps an empty singular root.
Enveloped(plan, rows) ==
    IF plan.result.k = "rows" /\ plan.one /\ rows = <<>>
    THEN <<[n \in IF plan.flattened THEN ToSet(ResultNames(plan.result)) ELSE {plan.name} |-> NULL]>>
    ELSE rows

GenerateRootQuery(site, plan) ==
    Enveloped(plan, Generate(site, [a \in {} |-> NULL], plan, NoRow, NoRow, <<<<plan.table, plan.name, 0>>>>, plan.name))

\* combine_root_queries: the cross join of the roots.
CombineRootQueries(roots) ==
    FoldLeft(LAMBDA rows, root:
                FlattenSeq([i \in DOMAIN rows |-> [j \in DOMAIN root |-> rows[i] @@ root[j]]]),
             <<[n \in {} |-> NULL]>>, roots)
-----------------------------------------------------------------------------
(* The contract of the result *)

ResultField(name, kind, nullable, fields) == [name |-> name, kind |-> kind, nullable |-> nullable, fields |-> fields]

CollectionResultKind(plan) ==
    CASE plan.result.k = "aggregate" -> IF plan.result.grouped THEN "array" ELSE "object"
      [] OTHER -> IF plan.one THEN "object" ELSE "array"

CollectionResultNullable(site, plan) ==
    plan.result.k = "rows" /\ plan.one /\ (plan.nullable \/ site.pol[plan.table].rows # {})

Masked(site, table, target) == target \in DOMAIN site.pol[table].fields

\* collect_collection_children: the fields of a body, nullable already when inherited.
RECURSIVE CollectChildren(_, _, _)

\* collect_result_item_fields of a relation under a table, or of a root.
CollectSelection(site, plan, table, inherited) ==
    LET hidden == plan.relation # "none" /\ Masked(site, table, plan.relation) /\ plan.result.k = "rows" /\ plan.one
        nullable == CollectionResultNullable(site, plan) \/ hidden \/ inherited
    IN  IF plan.flattened THEN CollectChildren(site, plan, nullable)
        ELSE {ResultField(plan.name, CollectionResultKind(plan), nullable, CollectChildren(site, plan, FALSE))}

CollectChildren(site, plan, inherited) ==
    LET scalar(name, nullable) == ResultField(name, "scalar", inherited \/ nullable, {})
        item(i) ==
            IF i.k = "column"
            THEN {scalar(i.name, i.col \notin Tables[plan.table].notNull \/ Masked(site, plan.table, i.col))}
            ELSE CollectSelection(site, i.plan, plan.table, inherited)
    IN  IF plan.result.k = "rows" THEN UNION {item(i) : i \in ToSet(plan.result.items)}
        ELSE {scalar(k.name, k.nullable \/ Masked(site, plan.table, k.col)) : k \in ToSet(plan.result.keys)}
             \cup {scalar(f.name, f.nullable) : f \in ToSet(plan.result.fields)}

ResultShape(site, roots) == UNION {CollectSelection(site, plan, plan.table, FALSE) : plan \in ToSet(roots)}
=============================================================================
