---------------------------- MODULE DynamicInputs ----------------------------
(***************************************************************************)
(* Inputs whose value is a predicate or an order the caller composes at    *)
(* run time (where %search on indexed, order by %sort on selected): which  *)
(* fields a usage exposes, the contract of the input, and the template of  *)
(* the SQL with a marker where each usage goes (plan/build.rs,             *)
(* sql/postgres.rs, generate's assemble.rs).                               *)
(* A query is a sequence of roots; guards say which columns of a table the *)
(* policies mask.  SQL is a tree; its text is the bag of the tokens in it. *)
(***************************************************************************)
EXTENDS SqlLogic, Integers, Sequences, SequencesExt, FiniteSets

CONSTANTS
    KeyOrder,      \* every key of a JSON object, in sorting order
    FirstSentinel  \* FIRST_NUMERIC_SENTINEL

\* catalog/lookup.rs: a physical index can be entered by this key of it.
IndependentlyUsable(index, position) ==
    position = 1 \/ index.method \in {"gin", "gist", "spgist", "brin", "hash"}

IndependentlyIndexed(table, column) ==
    \E i \in DOMAIN table.indexes: LET index == table.indexes[i] IN
        \E p \in DOMAIN index.keys: index.keys[p].column = column /\ IndependentlyUsable(index, p)

ComparisonsOf(type) ==
    CASE type = "text" -> <<"eq", "neq", "like">>
      [] type = "int" -> <<"eq", "neq", "gt", "gte", "lt", "lte">>
      [] OTHER -> <<"eq", "neq">>

WireOf(type) ==
    CASE type = "text" -> "text"
      [] type = "int" -> "integer"
      [] type = "mood" -> "text_cast"
      [] OTHER -> "unsupported"

IsSearchable(table, column) ==
    /\ Contains(ComparisonsOf(table.columns[column].type), "like")
    /\ \E i \in DOMAIN table.indexes: LET index == table.indexes[i] IN
        \E p \in DOMAIN index.keys:
            index.keys[p].column = column /\ index.keys[p].like /\ IndependentlyUsable(index, p)

PredicateOperators(type) == ComparisonsOf(type) \o <<"in", "not_in", "is_null">>

Directions == <<"asc", "desc", "asc_nulls_first", "asc_nulls_last", "desc_nulls_first", "desc_nulls_last">>

KeyRank(key) == CHOOSE i \in DOMAIN KeyOrder: KeyOrder[i] = key
SortedKeys(keys) == SelectSeq(KeyOrder, LAMBDA key: key \in keys)

AccessOf(guards, column) == IF column \in DOMAIN guards THEN guards[column].access ELSE "unconditional"

FieldPlan(table, guards, key, column) ==
    [key |-> key, table |-> table.name, column |-> column, type |-> table.columns[column].type,
     access |-> AccessOf(guards, column),
     nullable |-> ~table.columns[column].notNull \/ AccessOf(guards, column) # "unconditional",
     operators |-> PredicateOperators(table.columns[column].type), directions |-> <<>>]

\* None, or the fields a usage on this surface exposes: [out, column] of the selection,
\* or columns of the catalog, sorted by key.
DynamicInputFields(table, root, guards, surface) ==
    LET visible(P(_)) == {[out |-> c, column |-> c]: c \in {d \in DOMAIN table.columns: table.columns[d].visible /\ P(d)}}
        exposed ==
            CASE surface = "selected" -> root.selected
              [] surface = "selected_indexed" -> {s \in root.selected: IndependentlyIndexed(table, s.column)}
              [] surface = "indexed" -> visible(LAMBDA c: IndependentlyIndexed(table, c))
              [] surface = "searchable" -> visible(LAMBDA c: IsSearchable(table, c))
        keys == SortedKeys({e.out: e \in exposed}) IN
    IF root.body = "aggregate" /\ surface \in {"selected", "selected_indexed"} THEN <<>>
    ELSE <<[i \in DOMAIN keys |->
               FieldPlan(table, guards, keys[i], (CHOOSE e \in exposed: e.out = keys[i]).column)]>>

-----------------------------------------------------------------------------
\* A state of planning: the contracts so far, whether there is a diagnostic, and the
\* context that is required.

NothingPlanned == [contracts |-> <<>>, problems |-> FALSE, context |-> {}]

Problem(plan) == [plan EXCEPT !.problems = TRUE]

Composition == {"and", "or", "not"}

\* register_dynamic_contract
RegisterContract(plan, path, kind, surface, fields) ==
    LET candidate == [path |-> path, kind |-> kind, surface |-> surface, fields |-> fields]
        known == {i \in DOMAIN plan.contracts: plan.contracts[i].path = path} IN
    CASE kind = "predicate" /\ \E i \in DOMAIN fields: fields[i].key \in Composition -> Problem(plan)
      [] known = {} -> [plan EXCEPT !.contracts = Append(@, candidate)]
      [] OTHER -> IF \A i \in known: plan.contracts[i] = candidate THEN plan ELSE Problem(plan)

\* require_dynamic_field_context
RequireFieldContext(plan, fields, guards) ==
    [plan EXCEPT !.context = @ \cup UNION {guards[c].context: c \in {fields[i].column: i \in DOMAIN fields} \cap DOMAIN guards}]

OrderField(field) == [field EXCEPT !.operators = <<>>, !.directions = Directions]

Registered(plan, root, usage, kind, fields) ==
    LET exposed == IF kind = "order" THEN [i \in DOMAIN fields |-> OrderField(fields[i])] ELSE fields IN
    RequireFieldContext(RegisterContract(plan, <<"params", usage.name>>, kind, usage.surface, exposed), fields, root.guards)

\* None of the usage's fields has a wire encoding a value could come in.
Unsupported(fields) == \E i \in DOMAIN fields: WireOf(fields[i].type) = "unsupported"

RegisterUsage(plan, root, usage, kind, found) ==
    IF found = <<>> \/ found[1] = <<>> \/ (kind = "predicate" /\ Unsupported(found[1])) THEN Problem(plan)
    ELSE Registered(plan, root, usage, kind, found[1])

RECURSIVE RegisterPredicates(_, _, _, _)
RegisterPredicates(plan, table, root, expr) ==
    CASE expr.k = "dynamic" ->
             RegisterUsage(plan, root, expr, "predicate", DynamicInputFields(table, root, root.guards, expr.surface))
      [] expr.k \in {"and", "or"} ->
             RegisterPredicates(RegisterPredicates(plan, table, root, expr.left), table, root, expr.right)
      [] expr.k \in {"not", "exists"} -> RegisterPredicates(plan, table, root, expr.operand)
      [] OTHER -> plan

\* check_dynamic_predicate_placement: only where an empty predicate may be left out.
RECURSIVE MisplacedPredicates(_, _)
MisplacedPredicates(expr, placement) ==
    CASE expr.k = "dynamic" -> placement # "conjunctive"
      [] expr.k \in {"and", "or"} ->
             LET inner == IF placement = "conjunctive" /\ expr.k = "or" THEN "invalid" ELSE placement IN
             MisplacedPredicates(expr.left, inner) \/ MisplacedPredicates(expr.right, inner)
      [] expr.k = "not" -> MisplacedPredicates(expr.operand, IF placement = "conjunctive" THEN "invalid" ELSE placement)
      [] expr.k = "exists" -> MisplacedPredicates(expr.operand, "no surface")
      [] OTHER -> FALSE

\* The clauses of one root, in the order where, order by (plan_clauses).
PlanRoot(plan, table, root) ==
    LET where == IF root.where = <<>> THEN plan
                 ELSE IF MisplacedPredicates(root.where[1], "conjunctive") THEN Problem(plan)
                 ELSE RegisterPredicates(plan, table, root, root.where[1]) IN
    FoldLeft(LAMBDA done, term:
                 IF term.k = "dynamic"
                 THEN RegisterUsage(done, root, term, "order", DynamicInputFields(table, root, root.guards, term.surface))
                 ELSE done,
             where, root.order)

PlanDynamic(tables, query) ==
    FoldLeft(LAMBDA plan, root: PlanRoot(plan, tables[root.table], root), NothingPlanned, query)

-----------------------------------------------------------------------------
\* The template of the statement.  Tokens: $i, a placeholder by path, a marker of a
\* usage that is unique in this statement (internal) or published (public), a number.

Token(t, n) == [t |-> t, n |-> n]
Placeholder(path) == [t |-> "variant", path |-> path]
Word(text) == [t |-> "text", text |-> text]

NoTemplate(sentinel, marker) ==
    [sentinel |-> sentinel, marker |-> marker, context |-> {},
     parameters |-> <<>>, variants |-> <<>>, sites |-> <<>>, numbers |-> <<>>]

\* SqlTemplateContext::parameter: one placeholder for each path.
WithParameter(template, path) ==
    IF Contains(template.parameters, path) THEN template
    ELSE [template EXCEPT !.parameters = Append(@, path)]
ParameterIndex(template, path) == CHOOSE i \in DOMAIN template.parameters: template.parameters[i] = path

WithVariant(template, path, cases, nullText) ==
    IF \E i \in DOMAIN template.variants: template.variants[i].path = path THEN template
    ELSE [template EXCEPT !.variants = Append(@, [path |-> path, cases |-> cases, nullText |-> nullText])]

\* SqlTemplateContext::dynamic_site
DynamicSite(template, path, kind, fields) ==
    [template EXCEPT !.sentinel = @ + 1, !.marker = @ + 1,
                     !.sites = Append(@, [path |-> path, kind |-> kind, fields |-> fields,
                                          internal |-> Token("internal", template.sentinel),
                                          public |-> Token("public", template.marker)])]
LastMarker(template) == Last(template.sites).internal

\* numeric_parameter_sentinel: a limit must be a number until the text is final.
NumericParameter(template, path) ==
    LET known == WithParameter(template, path) IN
    [known EXCEPT !.sentinel = @ + 1,
                  !.numbers = Append(@, [needle |-> Token("number", known.sentinel),
                                         replacement |-> Token("parameter", ParameterIndex(known, path))])]

\* masked_column_expression: what a policy masks is masked wherever it is read, and what
\* its guard reads becomes a parameter (render_policy_field_filter).
WithGuard(template, guards, column) ==
    IF column \notin DOMAIN guards THEN template
    ELSE FoldSet(LAMBDA path, known: WithParameter([known EXCEPT !.context = @ \cup {path}], path),
                 template, guards[column].context)
WithGuards(template, guards, fields) ==
    FoldLeft(LAMBDA known, field: WithGuard(known, guards, field.column), template, fields)

\* A column, masked by a guard whose parameter is $reads.
Masked(template, guards, column) ==
    [column |-> column,
     guard |-> IF column \notin DOMAIN guards THEN <<>>
               ELSE <<[access |-> guards[column].access, rows |-> guards[column].rows, denies |-> guards[column].denies,
                       reads |-> {ParameterIndex(template, path): path \in guards[column].context}]>>]

ValueKind(operator) ==
    CASE operator \in {"in", "not_in"} -> "collection"
      [] operator = "is_null" -> "boolean"
      [] OTHER -> "scalar"

\* generated_dynamic_predicate_fields, generated_dynamic_order_fields
SiteField(field, guards, template) ==
    [key |-> field.key, expression |-> Masked(template, guards, field.column),
     operators |-> [i \in DOMAIN field.operators |-> [name |-> field.operators[i], kind |-> ValueKind(field.operators[i])]],
     directions |-> field.directions]
SiteFields(fields, guards, template) == [i \in DOMAIN fields |-> SiteField(fields[i], guards, template)]

FieldsOf(plan, path, kind) ==
    (CHOOSE c \in Range(plan.contracts): c.path = path /\ c.kind = kind).fields

Leaf(k, expression, token) == [k |-> k, expression |-> expression, token |-> token]
SiteLeaf(token) == [k |-> "site", token |-> token]

UsageSite(template, guards, path, kind, fields) ==
    LET known == WithGuards(template, guards, fields) IN
    DynamicSite(known, path, kind, SiteFields(fields, guards, known))

Usage(plan, root, usage, kind, template) ==
    LET path == <<"params", usage.name>> IN
    UsageSite(template, root.guards, path, kind, FieldsOf(plan, path, kind))

Lowered(sql, template) == [sql |-> sql, template |-> template]

\* generate_filter_expr
RECURSIVE LowerFilter(_, _, _, _)
LowerPair(k, left, plan, root, right) ==
    LET second == LowerFilter(plan, root, right, left.template) IN
    Lowered([k |-> k, left |-> left.sql, right |-> second.sql], second.template)
LowerFilter(plan, root, expr, template) ==
    CASE expr.k = "dynamic" ->
             LET site == Usage(plan, root, expr, "predicate", template) IN
             Lowered(SiteLeaf(LastMarker(site)), site)
      [] expr.k = "compare" ->
             LET known == WithParameter(WithGuard(template, root.guards, expr.column), expr.path) IN
             Lowered(Leaf("compare", Masked(known, root.guards, expr.column), Token("parameter", ParameterIndex(known, expr.path))), known)
      [] expr.k = "literal" ->
             LET known == WithGuard(template, root.guards, expr.column) IN
             Lowered(Leaf("literal", Masked(known, root.guards, expr.column), expr.token), known)
      [] expr.k \in {"and", "or"} -> LowerPair(expr.k, LowerFilter(plan, root, expr.left, template), plan, root, expr.right)
      [] expr.k \in {"not", "exists"} ->
             LET inner == LowerFilter(plan, root, expr.operand, template) IN
             Lowered([k |-> expr.k, operand |-> inner.sql], inner.template)

LowerDirection(done, masked, token, template) == Lowered(Append(done.sql, Leaf("column", masked, token)), template)

LowerTerm(plan, root, done, term) ==
    LET guarded == WithGuard(done.template, root.guards, term.column) IN
    CASE term.k = "dynamic" ->
             LET site == Usage(plan, root, term, "order", done.template) IN
             Lowered(Append(done.sql, SiteLeaf(LastMarker(site))), site)
      [] term.k = "turned" ->
             LowerDirection(done, Masked(guarded, root.guards, term.column), Placeholder(term.path),
                 WithVariant(guarded, term.path, {"asc", "desc"}, IF term.nullable THEN <<"null">> ELSE <<>>))
      [] term.k = "column" -> LowerDirection(done, Masked(guarded, root.guards, term.column), Word(term.direction), guarded)

\* The number LIMIT has in the template, its own or a sentinel for the parameter.
LowerLimit(limit, template) ==
    CASE limit.k = "none" -> Lowered(<<>>, template)
      [] limit.k = "number" -> Lowered(<<Token("number", limit.n)>>, template)
      [] limit.k = "parameter" ->
             LET known == NumericParameter(template, limit.path) IN
             Lowered(<<Last(known.numbers).needle>>, known)

LowerClauses(root, filter, order, limit) ==
    Lowered([table |-> root.table, where |-> filter.sql, order |-> order.sql, limit |-> limit.sql], limit.template)

LowerRoot(plan, root, template) ==
    LET filter == IF root.where = <<>> THEN Lowered(<<>>, template)
                  ELSE LET lowered == LowerFilter(plan, root, root.where[1], template) IN
                       Lowered(<<lowered.sql>>, lowered.template)
        order == FoldLeft(LAMBDA done, term: LowerTerm(plan, root, done, term), Lowered(<<>>, filter.template), root.order) IN
    LowerClauses(root, filter, order, LowerLimit(root.limit, order.template))

LowerQuery(plan, query, sentinel, marker) ==
    FoldLeft(LAMBDA done, root: LET lowered == LowerRoot(plan, root, done.template) IN
                 Lowered(Append(done.sql, lowered.sql), lowered.template),
             Lowered(<<>>, NoTemplate(sentinel, marker)), query)

-----------------------------------------------------------------------------
\* The text of a statement: the tokens of its leaves, in order.

RECURSIVE FilterTokens(_)
FilterTokens(sql) ==
    CASE sql.k \in {"and", "or"} -> FilterTokens(sql.left) \o FilterTokens(sql.right)
      [] sql.k \in {"not", "exists"} -> FilterTokens(sql.operand)
      [] OTHER -> <<sql.token>>

RootTokens(root) ==
    (IF root.where = <<>> THEN <<>> ELSE FilterTokens(root.where[1]))
        \o [i \in DOMAIN root.order |-> root.order[i].token] \o root.limit

StatementTokens(statement) == FoldLeft(LAMBDA tokens, root: tokens \o RootTokens(root), <<>>, statement)

\* A number is also found inside the text of an internal marker.
Matches(text, needle) == text = needle \/ (needle.t = "number" /\ text = Token("internal", needle.n))

Occurrences(tokens, needle) == Cardinality({i \in DOMAIN tokens: Matches(tokens[i], needle)})

RECURSIVE SubstitutedFilter(_, _, _)
SubstitutedFilter(sql, needle, by) ==
    CASE sql.k \in {"and", "or"} ->
             [sql EXCEPT !.left = SubstitutedFilter(@, needle, by), !.right = SubstitutedFilter(@, needle, by)]
      [] sql.k \in {"not", "exists"} -> [sql EXCEPT !.operand = SubstitutedFilter(@, needle, by)]
      [] OTHER -> IF Matches(sql.token, needle) THEN [sql EXCEPT !.token = by] ELSE sql

SubstitutedRoot(root, needle, by) ==
    [root EXCEPT !.where = [i \in DOMAIN @ |-> SubstitutedFilter(@[i], needle, by)],
                 !.order = [i \in DOMAIN @ |-> IF Matches(@[i].token, needle) THEN [@[i] EXCEPT !.token = by] ELSE @[i]],
                 !.limit = [i \in DOMAIN @ |-> IF Matches(@[i], needle) THEN by ELSE @[i]]]

Substituted(statement, needle, by) == [i \in DOMAIN statement |-> SubstitutedRoot(statement[i], needle, by)]

\* Bug: only a public marker that the author wrote is noticed.
MarkersCollide(tokens, template) ==
    \E i \in DOMAIN template.sites: Occurrences(tokens, template.sites[i].public) > 0

\* replace_dynamic_markers, replace_numeric_sentinels: what the author wrote looks like
\* a marker or a sentinel, so that this text cannot be used.
Collides(tokens, template) ==
    \/ \E i \in DOMAIN template.sites:
           Occurrences(tokens, template.sites[i].public) > 0 \/ Occurrences(tokens, template.sites[i].internal) > 1
    \/ \E i \in DOMAIN template.numbers: Occurrences(tokens, template.numbers[i].needle) > 1

Published(statement, template) ==
    FoldLeft(LAMBDA sql, number: Substituted(sql, number.needle, number.replacement),
             FoldLeft(LAMBDA sql, site: Substituted(sql, site.internal, site.public), statement, template.sites),
             template.numbers)

\* generate_postgres_sql_with_options: start again behind what was used, until nothing collides.
RECURSIVE GenerateFrom(_, _, _, _)
Settle(lowered, plan, query) ==
    IF Collides(StatementTokens(lowered.sql), lowered.template)
    THEN GenerateFrom(plan, query, lowered.template.sentinel, lowered.template.marker)
    ELSE Lowered(Published(lowered.sql, lowered.template), lowered.template)
GenerateFrom(plan, query, sentinel, marker) == Settle(LowerQuery(plan, query, sentinel, marker), plan, query)

GenerateStatement(plan, query) == GenerateFrom(plan, query, FirstSentinel, 0)

-----------------------------------------------------------------------------
\* What is published about an input (dynamic_input_metadata, dynamic_input_site).

\* The project gives this type a pattern, and a codec in TypeScript.
PatternOf(type) == IF type = "mood" THEN <<{"word", "other"}>> ELSE <<>>
HasCodec(type) == type = "mood"

FieldMetadata(field) ==
    [key |-> field.key, wire |-> WireOf(field.type), collection |-> FALSE, nullable |-> field.nullable,
     pattern |-> PatternOf(field.type), serialize |-> HasCodec(field.type),
     operators |-> [i \in DOMAIN field.operators |-> [name |-> field.operators[i], kind |-> ValueKind(field.operators[i])]]]

DynamicMetadata(plan, template) ==
    [i \in DOMAIN plan.contracts |->
        LET contract == plan.contracts[i] IN
        [path |-> contract.path, kind |-> contract.kind,
         fields |-> [f \in DOMAIN contract.fields |-> FieldMetadata(contract.fields[f])],
         sites |-> SelectSeq(template.sites, LAMBDA site: site.path = contract.path /\ site.kind = contract.kind)]]

\* context_fields: what the plan requires and what the SQL came to read.
ContextFields(plan, template) ==
    LET paths == SetToSeq(plan.context \cup template.context) IN
    [i \in DOMAIN paths |->
        [path |-> paths[i], dynamic |-> "no", wire |-> "text", collection |-> FALSE, nullable |-> FALSE, required |-> TRUE,
         default |-> <<>>, closed |-> {}, pattern |-> <<>>, serialize |-> TRUE]]

\* operation_metadata
OperationMetadata(plan, inputs, generated) ==
    [statement |-> generated.sql, inputs |-> inputs, context |-> ContextFields(plan, generated.template),
     parameters |-> generated.template.parameters, variants |-> generated.template.variants,
     dynamics |-> DynamicMetadata(plan, generated.template)]
=============================================================================
