----------------------------- MODULE PolicyPlan -----------------------------
(***************************************************************************)
(* Filters and conditions (dsql-core/src/entities/policy.rs): which tables *)
(* a definition matches, what its checks accept, what it compiles to, and  *)
(* the guards a query puts on the rows and fields of a table for it        *)
(* (plan_source_policies in plan/build.rs).                                *)
(*                                                                         *)
(* A definition is a record: id, name, scope, kind ("filter" or            *)
(* "condition"), target (none, a table or a shape), apply (none, or its    *)
(* condition, if any), row (the row rules) and fields (the field rules     *)
(* [names, rule]).  Rules are the expressions of Filters, with references  *)
(* to conditions [k: "predicate", name]; their variables are context.      *)
(* site is, besides the fields Filters reads, the scope graph imports, the *)
(* contexts, a set of [scope, name], the policies, and the query: scope,   *)
(* table, and the assignments [name, scope, cond] of the operation and of  *)
(* the source, in their order.                                             *)
(***************************************************************************)
EXTENDS Filters, Scopes, Folds

Only(set) == CHOOSE x \in set: TRUE

\* One element, which the code matches as the slice [element].
Unique(set) == Cardinality(set) = 1

-----------------------------------------------------------------------------
(* Entries *)

HasShape(policy) == policy.target # <<>> /\ policy.target[1].k = "shape"

\* The tables of resolve_entry and resolve_shape_target.
Matches(policy) ==
    CASE policy.target = <<>> -> {}
      [] HasShape(policy) ->
            {table \in DOMAIN ColumnTypes: \A field \in policy.target[1].fields:
                field[1] \in DOMAIN ColumnTypes[table] /\ ColumnTypes[table][field[1]] = field[2]}
      [] OTHER -> {policy.target[1].table} \cap DOMAIN ColumnTypes

DefaultActive(policy) == policy.apply # <<>>
AlwaysEnforced(policy) == policy.apply = << <<Literal(TRUE)>> >>

\* PolicyIndex::visible, and the candidates of bind_visible_policy_candidates.
VisiblePolicies(site, scope, kind, name) ==
    {p \in site.policies: p.kind = kind /\ p.name = name /\ Sees(site.imports, scope, p.scope)}

\* bind_policy_context_candidates
ContextCandidates(site, scope, name) ==
    {c \in site.contexts: c.name = name /\ Sees(site.imports, scope, c.scope)}

-----------------------------------------------------------------------------
(* Checks.  row is where an expression stands: none, or the tables of the    *)
(* root, the current and the parent row.                                     *)

RootRow(table) == <<[root |-> table, current |-> table, parent |-> "none"]>>
NestedRow(row, table) == <<[root |-> row[1].root, current |-> table, parent |-> row[1].current]>>

AnchorTable(row, anchor) ==
    CASE anchor = "current" -> row[1].current [] anchor = "root" -> row[1].root [] OTHER -> row[1].parent

\* The column at the end of a path is found.
RECURSIVE PathResolves(_, _, _)
PathResolves(table, rels, col) ==
    IF rels = <<>> THEN table \in DOMAIN ColumnTypes /\ col \in DOMAIN ColumnTypes[table]
    ELSE /\ Head(rels) \in DOMAIN Relations /\ Relations[Head(rels)].from = table
         /\ PathResolves(Relations[Head(rels)].to, Tail(rels), col)

ExistsResolves(row, e) ==
    IF e.relation = "none" THEN e.table \in DOMAIN ColumnTypes
    ELSE e.relation \in DOMAIN Relations /\ Relations[e.relation].from = row[1].current

\* condition of PolicyValidation.
ConditionAllowed(site, policy, name, contextOnly) ==
    LET candidates == VisiblePolicies(site, policy.scope, "condition", name) IN
    /\ policy.kind = "filter"
    /\ Unique(candidates)
    /\ contextOnly => Only(candidates).target = <<>>
    /\ ~contextOnly /\ Matches(Only(candidates)) # {} => Matches(policy) \subseteq Matches(Only(candidates))

\* PolicyValidation: the expression has no problem; and check_context_uses for its
\* variables.
RECURSIVE AcceptedExpr(_, _, _, _, _)
AcceptedExpr(site, policy, e, contextOnly, row) ==
    LET accepted(f) == AcceptedExpr(site, policy, f, contextOnly, row) IN
    CASE e.k = "literal" -> TRUE
      [] e.k = "variable" -> Unique(ContextCandidates(site, policy.scope, e.name))
      [] e.k = "path" ->
            /\ ~contextOnly
            /\ IF HasShape(policy)
               THEN e.anchor = "current" /\ e.rels = <<>> /\ \E field \in policy.target[1].fields: field[1] = e.col
               ELSE row # <<>> /\ PathResolves(AnchorTable(row, e.anchor), e.rels, e.col)
      [] e.k = "predicate" -> ConditionAllowed(site, policy, e.name, contextOnly)
      [] e.k \in {"and", "or", "compare"} -> accepted(e.left) /\ accepted(e.right)
      [] e.k = "in" -> accepted(e.left) /\ (IF IsVariable(e.right) THEN accepted(e.right)
                                            ELSE \A i \in DOMAIN e.right.items: accepted(e.right.items[i]))
      [] e.k \in {"not", "null_test"} -> accepted(e.operand)
      [] e.k = "exists" ->
            /\ ~contextOnly /\ row # <<>> /\ ~HasShape(policy) /\ ExistsResolves(row, e)
            /\ e.predicate # <<>> =>
                    AcceptedExpr(site, policy, e.predicate[1], contextOnly, NestedRow(row, e.table))

IsBooleanRule(e) == e.k \in {"and", "or", "compare", "in", "not", "null_test", "exists", "predicate", "variable"}
                        \/ e \in {Literal(TRUE), Literal(FALSE)}

\* validate_declared_field
FieldDeclared(policy, name) ==
    IF HasShape(policy) THEN \E field \in policy.target[1].fields: field[1] = name
    ELSE \A table \in Matches(policy):
            name \in DOMAIN ColumnTypes[table] \/ (name \in DOMAIN Relations /\ Relations[name].from = table)

\* check_policy_definitions reports nothing about the definition.
AcceptedPolicy(site, policy) ==
    LET row == IF Matches(policy) = {} THEN <<>> ELSE RootRow(Only(Matches(policy)))
        rule(e) == IsBooleanRule(e) /\ AcceptedExpr(site, policy, e, FALSE, row)
    IN  /\ policy.kind = "filter" => policy.target # <<>> /\ (policy.row # <<>> \/ policy.fields # <<>>)
        /\ policy.kind = "condition" => policy.row # <<>>
        /\ policy.target # <<>> => Matches(policy) # {}
        /\ Len(policy.row) <= 1
        /\ Unique(VisiblePolicies(site, policy.scope, policy.kind, policy.name))
        /\ \A i \in DOMAIN policy.row: rule(policy.row[i])
        /\ \A i \in DOMAIN policy.fields:
                rule(policy.fields[i].rule) /\ \A name \in policy.fields[i].names: FieldDeclared(policy, name)
        /\ policy.apply # <<>> /\ policy.apply[1] # <<>> =>
                IsBooleanRule(policy.apply[1][1]) /\ AcceptedExpr(site, policy, policy.apply[1][1], TRUE, <<>>)

\* check_import_ambiguities: no scope imports two definitions of one kind and name.
NoAmbiguousImports(site) ==
    \A p, q \in site.policies: p # q /\ p.kind = q.kind /\ p.name = q.name =>
        ~\E scope \in DOMAIN site.imports:
            {p.scope, q.scope} \subseteq ImportsOf(site.imports, scope)

AcceptedPolicies(site) == NoAmbiguousImports(site) /\ \A p \in site.policies: AcceptedPolicy(site, p)

-----------------------------------------------------------------------------
(* Compilation, for one matching table: PolicyCompiler *)

RuleOf(condition) == condition.row[1]

\* Nothing fails.  scope is where names are looked up: that of the filter, or that of
\* the condition being inlined.
RECURSIVE Compiles(_, _, _, _)
Compiles(site, scope, e, row) ==
    CASE e.k = "literal" -> TRUE
      [] e.k = "variable" -> Unique(ContextCandidates(site, scope, e.name))
      [] e.k = "path" -> AnchorTable(row, e.anchor) # "none" /\ PathResolves(AnchorTable(row, e.anchor), e.rels, e.col)
      [] e.k = "predicate" ->
            LET candidates == VisiblePolicies(site, scope, "condition", e.name)
            IN  Unique(candidates) /\ Only(candidates).row # <<>>
                    /\ Compiles(site, Only(candidates).scope, RuleOf(Only(candidates)), row)
      [] e.k \in {"and", "or", "compare"} -> Compiles(site, scope, e.left, row) /\ Compiles(site, scope, e.right, row)
      [] e.k = "in" ->
            /\ IsPath(e.left) /\ Compiles(site, scope, e.left, row)
            /\ IF IsVariable(e.right) THEN Compiles(site, scope, e.right, row)
               ELSE \A i \in DOMAIN e.right.items: Compiles(site, scope, e.right.items[i], row)
      [] e.k \in {"not", "null_test"} -> Compiles(site, scope, e.operand, row)
      [] e.k = "exists" ->
            /\ ExistsResolves(row, e)
            /\ e.predicate # <<>> => Compiles(site, scope, e.predicate[1], NestedRow(row, e.table))

\* The column of a path inside the existence tests that wrap_relations makes of its relations.
PolicyColumn(path) == Column(IF path.rels = <<>> THEN path.anchor ELSE "current", path.col)

RECURSIVE CompileExpr(_, _, _)
CompileExpr(site, scope, e) ==
    LET compiled(f) == CompileExpr(site, scope, f)
        side(f) == IF IsPath(f) THEN PolicyColumn(f) ELSE compiled(f)
        over(f, filter) == IF IsPath(f) THEN WrapRelationPredicate(f.rels, filter) ELSE filter
    IN  CASE e.k = "literal" -> Literal(e.value)
          [] e.k = "variable" -> Parameter(e.name)
          [] e.k = "path" -> over(e, PolicyColumn(e))
          [] e.k = "predicate" ->
                LET condition == Only(VisiblePolicies(site, scope, "condition", e.name))
                IN  CompileExpr(site, condition.scope, RuleOf(condition))
          [] e.k = "not" -> [k |-> "not", operand |-> compiled(e.operand)]
          [] e.k = "null_test" ->
                over(e.operand, [k |-> "null_test", operand |-> side(e.operand), negated |-> e.negated])
          [] e.k = "exists" ->
                Exists(e.relation, e.table, "explicit", [i \in DOMAIN e.predicate |-> compiled(e.predicate[i])])
          [] e.k \in {"and", "or"} -> Binary(compiled(e.left), e.k, compiled(e.right))
          [] e.k = "in" /\ IsVariable(e.right) ->
                over(e.left, Membership(side(e.left), e.right.name, <<>>, e.negated))
          [] e.k = "in" /\ ~IsVariable(e.right) ->
                over(e.left, Membership(side(e.left), "none",
                        [i \in DOMAIN e.right.items |-> compiled(e.right.items[i])], e.negated))
          [] e.k = "compare" /\ IsPath(e.left) -> over(e.left, Binary(PolicyColumn(e.left), e.op, compiled(e.right)))
          [] e.k = "compare" /\ ~IsPath(e.left) -> over(e.right, Binary(compiled(e.left), e.op, side(e.right)))

\* The definition compiles for a table it matches; otherwise the table is left out.
CompilesFor(site, policy, table) ==
    LET row == RootRow(table)
        all == policy.row \o [i \in DOMAIN policy.fields |-> policy.fields[i].rule]
                   \o (IF policy.apply = <<>> THEN <<>> ELSE policy.apply[1])
    IN  \A i \in DOMAIN all: Compiles(site, policy.scope, all[i], row)

\* CompiledPolicyTarget
CompilePolicy(site, policy) ==
    LET compiled(e) == CompileExpr(site, policy.scope, e)
        all(rules) == [i \in DOMAIN rules |-> compiled(rules[i])]
    IN  [enforcement |-> IF policy.apply = <<>> THEN <<>> ELSE all(policy.apply[1]),
         row |-> all(policy.row),
         fields |-> [i \in DOMAIN policy.fields |->
                        [names |-> policy.fields[i].names, condition |-> compiled(policy.fields[i].rule)]]]

-----------------------------------------------------------------------------
(* Guards *)

Boolean(value) == Literal(value)
IsBoolean(filter, value) == filter = Literal(value)

NotFilter(filter) ==
    CASE IsBoolean(filter, TRUE) -> Boolean(FALSE)
      [] IsBoolean(filter, FALSE) -> Boolean(TRUE)
      [] filter.k = "not" -> filter.operand
      [] OTHER -> [k |-> "not", operand |-> filter]

OrFilter(left, right) ==
    CASE IsBoolean(left, TRUE) \/ IsBoolean(right, TRUE) -> Boolean(TRUE)
      [] IsBoolean(left, FALSE) -> right
      [] IsBoolean(right, FALSE) -> left
      [] OTHER -> Binary(left, "or", right)

AndFilter(left, right) ==
    CASE IsBoolean(left, FALSE) \/ IsBoolean(right, FALSE) -> Boolean(FALSE)
      [] IsBoolean(left, TRUE) -> right
      [] IsBoolean(right, TRUE) -> left
      [] OTHER -> Binary(left, "and", right)

\* active_policy_guard
ActivePolicyGuard(active, condition) ==
    IF IsBoolean(active, TRUE) THEN condition ELSE OrFilter(NotFilter(active), condition)

\* filter_parameter_paths
RECURSIVE ParameterNames(_)
ParameterNames(filter) ==
    CASE filter.k = "parameter" -> {filter.name}
      [] filter.k = "binary" -> ParameterNames(filter.left) \cup ParameterNames(filter.right)
      [] filter.k \in {"not", "null_test"} -> ParameterNames(filter.operand)
      [] filter.k = "membership" ->
            ParameterNames(filter.operand) \cup ({filter.name} \ {"none"})
                \cup UNION {ParameterNames(item) : item \in ToSet(filter.items)}
      [] filter.k = "exists" -> UNION {ParameterNames(inner) : inner \in ToSet(filter.filter)}
      [] OTHER -> {}

\* filter_observes_rows
RECURSIVE ObservesRows(_)
ObservesRows(filter) ==
    CASE filter.k \in {"column", "exists"} -> TRUE
      [] filter.k = "binary" -> ObservesRows(filter.left) \/ ObservesRows(filter.right)
      [] filter.k \in {"not", "null_test"} -> ObservesRows(filter.operand)
      [] filter.k = "membership" -> ObservesRows(filter.operand) \/ \E item \in ToSet(filter.items): ObservesRows(item)
      [] OTHER -> FALSE

\* PolicyAccess, by how much it depends on.
Unconditional == 0
ContextOnly == 1
RowDependent == 2

AccessForGuard(filter) ==
    CASE IsBoolean(filter, TRUE) -> Unconditional
      [] ObservesRows(filter) -> RowDependent
      [] OTHER -> ContextOnly

-----------------------------------------------------------------------------
(* The policies of a source *)

\* plan_assignment_expr
RECURSIVE PlanAssignmentExpr(_)
PlanAssignmentExpr(e) ==
    CASE e.k = "variable" -> Parameter(e.name)
      [] e.k = "literal" -> Boolean(e.value)
      [] e.k = "not" -> NotFilter(PlanAssignmentExpr(e.operand))
      [] e.k \in {"and", "or"} -> Binary(PlanAssignmentExpr(e.left), e.k, PlanAssignmentExpr(e.right))
      [] e.k = "compare" -> Binary(PlanAssignmentExpr(e.left), e.op, PlanAssignmentExpr(e.right))
      [] e.k = "null_test" ->
            [k |-> "null_test", operand |-> PlanAssignmentExpr(e.operand), negated |-> e.negated]

\* The filters related to the query, by scope, table or name (bind_definition_policies).
QueryPolicies(site) ==
    {p \in site.policies: p.kind = "filter" /\ Sees(site.imports, site.query.scope, p.scope)
        /\ (site.query.table \in Matches(p)
            \/ \E a \in ToSet(site.query.operation \o site.query.source): a.name = p.name)}

\* The filter an assignment is about, looked up from the scope it is written in.
AssignedFilter(site, a) ==
    {p \in QueryPolicies(site): p.name = a.name /\ Sees(site.imports, a.scope, p.scope)}

\* Without a problem (check_filter_assignment_for_tables); the expression is one of
\* PlanAssignmentExpr, so that it does not depend on a row.
AcceptedAssignment(site, a) ==
    /\ Unique(AssignedFilter(site, a))
    /\ site.query.table \in Matches(Only(AssignedFilter(site, a)))
    /\ a.cond # <<>> /\ AlwaysEnforced(Only(AssignedFilter(site, a))) => a.cond = <<Literal(TRUE)>>

\* Those of an operation, and of a source, are about different filters.
DistinctAssignments(assignments) == \A i, j \in DOMAIN assignments: i # j => assignments[i].name # assignments[j].name

AcceptedQuery(site) ==
    /\ \A a \in ToSet(site.query.operation \o site.query.source): AcceptedAssignment(site, a)
    /\ DistinctAssignments(site.query.operation) /\ DistinctAssignments(site.query.source)

\* Bug: the assignments of the operation win over those of the source.
OperationWins(site, policy) ==
    LET all == site.query.source \o site.query.operation
        about == {i \in DOMAIN all: policy \in AssignedFilter(site, all[i]) /\ Unique(AssignedFilter(site, all[i]))}
    IN  IF about = {} THEN <<>> ELSE <<all[CHOOSE i \in about: \A j \in about: j <= i]>>

\* The assignment that is inserted last.
AssignmentOf(site, policy) ==
    LET all == site.query.operation \o site.query.source
        about == {i \in DOMAIN all: policy \in AssignedFilter(site, all[i]) /\ Unique(AssignedFilter(site, all[i]))}
    IN  IF about = {} THEN <<>> ELSE <<all[CHOOSE i \in about: \A j \in about: j <= i]>>

DesiredState(site, policy) ==
    LET a == AssignmentOf(site, policy) IN
    CASE a = <<>> -> Boolean(DefaultActive(policy))
      [] a # <<>> /\ a[1].cond = <<>> -> Boolean(TRUE)
      [] OTHER -> PlanAssignmentExpr(a[1].cond[1])

ActiveState(site, policy) ==
    LET enforcement == CompilePolicy(site, policy).enforcement
        desired == DesiredState(site, policy)
    IN  IF enforcement = <<>> THEN desired ELSE OrFilter(enforcement[1], desired)

\* Bug: context that only the assignment reads is not required.
RequiredByRules(site, policy, guard) ==
    LET target == CompilePolicy(site, policy)
        compiled == target.enforcement \o target.row \o [i \in DOMAIN target.fields |-> target.fields[i].condition]
    IN  UNION {ParameterNames(f) : f \in ToSet(compiled)} \cap ParameterNames(guard)

\* Context that a guard needs: what the compiled target and the assignment read of it.
RequiredContext(site, policy, guard) ==
    LET target == CompilePolicy(site, policy)
        a == AssignmentOf(site, policy)
        compiled == target.enforcement \o target.row \o [i \in DOMAIN target.fields |-> target.fields[i].condition]
        assigned == IF a = <<>> THEN {} ELSE UNION {ParameterNames(PlanAssignmentExpr(e)) : e \in ToSet(a[1].cond)}
        known == UNION {ParameterNames(f) : f \in ToSet(compiled)}
                    \cup {n \in assigned: \E c \in site.contexts: c.name = n}
    IN  known \cap ParameterNames(guard)

\* The guards of an active filter on the rows, and on each field it names.
RowGuards(target, active) ==
    IF IsBoolean(active, FALSE) THEN <<>> ELSE [i \in DOMAIN target.row |-> ActivePolicyGuard(active, target.row[i])]
FieldGuards(target, active) ==
    {[target |-> name, filter |-> ActivePolicyGuard(active, target.fields[i].condition)] : <<i, name>> \in
        UNION {{i} \X target.fields[i].names : i \in {j \in DOMAIN target.fields: ~IsBoolean(active, FALSE)}}}

Strongest(accesses) == CHOOSE a \in accesses: \A b \in accesses: b <= a

\* What is reported of a policy with these guards.
Reported(site, policy, row, guards) ==
    [policy |-> policy, row |-> row, fields |-> guards,
     rowsFiltered |-> row # <<>> /\ AccessForGuard(row[1]) # Unconditional,
     access |-> [name \in {g.target : g \in guards} |->
                    Strongest({AccessForGuard(g.filter) : g \in {h \in guards: h.target = name}})],
     context |-> UNION {RequiredContext(site, policy, filter) : filter \in ToSet(row) \cup {g.filter : g \in guards}}]

\* The guards of one policy on a table, and what is reported of it.
Application(site, policy) ==
    LET applied(target, active) == Reported(site, policy, RowGuards(target, active), FieldGuards(target, active))
    IN  applied(CompilePolicy(site, policy), ActiveState(site, policy))

Conjunction(filters) == FoldSet(AndFilter, Boolean(TRUE), filters)

\* The guards of all of them together.
Combined(applied) ==
    LET rows(filters) == IF filters = {} THEN <<>> ELSE <<Conjunction(filters)>>
        fields(guards) == [name \in {g.target : g \in guards} |->
                                Conjunction({g.filter : g \in {h \in guards: h.target = name}})]
    IN  [applications |-> applied,
         rows |-> rows(UNION {ToSet(a.row) : a \in applied}),
         fields |-> fields(UNION {a.fields : a \in applied})]

\* plan_source_policies: those visible from the query that match its table, and the assigned ones.
PlanSourcePolicies(site) ==
    LET table == site.query.table
        identities == {p \in QueryPolicies(site): table \in Matches(p) \/ AssignmentOf(site, p) # <<>>}
    IN  Combined({Application(site, p) : p \in {q \in identities: table \in Matches(q) /\ CompilesFor(site, q, table)}})

\* policy_field_access and policy_nullable_fields: what any filter of any scope may do to
\* the fields of a table, which is what the types of fragments are made from.
ShapePolicies(site, table) ==
    {p \in site.policies: p.kind = "filter" /\ table \in Matches(p) /\ CompilesFor(site, p, table)}

NullableFields(site, table) ==
    UNION {UNION {f.names : f \in ToSet(p.fields)} : p \in ShapePolicies(site, table)}

FieldAccess(site, table, name) ==
    LET guards == UNION {{f.condition : f \in {g \in ToSet(CompilePolicy(site, p).fields): name \in g.names}} :
                            p \in ShapePolicies(site, table)}
    IN  Strongest({Unconditional} \cup {AccessForGuard(g) : g \in guards})
=============================================================================
