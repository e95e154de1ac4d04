----------------------------- MODULE MCPolicies -----------------------------
(***************************************************************************)
(* Small projects with filters for PolicyPlan: lib imports base, app       *)
(* imports lib, and other is imported by nobody.                           *)
(***************************************************************************)
EXTENDS PolicyMeaning

Row(id, fk, x) == [id |-> id, fk |-> fk, x |-> x]
Databases ==
    {[post |-> {Row(1, NULL, 1), Row(2, 1, x), Row(3, 1, 0)}, note |-> {Row(1, 2, 0)}, card |-> {}] : x \in {1, NULL}}

Imports == [app |-> <<"lib">>, lib |-> <<"base">>, base |-> <<>>, other |-> <<>>]
Declared(scope, name) == [scope |-> scope, name |-> name]
Contexts == {Declared("base", "t"), Declared("lib", "on"), Declared("other", "on")}

\* Values of the context, and of the boolean input i.
Binds ==
    {[t |-> Public(FALSE, t), on |-> Public(FALSE, on), i |-> Public(FALSE, (t = 0) = (on = TRUE))] :
        t \in {0, NULL}, on \in {TRUE, FALSE, NULL}}

Path(anchor, rels, col) == [k |-> "path", anchor |-> anchor, rels |-> rels, col |-> col]
Here(col) == Path("current", <<>>, col)
Var(name) == [k |-> "variable", name |-> name]
Compare(left, op, right) == [k |-> "compare", left |-> left, op |-> op, right |-> right]
Not(operand) == [k |-> "not", operand |-> operand]
Either(left, right) == [k |-> "or", left |-> left, right |-> right]
Condition(name) == [k |-> "predicate", name |-> name]
Listed(col, items) == [k |-> "in", left |-> Here(col), right |-> [k |-> "list", items |-> items], negated |-> FALSE]
Missing(path) == [k |-> "null_test", operand |-> path, negated |-> FALSE]
Some(relation, predicate) ==
    [k |-> "exists", relation |-> relation, table |-> Relations[relation].to, predicate |-> predicate]

Definition(name, scope, kind, target, apply, row, fields) ==
    [name |-> name, scope |-> scope, kind |-> kind, target |-> target, apply |-> apply, row |-> row, fields |-> fields]
On(table) == <<[k |-> "table", table |-> table]>>
Shaped(fields) == <<[k |-> "shape", fields |-> fields]>>
Applied == << <<>> >>
AppliedWhere(e) == << <<e>> >>
Guarding(names, rule) == [names |-> names, rule |-> rule]

\* owned has the same name in two scopes, of which app sees one.
Conditions ==
    {Definition("owned", "base", "condition", On("post"), <<>>, <<Compare(Here("x"), "==", Var("t"))>>, <<>>),
     Definition("owned", "other", "condition", <<>>, <<>>, <<Var("on")>>, <<>>),
     Definition("admin", "lib", "condition", <<>>, <<>>, <<Var("on")>>, <<>>)}

Filters ==
    {Definition("f", scope, "filter", On("post"), apply, <<rule>>, <<>>) :
        scope \in {"lib", "other"}, apply \in {<<>>, Applied, AppliedWhere(Literal(TRUE)), AppliedWhere(Var("on")),
                                               AppliedWhere(Not(Condition("admin")))},
        rule \in {Condition("owned"), Condition("admin"), Literal(FALSE)}}
    \cup {Definition("f", "lib", "filter", On("post"), Applied, <<rule>>, <<>>) :
            rule \in {Some("replies", <<Compare(Here("x"), "==", Path("parent", <<>>, "x"))>>),
                      Some("notes", <<>>), Compare(Path("current", <<"up">>, "x"), "==", Literal(1)),
                      Compare(Var("t"), "==", Here("x")), Compare(Here("x"), "==", Path("parent", <<>>, "x")),
                      Either(Listed("x", <<Literal(0), Var("t")>>), Missing(Path("current", <<"notes">>, "x"))),
                      Either(Missing(Here("fk")), Not(Var("on"))), Here("x")}}
    \cup {Definition("g", "base", "filter", target, apply, <<>>, fields) :
            target \in {On("post"), Shaped({<<"x", "int">>, <<"fk", "int">>}), Shaped({<<"x", "text">>})},
            apply \in {<<>>, AppliedWhere(Compare(Var("t"), "==", Literal(0))), Applied},
            fields \in {<<Guarding({"x"}, Compare(Here("fk"), "==", Literal(1)))>>,
                        <<Guarding({"x", "fk"}, Compare(Here("x"), "==", Var("t"))), Guarding({"x"}, Missing(Here("fk")))>>,
                        <<Guarding({"x"}, Literal(TRUE)), Guarding({"fk"}, Literal(FALSE))>>,
                        <<Guarding({"replies"}, Condition("owned"))>>}}
    \cup {Definition("h", "lib", "filter", On("post"), Applied, rows,
                     <<Guarding({"x"}, Var("on")), Guarding({"fk"}, Either(Literal(FALSE), Condition("admin")))>>) :
            rows \in {<<>>, <<Compare(Here("id"), "!=", Literal(3))>>}}

Assign(name, scope, cond) == [name |-> name, scope |-> scope, cond |-> cond]
Assignments ==
    {<<>>} \cup {<<Assign(name, "lib", cond)>> :
        name \in {"f", "g"}, cond \in {<<>>, <<Literal(FALSE)>>, <<Not(Var("i"))>>, <<Either(Var("i"), Var("on"))>>}}
Queries ==
    {[scope |-> scope, table |-> "post", operation |-> operation, source |-> source] :
        scope \in {"app", "base"}, operation \in {<<>>, <<Assign("f", "app", <<Literal(FALSE)>>)>>}, source \in Assignments}

Unguarded == [rows |-> {}, fields |-> NoFields]

\* What a project declares, which its checks accept, and what a query meets.
Projects ==
    {project \in {[policies |-> Conditions \cup chosen, imports |-> Imports, contexts |-> Contexts] :
                    chosen \in {{p} : p \in Filters}
                        \cup {{p, q} : p \in {f \in Filters: f.row = <<Condition("owned")>>},
                                       q \in {f \in Filters: f.fields # <<>>}}}:
        AcceptedPolicies(project)}
PolicySites(project) ==
    {site \in {[db |-> db, bind |-> bind, operators |-> <<>>, imports |-> Imports, contexts |-> Contexts,
                pol |-> [table \in DOMAIN ColumnTypes |-> Unguarded], policies |-> project.policies, query |-> query] :
                    db \in Databases, bind \in Binds, query \in Queries}:
        AcceptedQuery(site)}

\* What the planned guards let a query read of each row, and what is required and reported.
Readings(site, plan) ==
    LET view == Raw(<<"select">>)
        holds(filter, row) == FilterExpr(site, [a \in {<<"select">>} |-> row], Scope(view, view, view, NoRow), filter) = TRUE
        kept(filter) == {row \in site.db[site.query.table]: holds(filter, row)}
    IN  [rows |-> {row \in site.db[site.query.table]: \A f \in ToSet(plan.rows): row \in kept(f)},
         fields |-> [name \in DOMAIN plan.fields |-> kept(plan.fields[name])],
         plan |-> plan]

Outcome(site) == Readings(site, PlanSourcePolicies(site))

\* The guards hide what the filters are meant to hide, and nothing else.
HidesWhatIsMeant(site, outcome) ==
    \A row \in site.db[site.query.table]:
        /\ row \in outcome.rows <=> MayReadRow(site, row)
        /\ \A name \in DOMAIN ColumnTypes[site.query.table] \cup DOMAIN Relations:
                (name \in DOMAIN outcome.fields => row \in outcome.fields[name]) <=> MayReadField(site, row, name)

\* What is reported of each filter, and what the types of fragments assume, holds.
ReportsHold(site, outcome) ==
    LET rows == site.db[site.query.table]
        lets(p, rule, row) == Lets(site, p, rule, row)
    IN  \A a \in outcome.plan.applications:
            /\ ~a.rowsFiltered => \A rule \in ToSet(a.policy.row), row \in rows: lets(a.policy, rule, row)
            /\ \A f \in ToSet(a.policy.fields): \A name \in f.names:
                LET access == IF name \in DOMAIN a.access THEN a.access[name] ELSE Unconditional
                    readable == {row \in rows: \A g \in ToSet(a.policy.fields): name \in g.names => lets(a.policy, g.rule, row)}
                IN  /\ access <= FieldAccess(site, site.query.table, name)
                    /\ access = Unconditional => readable = rows
                    /\ access = ContextOnly => readable \in {{}, rows}
                    /\ access # Unconditional => name \in NullableFields(site, site.query.table)
            /\ \A guard \in ToSet(a.row) \cup {f.filter : f \in a.fields}:
                ParameterNames(guard) \cap {c.name : c \in site.contexts} \subseteq a.context
=============================================================================
