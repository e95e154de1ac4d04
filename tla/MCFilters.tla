------------------------------ MODULE MCFilters ------------------------------
(***************************************************************************)
(* Small data, policies and clauses for Filters, on the relations of      *)
(* MCCompiler:posts reply to posts, notes are attached to posts.           *)
(***************************************************************************)
EXTENDS FilterMeaning

Row(id, fk, x) == [id |-> id, fk |-> fk, x |-> x]

Databases ==
    {[post |-> {Row(1, f1, x1), Row(2, f2, x2)}, note |-> {Row(1, n1, y1), Row(2, 1, y2)}] :
        f1 \in {2, NULL}, x1 \in {0, NULL}, f2 \in {1, 2}, x2 \in {0, 1},
        n1 \in {1, 2}, y1 \in {0, NULL}, y2 \in {1}}

Rule(col, op, value) == [col |-> col, op |-> op, value |-> value]
Policies(rows, fields) == [rows |-> rows, fields |-> fields]
Open == Policies({}, NoFields)
PolicySets ==
    {[post |-> Open, note |-> Open],
     [post |-> Policies({Rule("x", "==", 0)}, NoFields), note |-> Policies({Rule("x", "!=", 1)}, NoFields)],
     [post |-> Policies({}, [x |-> Rule("fk", "==", 2), notes |-> Rule("x", "==", 0)]),
      note |-> Policies({}, [x |-> Rule("fk", "==", 1)])]}

\* Inputs given and null, with an operator variable set either way.
Inputs ==
    {[bind |-> [a |-> Public(TRUE, v), b |-> Public(TRUE, w), l |-> Public(TRUE, l), n |-> Default(v)],
      operators |-> [o |-> op, s |-> "<"]] :
        <<v, w, l, op>> \in {<<0, NULL, <<0>>, "==">>, <<NULL, 1, NULL, "!=">>,
                             <<0, 1, <<1, NULL>>, "!=">>, <<NULL, NULL, <<>>, "==">>}}

\* What the operator variables may be set to.
Allowed == [o |-> {"==", "!="}, s |-> {"==", "<"}]

Path(anchor, rels, col) == [k |-> "path", anchor |-> anchor, rels |-> rels, col |-> col]
Here(col) == Path("current", <<>>, col)
Lit(value) == [k |-> "literal", value |-> value]
Var(name) == [k |-> "variable", name |-> name]
Compare(left, op, right) == [k |-> "compare", left |-> left, op |-> op, right |-> right]
List(items) == [k |-> "list", items |-> items]
In(left, right, negated) == [k |-> "in", left |-> left, right |-> right, negated |-> negated]
IsNullE(operand, negated) == [k |-> "null_test", operand |-> operand, negated |-> negated]
Not(operand) == [k |-> "not", operand |-> operand]
And(left, right) == [k |-> "and", left |-> left, right |-> right]
Or(left, right) == [k |-> "or", left |-> left, right |-> right]
Some(relation, predicate) ==
    [k |-> "exists", relation |-> relation, table |-> Relations[relation].to, predicate |-> predicate]
SomeOf(table, predicate) ==
    [k |-> "exists", relation |-> "none", table |-> table, predicate |-> predicate]
Aggregate(function, relation, operand) ==
    [k |-> "aggregate", function |-> function, relation |-> relation, operand |-> operand]

\* Atoms with an optional input, alone and beside others.
Optionals ==
    {Compare(Here("x"), "==", Var("a")), Compare(Lit(0), "==", Var("a")), Compare(Var("a"), "==", Var("b")),
     Compare(Here("x"), "!=", Var("n")), In(Here("x"), Var("l"), FALSE), In(Here("x"), Var("l"), TRUE),
     Compare(Here("x"), "o", Var("b")), Compare(Here("x"), "s", Var("a"))}
Fixed ==
    {IsNullE(Here("x"), FALSE), IsNullE(Here("x"), TRUE), Compare(Here("x"), "==", Here("fk")),
     In(Here("x"), List(<<Lit(0), Lit(NULL)>>), TRUE), In(Here("x"), List(<<>>), TRUE)}

\* Clauses that are no predicates of a post, or whose parts do not fit.
Misfits ==
    {Here("x"), Lit(0), Compare(Here("y"), "==", Lit(0)), Compare(Path("parent", <<>>, "x"), "==", Lit(0)),
     Compare(Path("current", <<"post">>, "x"), "==", Lit(0)), Compare(Lit(NULL), "<", Here("x")),
     Compare(Here("x"), "s", Lit(NULL)), And(Here("x"), IsNullE(Here("x"), FALSE)), IsNullE(Var("a"), FALSE),
     In(Here("x"), List(<<Lit(0), Here("fk")>>), TRUE), In(Var("a"), Var("l"), FALSE),
     Compare(Path("current", <<"card">>, "x"), "==", Lit(0)), In(Path("current", <<"card">>, "x"), List(<<Lit(0)>>), TRUE),
     Some("up", <<>>), Some("card", <<>>), Some("notes", <<Here("x")>>), SomeOf("other", <<>>),
     Some("notes", <<Some("post", <<Compare(Here("x"), "==", Path("parent", <<>>, "x"))>>)>>),
     Aggregate("count", "notes", "none"), Not(Aggregate("exists", "notes", "x")),
     Compare(Aggregate("count", "up", "none"), "<", Lit(2)), Compare(Aggregate("min", "notes", "none"), "==", Lit(1)),
     Compare(Aggregate("exists", "notes", "none"), "<", Var("a")), Compare(Aggregate("count", "notes", "none"), "o", Lit(2)),
     Compare(Aggregate("count", "notes", "none"), "==", Path("current", <<"up">>, "x"))}

\* Clauses the checks accept and the planner has no place for.
Strays ==
    {Compare(Path("root", <<"up">>, "x"), "==", Lit(1)), Compare(Here("x"), "==", Path("current", <<"up">>, "x")),
     Compare(Here("x"), "==", List(<<Lit(1)>>)), Compare(Path("root", <<"up">>, "x"), "==", Var("n")),
     Compare(Here("x"), "o", Aggregate("count", "notes", "none")), IsNullE(Path("root", <<"up">>, "x"), FALSE),
     And(Compare(Here("x"), "==", Lit(0)), Compare(Lit(1), "==", Path("current", <<"up">>, "x")))}

\* Clauses on a post.
PostClauses ==
    Misfits \cup Strays \cup {Some("notes", <<e>>) : e \in Strays} \cup Fixed \cup Optionals
    \cup {Not(e) : e \in Optionals}
    \cup {And(e, f) : e \in Optionals, f \in Fixed \cup Optionals}
    \cup {Or(e, f) : e \in Fixed \cup Optionals, f \in Optionals}
    \cup {Compare(Path("current", <<"up">>, "x"), op, r) :
            op \in {"==", "!="}, r \in {Here("x"), Var("a"), Var("n"), Lit(NULL)}}
    \cup {IsNullE(Path("current", <<"notes">>, "x"), negated) : negated \in BOOLEAN}
    \cup {In(Path("current", <<"notes">>, "x"), Var("l"), FALSE)}
    \cup {Not(Compare(Path("current", <<"notes">>, "x"), "==", Var("b")))}
    \cup {Compare(Aggregate(f, r, c), "==", v) : f \in {"count", "min"}, r \in {"replies", "notes"},
            c \in {"x"}, v \in {Var("a"), Here("x")}}
    \cup {Compare(Aggregate("count", r, "none"), "<", Lit(2)) : r \in {"replies", "notes"}}
    \cup {Not(Aggregate("exists", r, "none")) : r \in {"replies", "notes"}}
    \cup {Some("notes", <<>>), SomeOf("note", <<Compare(Here("fk"), "==", Path("parent", <<>>, "id"))>>)}
    \cup {Some("notes", <<Or(Compare(Here("x"), "==", Var("a")), Compare(Here("x"), "==", Path(p, <<>>, "x")))>>) :
            p \in {"parent", "root"}}
    \cup {Some("notes", <<Compare(Path("current", <<"post">>, "x"), "==", Here("x"))>>),
          Some("replies", <<Compare(Path("current", <<"notes">>, "x"), "==", Path("parent", <<>>, "x"))>>),
          Some("replies", <<Some("notes", <<Compare(Here("x"), "==", Path("parent", <<>>, "x"))>>)>>)}
    \cup {Compare(Here("x"), op, Lit(NULL)) : op \in {"==", "!=", "o"}}

\* Data, policies and inputs.
FilterSites ==
    {[db |-> db, pol |-> pol, bind |-> given.bind, operators |-> given.operators] :
        db \in Databases, pol \in PolicySets, given \in Inputs}

\* The posts a root selection with this clause keeps, none when the clause is refused, and
\* those it is meant to keep.
Kept(site, clause) ==
    LET filter == PlanWhere(site.bind, <<clause>>)
        view == Readable(site, <<"select">>, "post")
        env(row) == [a \in {<<"select">>} |-> row]
        passes(row) == filter # <<>> => FilterExpr(site, env(row), Scope(view, view, view, NoRow), filter[1]) = TRUE
    IN  IF AcceptedWhere(Allowed, ClauseContext("post", "post"), clause)
        THEN <<{row \in Visible(site, "post"): passes(row)}>> ELSE <<>>

MeantToKeep(site, clause) ==
    LET at(row) == At(row, "post") IN
    {row \in Visible(site, "post"): Keeps(site, Places(at(row), at(row), at(row), at(row)), clause)}
=============================================================================
