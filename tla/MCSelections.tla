---------------------------- MODULE MCSelections ----------------------------
(***************************************************************************)
(* Small catalogs, data and queries for Selections.                        *)
(***************************************************************************)
EXTENDS SelectionMeaning

Row(id, fk, x) == [id |-> id, fk |-> fk, x |-> x]
Databases ==
    {[post |-> {Row(1, NULL, 1), Row(2, 1, x), Row(3, 1, 1)}, note |-> notes, card |-> {Row(1, 2, 0)}] :
        x \in {0, NULL}, notes \in {{}, {Row(1, 1, 0), Row(2, 1, NULL), Row(3, 2, 0)}}}

Rule(col, op, value) == [col |-> col, op |-> op, value |-> value]
Policies(rows, fields) == [rows |-> rows, fields |-> fields]
Unguarded == Policies({}, NoFields)
PolicySets ==
    {[post |-> Unguarded, note |-> Unguarded, card |-> Unguarded],
     [post |-> Policies({Rule("x", "==", 1)}, NoFields), note |-> Policies({Rule("x", "==", 0)}, NoFields), card |-> Unguarded],
     [post |-> Policies({}, [x |-> Rule("fk", "==", 1), notes |-> Rule("fk", "==", 1), up |-> Rule("id", "==", 2),
                             card |-> Rule("id", "==", 1)]),
      note |-> Policies({}, [fk |-> Rule("x", "==", 0)]), card |-> Unguarded]}

\* An input v, required and optional, a direction and a limit.
Inputs ==
    {[bind |-> [v |-> Public(FALSE, 1), w |-> Public(TRUE, w), d |-> Public(FALSE, d), e |-> Public(TRUE, e),
                g |-> Default(e), l |-> Public(TRUE, l), z |-> Default(w)],
      operators |-> [o |-> "==", q |-> "!="], allowed |-> [o |-> {"=="}, q |-> {"==", "!="}]] :
        <<w, d, e, l>> \in {<<1, "asc", "desc", 1>>, <<NULL, "desc", NULL, NULL>>, <<2, "desc", "asc", 0>>}}
Sites ==
    {[db |-> db, pol |-> pol, bind |-> given.bind, operators |-> given.operators, allowed |-> given.allowed, cap |-> cap] :
        cap \in {NULL, 2}, db \in Databases, pol \in PolicySets, given \in Inputs}

-----------------------------------------------------------------------------
(* Selections *)

Path(rels, col) == [k |-> "path", anchor |-> "current", rels |-> rels, col |-> col]
Here(col) == Path(<<>>, col)
Var(name) == [k |-> "variable", name |-> name]
Is(col, op, value) == [k |-> "compare", left |-> Here(col), op |-> op, right |-> value]
Both(left, right) == [k |-> "and", left |-> left, right |-> right]
Either(left, right) == [k |-> "or", left |-> left, right |-> right]

Items(items) == [k |-> "rows", items |-> items]
Aggregate(keys, fields) == [k |-> "aggregate", keys |-> keys, fields |-> fields]
Col(col) == [k |-> "column", name |-> col, col |-> col]
Nested(sel) == [k |-> "relation", sel |-> sel]
Spread(table, items) == [k |-> "spread", table |-> table, items |-> items]
Aggregated(function, operand, name) == [function |-> function, operand |-> operand, name |-> name]

Sel(table, relation, body) ==
    [name |-> IF relation = "none" THEN table ELSE relation, table |-> table, relation |-> relation,
     where |-> <<>>, order |-> <<>>, limit |-> <<>>, offset |-> <<>>, flattened |-> FALSE, body |-> body]
Root(table, body) == Sel(table, "none", body)
Via(relation, body) == Sel(Relations[relation].to, relation, body)
Flat(sel) == [sel EXCEPT !.flattened = TRUE]
Where(sel, e) == [sel EXCEPT !.where = <<e>>]
Paged(sel, order, limit, offset) == [sel EXCEPT !.order = order, !.limit = limit, !.offset = offset]
Term(col, dir) == [col |-> col, dir |-> dir]

Ids == Items(<<Col("id"), Col("x")>>)
One(value) == Is("id", "==", value)

\* Filters around the proofs that a selection has one row.
Filtered ==
    {Where(Root("post", Ids), e) : e \in
        {One(Literal(2)), One(Var("v")), One(Var("w")), One(Var("z")), Is("id", "o", Var("v")), Is("id", "q", Var("v")),
         Either(One(Literal(1)), One(Literal(2))), Either(One(Literal(1)), Both(One(Literal(1)), Is("x", "==", Literal(0)))),
         Both(One(Var("v")), Is("x", "==", Var("w"))), Either(One(Literal(1)), Is("x", "==", Literal(1))),
         Is("x", "==", Literal(1)),
         [k |-> "not", operand |-> One(Literal(1))],
         [k |-> "compare", left |-> Path(<<"replies">>, "id"), op |-> "==", right |-> Literal(2)],
         [k |-> "exists", relation |-> "replies", table |-> "post", predicate |-> <<One(Literal(2))>>]}}
    \cup {Where(Root("note", Ids), e) : e \in
        {Both(Is("fk", "==", Literal(1)), Is("x", "==", Literal(0))), Is("fk", "==", Literal(1)),
         Both(Is("fk", "==", Literal(1)), Is("x", "==", Literal(NULL)))}}

Orders == {<<>>, <<Term("x", Literal("desc"))>>, <<Term("x", Var("d")), Term("id", Literal("desc"))>>,
           <<Term("x", Var("e")), Term("id", Var("g"))>>}
Numbers == {<<>>, <<Literal(1)>>, <<Literal(2)>>, <<Var("w")>>}
Pages ==
    {Paged(Root("post", Ids), order, limit, offset) : order \in Orders, limit \in Numbers \cup {<<Var("l")>>},
        offset \in {<<>>, <<Literal(1)>>, <<Var("w")>>}}

\* A query whose limit nothing but a variable sets, without order or offset: when
\* there is no cap either, LIMIT is applied to the one row of the aggregated array.
LimitedAlone(site, query) ==
    site.cap = NULL /\ query \in {<<Paged(Root("post", Ids), <<>>, <<Var(v)>>, <<>>)>> : v \in {"l", "w"}}

\* Relations of every cardinality, plain, filtered, paged and flattened.
Bodies ==
    {Items(<<Col("id"), Nested(sel)>>) : sel \in
        {Via("up", Ids), Via("card", Ids), Via("replies", Ids), Via("notes", Ids),
         Where(Via("up", Ids), Is("x", "==", Literal(1))), Where(Via("notes", Ids), Is("x", "==", Var("w"))),
         Where(Via("notes", Ids), One(Var("v"))),
         Paged(Via("notes", Ids), <<Term("x", Literal("desc"))>>, <<Literal(1)>>, <<>>),
         Paged(Via("replies", Ids), <<Term("id", Literal("desc"))>>, <<Literal(2)>>, <<Literal(1)>>),
         Paged(Via("up", Ids), <<>>, <<Var("l")>>, <<>>),
         Via("up", Items(<<Col("x"), Nested(Via("notes", Items(<<Nested(Via("post", Ids))>>)))>>)),
         Via("replies", Items(<<Nested(Where(Via("notes", Ids), [k |-> "compare", left |-> Here("x"), op |-> "==",
              right |-> [k |-> "path", anchor |-> "root", rels |-> <<>>, col |-> "x"]]))>>)),
         Via("notes", Aggregate(<<>>, <<Aggregated("count", "none", "count"), Aggregated("min", "x", "least")>>)),
         Via("notes", Aggregate(<<[name |-> "fk", col |-> "fk"]>>, <<Aggregated("count", "x", "n")>>))}}
    \cup {Items(<<Nested(Flat(Via("up", Items(<<Col("x")>>)))), Nested(Flat(Via("up", Items(<<Col("id")>>))))>>),
          Items(<<Spread("post", <<Col("id"), Nested(Flat(Via("card", Items(<<Col("x"), Nested(Flat(Via("owner", Items(<<Col("fk")>>))))>>))))>>)>>),
          Items(<<Nested(Flat(Via("notes", Aggregate(<<>>, <<Aggregated("exists", "none", "exists"),
                                                            Aggregated("min", "id", "least")>>)))), Col("id")>>)}

\* The post of a note, which its foreign key requires.
Required ==
    {Via("post", Ids), Where(Via("post", Ids), Is("x", "==", Literal(1))),
     Paged(Via("post", Ids), <<>>, <<>>, <<Literal(1)>>), Paged(Via("post", Ids), <<>>, <<Var("l")>>, <<>>)}

\* Bodies of a post that the checks refuse: names met twice, several rows for the fields of
\* one, names the catalog does not have, fragments of other tables, clauses that do not fit.
Unfit ==
    {Items(<<Col("id"), Col("id")>>), Items(<<Col("id"), Nested(Flat(Via("up", Ids)))>>), Items(<<Nested(Flat(Via("notes", Ids)))>>),
     Items(<<Col("id"), Spread("post", <<Spread("post", <<Nested(Flat(Via("card", Ids)))>>)>>)>>),
     Items(<<Nested(Via("up", Ids)), Nested(Where(Via("up", Ids), One(Literal(1))))>>),
     Items(<<Nested(Via("up", Items(<<Col("x"), Nested(Flat(Via("card", Items(<<Col("x")>>))))>>)))>>),
     Items(<<Col("y")>>), Items(<<Nested(Via("post", Ids))>>), Items(<<Spread("note", <<Col("id")>>)>>),
     Items(<<Nested(Paged(Via("notes", Ids), <<Term("y", Literal("asc"))>>, <<>>, <<>>))>>),
     Items(<<Nested(Paged(Via("notes", Ids), <<>>, <<Literal(NULL)>>, <<>>))>>),
     Items(<<Nested(Where(Via("notes", Ids), Is("x", "==", [Here("x") EXCEPT !.anchor = "parent"])))>>),
     Items(<<Nested(Via("notes", Aggregate(<<>>, <<Aggregated("min", "none", "least")>>)))>>),
     Items(<<Nested(Via("up", Aggregate(<<>>, <<Aggregated("count", "none", "n")>>)))>>)}

Queries ==
    {<<sel>> : sel \in Filtered \cup Pages \cup {Root("post", body) : body \in Unfit}}
    \cup {<<Root("post", Ids), Flat(Where(Root("note", Items(<<Col("id")>>)), One(Var("v"))))>>,
          <<Root("post", Ids), Where(Root("post", Ids), One(Var("v")))>>, <<Flat(Root("post", Ids))>>, <<Root("other", Ids)>>}
    \cup {<<Root("note", Items(<<Nested(sel)>>))>> : sel \in Required \cup {Flat(sel) : sel \in Required}}
    \cup {<<Root("post", body)>> : body \in Bodies}
    \cup {<<Where(Flat(Root("post", body)), One(Var("v")))>> : body \in Bodies}
    \cup {<<Root("note", Items(<<Nested(Via("post", Ids)), Nested(Flat(Via("post", Items(<<Col("x")>>))))>>)),
            Flat(Root("post", Aggregate(<<>>, <<Aggregated("count", "none", "count")>>)))>>}
    \cup {<<Root("post", Aggregate(<<[name |-> "x", col |-> "x"]>>, <<Aggregated("count", "none", "n"), Aggregated("min", "id", "least")>>)),
            Where([Root("post", Ids) EXCEPT !.name = "first"], One(Literal(7)))>>}

\* What becomes of a query, none when the checks refuse it.
Run(site, roots) ==
    LET plans == [i \in DOMAIN roots |-> Plan(site, roots[i])]
    IN  IF AcceptedQuery(site, roots)
        THEN <<[rows |-> CombineRootQueries([i \in DOMAIN plans |-> GenerateRootQuery(site, plans[i])]),
                shape |-> ResultShape(site, plans)]>>
        ELSE <<>>
=============================================================================
