---------------------------- MODULE FilterMeaning ----------------------------
(***************************************************************************)
(* What a where clause means, stated over rows instead of aliases and      *)
(* without a plan: which rows it keeps when every row a policy hides is    *)
(* missing, every column a policy denies is null, and every atom whose     *)
(* nullable input is null is left out.  Filters is checked against it.     *)
(***************************************************************************)
EXTENDS Filters

\* A place in the data: a row and its table.
At(row, table) == [row |-> row, table |-> table]

\* A stack of places: the row the clause is about, the one a comparison's right side
\* starts from, the enclosing one and the root.
Places(current, source, parent, root) ==
    [current |-> current, predicate_source |-> source, parent |-> parent, root |-> root]

Visible(site, table) ==
    {row \in site.db[table]: \A rule \in site.pol[table].rows: RuleHolds(rule, row) = TRUE}

Denied(site, place, target) ==
    LET fields == site.pol[place.table].fields IN
    target \in DOMAIN fields /\ RuleHolds(fields[target], place.row) # TRUE

Field(site, place, col) == IF Denied(site, place, col) THEN NULL ELSE place.row[col]

Reached(site, place, relation) ==
    IF Denied(site, place, relation) THEN {}
    ELSE {At(row, Relations[relation].to) :
            row \in {r \in Visible(site, Relations[relation].to):
                        \A pair \in Relations[relation].on:
                            Compare3("==", r[pair[2]], place.row[pair[1]]) = TRUE}}

RECURSIVE Along(_, _, _)
Along(site, places, rels) ==
    IF rels = <<>> THEN places
    ELSE Along(site, UNION {Reached(site, place, Head(rels)) : place \in places}, Tail(rels))

\* The value of an operand whose path, if it is one, has a single segment.
RECURSIVE Operand(_, _, _)
Operand(site, p, e) ==
    CASE IsPath(e) -> Field(site, p[e.anchor], e.col)
      [] IsVariable(e) -> site.bind[e.name].value
      [] e.k = "literal" -> e.value
      [] e.k = "aggregate" ->
            AggregateOf(e.function, [place \in Reached(site, p.current, e.relation) |->
                                        IF e.operand = "none" THEN 1 ELSE Field(site, place, e.operand)])

\* An input that removes the atoms it appears in.
Omits(site, e) ==
    IsVariable(e) /\ site.bind[e.name].value = NULL
        /\ (site.bind[e.name].nullable \/ ~site.bind[e.name].public)

\* The atom at the end of a path: it holds for some row the path reaches.
OverPath(site, p, rels, atom(_)) ==
    IF rels = <<>> THEN atom(p.current)
    ELSE \E place \in Along(site, {p.current}, rels): atom(place) = TRUE

IsNullTest(site, place, col, negated) ==
    IF Denied(site, place, col) THEN FALSE ELSE (place.row[col] = NULL) # negated

\* The right side of a comparison starts from the row the predicate is about.
FromSource(p) == [p EXCEPT !.current = p.predicate_source]

RECURSIVE Meaning(_, _, _)
Meaning(site, p, e) ==
    CASE e.k = "and" -> MeantBoth(Meaning(site, p, e.left), Meaning(site, p, e.right))
      [] e.k = "or" -> MeantEither(Meaning(site, p, e.left), Meaning(site, p, e.right))
      [] e.k = "not" -> MeantNot(Meaning(site, p, e.operand))
      [] e.k \in {"literal", "variable", "aggregate"} ->
            Meant(Omits(site, e), IF Omits(site, e) THEN TRUE ELSE Operand(site, p, e))
      [] e.k = "null_test" ->
            LET test(place) == IsNullTest(site, place, e.operand.col, e.negated)
            IN  Meant(FALSE, IF e.operand.anchor = "current" THEN OverPath(site, p, e.operand.rels, test)
                             ELSE test(p[e.operand.anchor]))
      [] e.k = "in" ->
            LET items == IF IsVariable(e.right) THEN site.bind[e.right.name].value
                         ELSE [i \in DOMAIN e.right.items |-> Operand(site, p, e.right.items[i])]
                test(place) == LET found == In3(Field(site, place, e.left.col), items)
                               IN  IF e.negated THEN Not3(found) ELSE found
            IN  IF Omits(site, e.right) THEN Meant(TRUE, TRUE)
                ELSE Meant(FALSE, OverPath(site, p, e.left.rels, test))
      [] e.k = "compare" ->
            LET op == OperatorOf(site, e.op)
                right == Operand(site, FromSource(p), e.right)
                test(place) ==
                    IF e.right = [k |-> "literal", value |-> NULL] /\ IsPath(e.left) /\ op \in {"==", "!="}
                    THEN IsNullTest(site, place, e.left.col, op = "!=")
                    ELSE Compare3(op, Field(site, place, e.left.col), right)
            IN  IF Omits(site, e.left) \/ Omits(site, e.right) THEN Meant(TRUE, TRUE)
                ELSE Meant(FALSE,
                        CASE IsPath(e.left) /\ e.left.anchor = "current" -> OverPath(site, p, e.left.rels, test)
                          [] IsPath(e.left) /\ e.left.anchor # "current" -> test(p[e.left.anchor])
                          [] OTHER -> Compare3(op, Operand(site, p, e.left), right))
      [] e.k = "exists" ->
            LET places == IF e.relation = "none" THEN {At(row, e.table) : row \in Visible(site, e.table)}
                          ELSE Reached(site, p.current, e.relation)
                keeps(place) ==
                    LET m == Meaning(site, Places(place, place, p.current, p.root), e.predicate[1])
                    IN  m.gone \/ m.truth = TRUE
            IN  Meant(FALSE, \E place \in places: e.predicate = <<>> \/ keeps(place))

\* What the planner has a place for.  The checks accept more: paths over relations that start
\* elsewhere than in the current row, or stand on the right of a comparison, lists as values,
\* and an operator variable beside an aggregate or null.  Such predicates are dropped, or
\* read another row, or see that a column was masked.
Follows(e) == IsPath(e) /\ e.rels # <<>>

RECURSIVE WithinReach(_)
WithinReach(e) ==
    CASE e.k = "not" -> WithinReach(e.operand)
      [] e.k \in {"and", "or"} -> WithinReach(e.left) /\ WithinReach(e.right)
      [] e.k = "null_test" -> Follows(e.operand) => e.operand.anchor = "current"
      [] e.k = "in" -> Follows(e.left) => e.left.anchor = "current"
      [] e.k = "compare" ->
            /\ Follows(e.left) => e.left.anchor = "current"
            /\ ~Follows(e.right) /\ "list" \notin {e.left.k, e.right.k}
            /\ \A side \in {e.left, e.right}: IsAggregate(side) \/ (IsLiteral(side) /\ side.value = NULL) => Concrete(e.op)
      [] e.k = "exists" -> \A i \in DOMAIN e.predicate: WithinReach(e.predicate[i])
      [] OTHER -> TRUE

Keeps(site, p, e) == LET m == Meaning(site, p, e) IN m.gone \/ m.truth = TRUE
=============================================================================
