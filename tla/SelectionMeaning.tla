-------------------------- MODULE SelectionMeaning --------------------------
(***************************************************************************)
(* What a query returns, stated over rows: no plan, no aliases, no joins.  *)
(* Every selection answers on its own for one row of its parent, so that   *)
(* no selection can change how often another one's rows are returned.      *)
(***************************************************************************)
EXTENDS FilterMeaning, Selections

\* Terms whose direction is null take no part.
MeantKeys(site, place, order) ==
    LET dir(o) == IF o.dir.k = "variable" THEN site.bind[o.dir.name].value ELSE o.dir.value
        kept == SelectSeq(order, LAMBDA o: dir(o) # NULL)
    IN  [i \in DOMAIN kept |-> Key(Field(site, place, kept[i].col), dir(kept[i]))]

Given(site, value) ==
    CASE value = <<>> -> NULL
      [] value # <<>> /\ value[1].k = "variable" -> site.bind[value[1].name].value
      [] OTHER -> value[1].value

Least(a, b) == CASE a = NULL -> b [] b = NULL -> a [] OTHER -> IF a < b THEN a ELSE b

\* The places a selection could select for the row at from (or for none).
Candidates(site, sel, from) ==
    IF sel.relation = "none" THEN {At(row, sel.table) : row \in Visible(site, sel.table)}
    ELSE Reached(site, from, sel.relation)

\* They in the order asked for, one page of them.
PageOf(site, sel, places) ==
    Slice(SortBy(places, [i \in DOMAIN places |-> MeantKeys(site, places[i], sel.order)]),
          IF AtMostOne(site, sel) THEN Given(site, sel.limit) ELSE Least(Given(site, sel.limit), site.cap),
          Given(site, sel.offset))

\* The places it selects, in order.
Selected(site, sel, from, root) ==
    LET at(place) == Places(place, place, IF from = NoRow THEN place ELSE from, IF root = NoRow THEN place ELSE root)
        kept == {place \in Candidates(site, sel, from): sel.where = <<>> \/ Keeps(site, at(place), sel.where[1])}
        placed(rows) == [i \in DOMAIN rows |-> At(rows[i], sel.table)]
        page(places) == IF sel.body.k = "aggregate" THEN places ELSE PageOf(site, sel, places)
    IN  page(placed(Stored({place.row : place \in kept})))

AggregateAnswer(site, places, body) ==
    LET fields(group) == [n \in {f.name : f \in ToSet(body.fields)} |->
            LET f == CHOOSE g \in ToSet(body.fields): g.name = n
            IN  AggregateOf(f.function, [place \in group |-> IF f.operand = "none" THEN 1 ELSE Field(site, place, f.operand)])]
        keys(place) == [n \in {k.name : k \in ToSet(body.keys)} |->
            Field(site, place, (CHOOSE k \in ToSet(body.keys): k.name = n).col)]
    IN  IF body.keys = <<>> THEN fields(places)
        ELSE SetToSeq({keys(place) @@ fields({p \in places: keys(p) = keys(place)}) : place \in places})

\* What a selection adds to the object of its parent.
RECURSIVE Answer(_, _, _, _)
RECURSIVE NamesOf(_)
NamesOf(items) ==
    UNION {CASE i.k = "column" -> {i.name}
             [] i.k = "spread" -> NamesOf(i.items)
             [] OTHER -> IF i.sel.flattened THEN IF i.sel.body.k = "rows" THEN NamesOf(i.sel.body.items)
                                                 ELSE {f.name : f \in ToSet(i.sel.body.fields)}
                         ELSE {i.sel.name} : i \in ToSet(items)}

RECURSIVE ItemsAnswer(_, _, _, _)
ItemsAnswer(site, place, root, items) ==
    LET part(i) ==
            CASE i.k = "column" -> [n \in {i.name} |-> Field(site, place, i.col)]
              [] i.k = "spread" -> ItemsAnswer(site, place, root, i.items)
              [] OTHER -> Answer(site, i.sel, place, root)
    IN  FoldLeft(LAMBDA object, i: object @@ part(i), [n \in {} |-> NULL], items)

Answer(site, sel, from, root) ==
    LET object(place) == ItemsAnswer(site, place, IF root = NoRow THEN place ELSE root, sel.body.items)
        rows(objects) == CASE ~AtMostOne(site, sel) -> objects
                           [] objects # <<>> -> objects[1]
                           [] OTHER -> NULL
        value(places) == IF sel.body.k = "aggregate" THEN AggregateAnswer(site, ToSet(places), sel.body)
                         ELSE rows([i \in DOMAIN places |-> object(places[i])])
        named(v) == CASE ~sel.flattened -> [n \in {sel.name} |-> v]
                      [] sel.flattened /\ v = NULL -> [n \in NamesOf(sel.body.items) |-> NULL]
                      [] OTHER -> v
    IN  named(value(Selected(site, sel, from, root)))

QueryAnswer(site, roots) ==
    FoldLeft(LAMBDA row, root: row @@ Answer(site, root, NoRow, NoRow), [n \in {} |-> NULL], roots)

-----------------------------------------------------------------------------
(* A value is of the shape that generated code expects *)

RECURSIVE HasShape(_, _)
HasShape(object, fields) ==
    /\ DOMAIN object = {f.name : f \in fields}
    /\ \A f \in fields:
            LET value == object[f.name] IN
            CASE value = NULL -> f.nullable
              [] f.kind = "object" -> HasShape(value, f.fields)
              [] f.kind = "array" -> \A i \in DOMAIN value: HasShape(value[i], f.fields)
              [] OTHER -> TRUE
=============================================================================
