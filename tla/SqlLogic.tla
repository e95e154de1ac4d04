------------------------------ MODULE SqlLogic ------------------------------
(***************************************************************************)
(* PostgreSQL's three-valued logic, and what postgres.rs builds on it so   *)
(* that a predicate whose optional input is null takes no part in a filter *)
(* (ConditionalFilter, combine_conditional).  A conditional filter here is *)
(* what its two SQL expressions evaluate to on one row: guarded says       *)
(* whether there is a presence expression at all, present is its value.    *)
(***************************************************************************)
CONSTANT NULL

ASSUME NullIsNoTruth == NULL \notin BOOLEAN

Truth == BOOLEAN \cup {NULL}

And3(a, b) ==
    CASE a = FALSE \/ b = FALSE -> FALSE
      [] a = TRUE /\ b = TRUE -> TRUE
      [] OTHER -> NULL

Or3(a, b) ==
    CASE a = TRUE \/ b = TRUE -> TRUE
      [] a = FALSE /\ b = FALSE -> FALSE
      [] OTHER -> NULL

Not3(a) == IF a = NULL THEN NULL ELSE ~a

Conditionals == [guarded: BOOLEAN, present: BOOLEAN, value: Truth]

\* What is rendered without a presence guard.
Mandatory(value) == [guarded |-> FALSE, present |-> TRUE, value |-> value]

\* FilterExpr::Absent.
Absent == [guarded |-> TRUE, present |-> FALSE, value |-> TRUE]

\* FilterExpr::Optional: the parameter is not null, and the operand is present.
Guarded(given, inner) ==
    [guarded |-> TRUE,
     present |-> given /\ (inner.guarded => inner.present),
     value |-> inner.value]

Negated(operand) == [operand EXCEPT !.value = Not3(@)]

ValueOrAbsent(value, present) == Or3(value, Not3(present))

ValueIfPresent(value, present) == And3(value, present)

\* One side of a conjunction, or of a disjunction, as combine_conditional writes it.
Conjunct(c) == IF c.guarded THEN ValueOrAbsent(c.value, c.present) ELSE c.value
Disjunct(c) == IF c.guarded THEN ValueIfPresent(c.value, c.present) ELSE c.value

CombineConditional(left, and, right) ==
    LET both == left.guarded /\ right.guarded IN
    [guarded |-> both,
     present |-> both => left.present \/ right.present,
     value |-> IF and THEN And3(Conjunct(left), Conjunct(right))
                      ELSE Or3(Disjunct(left), Disjunct(right))]

\* Where the operands of a filter are, if it is made of conditional filters.
Sides(f) ==
    CASE f.k \in {"optional", "not"} -> {"operand"}
      [] f.k = "binary" /\ f.op \in {"and", "or"} -> {"left", "right"}
      [] OTHER -> {}

\* conditional_filter_expr, from what it makes of the operands (inner): given says that the
\* parameter of an optional filter is not null, value is what any other filter evaluates to.
ConditionalOf(f, given, inner, value) ==
    CASE f.k = "absent" -> Absent
      [] f.k = "optional" -> Guarded(given, inner["operand"])
      [] f.k = "binary" /\ f.op \in {"and", "or"} -> CombineConditional(inner["left"], f.op = "and", inner["right"])
      [] f.k = "not" -> Negated(inner["operand"])
      [] OTHER -> Mandatory(value)

\* filter_expr: a filter that is absent keeps every row.
Closed(c) == Conjunct(c)

-----------------------------------------------------------------------------
\* What all this is for: a filter is gone, or has a truth value.

Gone(c) == c.guarded /\ ~c.present

\* The filter [gone, truth] that two operands make, one of which may be gone.
Meant(gone, truth) == [gone |-> gone, truth |-> truth]
MeantNot(m) == Meant(m.gone, Not3(m.truth))
MeantBoth(m, n) ==
    CASE m.gone -> n
      [] n.gone /\ ~m.gone -> m
      [] OTHER -> Meant(FALSE, And3(m.truth, n.truth))
MeantEither(m, n) ==
    CASE m.gone -> n
      [] n.gone /\ ~m.gone -> m
      [] OTHER -> Meant(FALSE, Or3(m.truth, n.truth))

\* What a filter means, from what its operands mean.
MeantOf(f, given, inner, truth) ==
    CASE f.k = "absent" -> Meant(TRUE, TRUE)
      [] f.k = "optional" -> Meant(~given \/ inner["operand"].gone, inner["operand"].truth)
      [] f.k = "binary" /\ f.op = "and" -> MeantBoth(inner["left"], inner["right"])
      [] f.k = "binary" /\ f.op = "or" -> MeantEither(inner["left"], inner["right"])
      [] f.k = "not" -> MeantNot(inner["operand"])
      [] OTHER -> Meant(FALSE, truth)

\* c renders m.
Renders(c, m) == (Gone(c) <=> m.gone) /\ (~m.gone => c.value = m.truth)
=============================================================================
