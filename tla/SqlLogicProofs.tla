--------------------------- MODULE SqlLogicProofs ---------------------------
(***************************************************************************)
(* Proofs about SqlLogic: whatever two conditional filters render, the     *)
(* filter that combine_conditional makes of them renders their conjunction *)
(* or disjunction, where an operand that is gone takes no part.  With the  *)
(* constructors this is an induction step for every form a filter can      *)
(* have, and FiltersRender is the induction.                               *)
(***************************************************************************)
EXTENDS SqlLogic, WellFoundedInduction, TLAPS

Meaning == [gone: BOOLEAN, truth: Truth]

-----------------------------------------------------------------------------
(* Truth tables *)

LEMMA TruthCases == ASSUME NEW a \in Truth PROVE a = TRUE \/ a = FALSE \/ a = NULL
  BY Zenon DEF Truth

LEMMA NullIsNot == NULL # TRUE /\ NULL # FALSE
  BY NullIsNoTruth, Zenon

\* TRUE is neutral in a conjunction.
LEMMA TrueNeutral == ASSUME NEW a \in Truth PROVE And3(a, TRUE) = a /\ And3(TRUE, a) = a
<1>1. CASE a = TRUE  BY <1>1, Zenon DEF And3
<1>2. CASE a = FALSE  BY <1>2, Zenon DEF And3
<1>3. CASE a = NULL  BY <1>3, NullIsNot, Zenon DEF And3
<1> QED  BY <1>1, <1>2, <1>3, TruthCases, Zenon

\* FALSE is neutral in a disjunction.
LEMMA FalseNeutral == ASSUME NEW a \in Truth PROVE Or3(a, FALSE) = a /\ Or3(FALSE, a) = a
<1>1. CASE a = TRUE  BY <1>1, Zenon DEF Or3
<1>2. CASE a = FALSE  BY <1>2, Zenon DEF Or3
<1>3. CASE a = NULL  BY <1>3, NullIsNot, Zenon DEF Or3
<1> QED  BY <1>1, <1>2, <1>3, TruthCases, Zenon

LEMMA NotTrue == Not3(TRUE) = FALSE /\ Not3(FALSE) = TRUE
  BY NullIsNot, Zenon DEF Not3

LEMMA Closure ==
  ASSUME NEW a \in Truth, NEW b \in Truth
  PROVE  And3(a, b) \in Truth /\ Or3(a, b) \in Truth /\ Not3(a) \in Truth
<1>1. And3(a, b) \in Truth
  <2>1. CASE a = FALSE \/ b = FALSE  BY <2>1, Zenon DEF And3, Truth
  <2>2. CASE ~(a = FALSE \/ b = FALSE) /\ a = TRUE /\ b = TRUE  BY <2>2, Zenon DEF And3, Truth
  <2>3. CASE ~(a = FALSE \/ b = FALSE) /\ ~(a = TRUE /\ b = TRUE)  BY <2>3, Zenon DEF And3, Truth
  <2> QED  BY <2>1, <2>2, <2>3, Zenon
<1>2. Or3(a, b) \in Truth
  <2>1. CASE a = TRUE \/ b = TRUE  BY <2>1, Zenon DEF Or3, Truth
  <2>2. CASE ~(a = TRUE \/ b = TRUE) /\ a = FALSE /\ b = FALSE  BY <2>2, Zenon DEF Or3, Truth
  <2>3. CASE ~(a = TRUE \/ b = TRUE) /\ ~(a = FALSE /\ b = FALSE)  BY <2>3, Zenon DEF Or3, Truth
  <2> QED  BY <2>1, <2>2, <2>3, Zenon
<1>3. Not3(a) \in Truth
  <2>1. CASE a = TRUE  BY <2>1, NotTrue, Zenon DEF Truth
  <2>2. CASE a = FALSE  BY <2>2, NotTrue, Zenon DEF Truth
  <2>3. CASE a = NULL  BY <2>3, Zenon DEF Not3, Truth
  <2> QED  BY <2>1, <2>2, <2>3, TruthCases, Zenon
<1> QED  BY <1>1, <1>2, <1>3, Zenon

-----------------------------------------------------------------------------
(* The fields of conditionals *)

LEMMA ConditionalFields ==
  ASSUME NEW c \in Conditionals
  PROVE  c.guarded \in BOOLEAN /\ c.present \in BOOLEAN /\ c.value \in Truth
  BY SMT DEF Conditionals

LEMMA Dominant ==
  ASSUME NEW a PROVE Or3(a, TRUE) = TRUE /\ And3(a, FALSE) = FALSE
  BY Zenon DEF Or3, And3

\* One side of a conjunction: TRUE when its operand is gone, else its truth.
LEMMA ConjunctRenders ==
  ASSUME NEW c \in Conditionals, NEW m \in Meaning, Renders(c, m)
  PROVE  Conjunct(c) = IF m.gone THEN TRUE ELSE m.truth
<1>1. CASE c.guarded /\ ~c.present
  <2>1. m.gone  BY <1>1, Zenon DEF Renders, Gone
  <2>2. c.present = FALSE  BY <1>1, ConditionalFields, Zenon
  <2>3. Conjunct(c) = TRUE
    BY <1>1, <2>2, NotTrue, Dominant, Zenon DEF Conjunct, ValueOrAbsent
  <2> QED  BY <2>1, <2>3, Zenon
<1>2. CASE c.guarded /\ c.present
  <2>1. ~m.gone /\ c.value = m.truth  BY <1>2, Zenon DEF Renders, Gone
  <2>2. c.present = TRUE  BY <1>2, ConditionalFields, Zenon
  <2>3. Conjunct(c) = c.value
    BY <1>2, <2>2, NotTrue, FalseNeutral, ConditionalFields, Zenon DEF Conjunct, ValueOrAbsent
  <2> QED  BY <2>1, <2>3, Zenon
<1>3. CASE ~c.guarded
  BY <1>3, Zenon DEF Renders, Gone, Conjunct
<1> QED  BY <1>1, <1>2, <1>3, Zenon

\* One side of a disjunction: FALSE when its operand is gone, else its truth.
LEMMA DisjunctRenders ==
  ASSUME NEW c \in Conditionals, NEW m \in Meaning, Renders(c, m)
  PROVE  Disjunct(c) = IF m.gone THEN FALSE ELSE m.truth
<1>1. CASE c.guarded /\ ~c.present
  <2>1. m.gone  BY <1>1, Zenon DEF Renders, Gone
  <2>2. c.present = FALSE  BY <1>1, ConditionalFields, Zenon
  <2>3. Disjunct(c) = FALSE
    BY <1>1, <2>2, Dominant, Zenon DEF Disjunct, ValueIfPresent
  <2> QED  BY <2>1, <2>3, Zenon
<1>2. CASE c.guarded /\ c.present
  <2>1. ~m.gone /\ c.value = m.truth  BY <1>2, Zenon DEF Renders, Gone
  <2>2. c.present = TRUE  BY <1>2, ConditionalFields, Zenon
  <2>3. Disjunct(c) = c.value
    BY <1>2, <2>2, TrueNeutral, ConditionalFields, Zenon DEF Disjunct, ValueIfPresent
  <2> QED  BY <2>1, <2>3, Zenon
<1>3. CASE ~c.guarded
  BY <1>3, Zenon DEF Renders, Gone, Disjunct
<1> QED  BY <1>1, <1>2, <1>3, Zenon

\* A combination is gone when both of its operands are.
LEMMA CombinationGone ==
  ASSUME NEW left \in Conditionals, NEW right \in Conditionals, NEW and \in BOOLEAN
  PROVE  Gone(CombineConditional(left, and, right)) <=> Gone(left) /\ Gone(right)
<1>1. /\ CombineConditional(left, and, right).guarded = (left.guarded /\ right.guarded)
      /\ CombineConditional(left, and, right).present
            = (left.guarded /\ right.guarded => left.present \/ right.present)
  BY SMT DEF CombineConditional
<1> QED  BY <1>1, Zenon DEF Gone

-----------------------------------------------------------------------------
(* combine_conditional *)

\* combine_conditional keeps the meaning of a conjunction: a conjunct whose
\* optional input is null takes no part, and what is left is the other one.
THEOREM ConjunctionRenders ==
  ASSUME NEW left \in Conditionals, NEW right \in Conditionals,
         NEW m \in Meaning, NEW n \in Meaning, Renders(left, m), Renders(right, n)
  PROVE  Renders(CombineConditional(left, TRUE, right), MeantBoth(m, n))
<1> DEFINE c == CombineConditional(left, TRUE, right)
<1> SUFFICES Renders(c, MeantBoth(m, n))
  OBVIOUS
<1>1. Gone(c) <=> m.gone /\ n.gone
  BY CombinationGone, Zenon DEF Renders
<1>2. c.value = And3(Conjunct(left), Conjunct(right))
  BY SMT DEF CombineConditional
<1>3. m.truth \in Truth /\ n.truth \in Truth /\ m.gone \in BOOLEAN /\ n.gone \in BOOLEAN
  BY SMT DEF Meaning
<1> HIDE DEF c
<1>4. CASE m.gone
  <2>1. MeantBoth(m, n) = n  BY <1>4, Zenon DEF MeantBoth
  <2>2. ASSUME ~n.gone PROVE c.value = n.truth
    BY <1>2, <1>3, <1>4, <2>2, ConjunctRenders, TrueNeutral, Zenon
  <2> QED  BY <1>1, <1>4, <2>1, <2>2, Zenon DEF Renders
<1>5. CASE ~m.gone /\ n.gone
  <2>1. MeantBoth(m, n) = m  BY <1>5, Zenon DEF MeantBoth
  <2>2. c.value = m.truth
    BY <1>2, <1>3, <1>5, ConjunctRenders, TrueNeutral, Zenon
  <2> QED  BY <1>1, <1>5, <2>1, <2>2, Zenon DEF Renders
<1>6. CASE ~m.gone /\ ~n.gone
  <2>1. MeantBoth(m, n) = Meant(FALSE, And3(m.truth, n.truth))  BY <1>6, Zenon DEF MeantBoth
  <2>2. MeantBoth(m, n).gone = FALSE /\ MeantBoth(m, n).truth = And3(m.truth, n.truth)
    BY <2>1, SMT DEF Meant
  <2>3. c.value = And3(m.truth, n.truth)
    BY <1>2, <1>6, ConjunctRenders, Zenon
  <2> QED  BY <1>1, <1>6, <2>2, <2>3, Zenon DEF Renders
<1> QED  BY <1>4, <1>5, <1>6, Zenon

\* The same of a disjunction.
THEOREM DisjunctionRenders ==
  ASSUME NEW left \in Conditionals, NEW right \in Conditionals,
         NEW m \in Meaning, NEW n \in Meaning, Renders(left, m), Renders(right, n)
  PROVE  Renders(CombineConditional(left, FALSE, right), MeantEither(m, n))
<1> DEFINE c == CombineConditional(left, FALSE, right)
<1> SUFFICES Renders(c, MeantEither(m, n))
  OBVIOUS
<1>1. Gone(c) <=> m.gone /\ n.gone
  BY CombinationGone, Zenon DEF Renders
<1>2. c.value = Or3(Disjunct(left), Disjunct(right))
  BY SMT DEF CombineConditional
<1>3. m.truth \in Truth /\ n.truth \in Truth /\ m.gone \in BOOLEAN /\ n.gone \in BOOLEAN
  BY SMT DEF Meaning
<1> HIDE DEF c
<1>4. CASE m.gone
  <2>1. MeantEither(m, n) = n  BY <1>4, Zenon DEF MeantEither
  <2>2. ASSUME ~n.gone PROVE c.value = n.truth
    BY <1>2, <1>3, <1>4, <2>2, DisjunctRenders, FalseNeutral, Zenon
  <2> QED  BY <1>1, <1>4, <2>1, <2>2, Zenon DEF Renders
<1>5. CASE ~m.gone /\ n.gone
  <2>1. MeantEither(m, n) = m  BY <1>5, Zenon DEF MeantEither
  <2>2. c.value = m.truth
    BY <1>2, <1>3, <1>5, DisjunctRenders, FalseNeutral, Zenon
  <2> QED  BY <1>1, <1>5, <2>1, <2>2, Zenon DEF Renders
<1>6. CASE ~m.gone /\ ~n.gone
  <2>1. MeantEither(m, n) = Meant(FALSE, Or3(m.truth, n.truth))  BY <1>6, Zenon DEF MeantEither
  <2>2. MeantEither(m, n).gone = FALSE /\ MeantEither(m, n).truth = Or3(m.truth, n.truth)
    BY <2>1, SMT DEF Meant
  <2>3. c.value = Or3(m.truth, n.truth)
    BY <1>2, <1>6, DisjunctRenders, Zenon
  <2> QED  BY <1>1, <1>6, <2>2, <2>3, Zenon DEF Renders
<1> QED  BY <1>4, <1>5, <1>6, Zenon

-----------------------------------------------------------------------------
(* The other forms of a filter *)

\* What is rendered without a guard, an absent filter, one under an optional
\* parameter and a negated one have the meaning their variant of FilterExpr has.
THEOREM ConstructorsRender ==
  ASSUME NEW c \in Conditionals, NEW m \in Meaning, Renders(c, m),
         NEW v \in Truth, NEW given \in BOOLEAN
  PROVE  /\ Renders(Mandatory(v), Meant(FALSE, v))
         /\ Renders(Absent, Meant(TRUE, v))
         /\ Renders(Guarded(given, c), Meant(~given \/ m.gone, m.truth))
         /\ Renders(Negated(c), MeantNot(m))
<1>1. Renders(Mandatory(v), Meant(FALSE, v))
  <2>1. Mandatory(v).guarded = FALSE /\ Mandatory(v).value = v  BY SMT DEF Mandatory
  <2>2. Meant(FALSE, v).gone = FALSE /\ Meant(FALSE, v).truth = v  BY SMT DEF Meant
  <2> QED  BY <2>1, <2>2, Zenon DEF Renders, Gone
<1>2. Renders(Absent, Meant(TRUE, v))
  <2>1. Absent.guarded = TRUE /\ Absent.present = FALSE  BY SMT DEF Absent
  <2>2. Meant(TRUE, v).gone = TRUE  BY SMT DEF Meant
  <2> QED  BY <2>1, <2>2, Zenon DEF Renders, Gone
<1>3. Renders(Guarded(given, c), Meant(~given \/ m.gone, m.truth))
  <2>1. /\ Guarded(given, c).guarded = TRUE
        /\ Guarded(given, c).present = (given /\ (c.guarded => c.present))
        /\ Guarded(given, c).value = c.value
    BY SMT DEF Guarded
  <2>2. /\ Meant(~given \/ m.gone, m.truth).gone = (~given \/ m.gone)
        /\ Meant(~given \/ m.gone, m.truth).truth = m.truth
    BY SMT DEF Meant
  <2>3. Gone(Guarded(given, c)) <=> ~given \/ Gone(c)  BY <2>1, Zenon DEF Gone
  <2> QED  BY <2>1, <2>2, <2>3, Zenon DEF Renders
<1>4. Renders(Negated(c), MeantNot(m))
  <2>1. /\ Negated(c).guarded = c.guarded /\ Negated(c).present = c.present
        /\ Negated(c).value = Not3(c.value)
    BY SMT DEF Negated, Conditionals
  <2>2. MeantNot(m).gone = m.gone /\ MeantNot(m).truth = Not3(m.truth)
    BY SMT DEF MeantNot, Meant
  <2> QED  BY <2>1, <2>2, Zenon DEF Renders, Gone
<1> QED  BY <1>1, <1>2, <1>3, <1>4, Zenon

\* filter_expr: the closed filter is a condition of SQL, true for every row
\* when the filter is gone; so leaving out every optional input never hides one.
THEOREM ClosedRenders ==
  ASSUME NEW c \in Conditionals, NEW m \in Meaning, Renders(c, m)
  PROVE  Closed(c) \in Truth /\ Closed(c) = IF m.gone THEN TRUE ELSE m.truth
<1>1. Closed(c) = IF m.gone THEN TRUE ELSE m.truth
  BY ConjunctRenders, Zenon DEF Closed
<1>2. m.truth \in Truth  BY SMT DEF Meaning
<1> QED  BY <1>1, <1>2, Zenon DEF Truth
-----------------------------------------------------------------------------
(* Filters of any depth *)

\* A set of filters with the operands of each, which are smaller.
IsClosed(filters, size) ==
    \A f \in filters: \A side \in Sides(f): f[side] \in filters /\ size[f[side]] < size[f]

Inner(f, results) == [side \in Sides(f) |-> results[f[side]]]

LEMMA ConstructorsTyped ==
  ASSUME NEW c \in Conditionals, NEW m \in Meaning, NEW v \in Truth, NEW given \in BOOLEAN
  PROVE  /\ Mandatory(v) \in Conditionals /\ Absent \in Conditionals
         /\ Guarded(given, c) \in Conditionals /\ Negated(c) \in Conditionals
         /\ Meant(given, v) \in Meaning /\ Meant(~given \/ m.gone, m.truth) \in Meaning
         /\ MeantNot(m) \in Meaning
<1>1. TRUE \in Truth /\ FALSE \in Truth  BY DEF Truth
<1>2. c.guarded \in BOOLEAN /\ c.present \in BOOLEAN /\ c.value \in Truth  BY ConditionalFields
<1>3. m.gone \in BOOLEAN /\ m.truth \in Truth  BY SMT DEF Meaning
<1>4. Mandatory(v) \in Conditionals /\ Absent \in Conditionals
  <2>1. \A present \in BOOLEAN, guarded \in BOOLEAN, w \in Truth:
            [guarded |-> guarded, present |-> present, value |-> w] \in Conditionals
    BY SMT DEF Conditionals
  <2>2. TRUE \in BOOLEAN /\ FALSE \in BOOLEAN  OBVIOUS
  <2> QED  BY <1>1, <2>1, <2>2, Zenon DEF Mandatory, Absent
<1>5. Guarded(given, c) \in Conditionals
  <2>1. (given /\ (c.guarded => c.present)) \in BOOLEAN  OBVIOUS
  <2> QED  BY <1>2, <2>1, SMT DEF Guarded, Conditionals
<1>6. Negated(c) \in Conditionals
  <2>1. Not3(c.value) \in Truth  BY <1>2, Closure, Zenon
  <2>2. Negated(c) = [guarded |-> c.guarded, present |-> c.present, value |-> Not3(c.value)]
    BY SMT DEF Negated, Conditionals
  <2> QED  BY <1>2, <2>1, <2>2, SMT DEF Conditionals
<1>7. Meant(given, v) \in Meaning  BY SMT DEF Meant, Meaning
<1>8. Meant(~given \/ m.gone, m.truth) \in Meaning
  <2>1. (~given \/ m.gone) \in BOOLEAN  OBVIOUS
  <2> QED  BY <1>3, <2>1, SMT DEF Meant, Meaning
<1>9. MeantNot(m) \in Meaning
  <2>1. Not3(m.truth) \in Truth  BY <1>3, Closure, Zenon
  <2> QED  BY <1>3, <2>1, SMT DEF MeantNot, Meant, Meaning
<1> QED  BY <1>4, <1>5, <1>6, <1>7, <1>8, <1>9

LEMMA CombinationsTyped ==
  ASSUME NEW left \in Conditionals, NEW right \in Conditionals, NEW and \in BOOLEAN,
         NEW m \in Meaning, NEW n \in Meaning
  PROVE  /\ CombineConditional(left, and, right) \in Conditionals
         /\ MeantBoth(m, n) \in Meaning /\ MeantEither(m, n) \in Meaning
<1>1. \A c \in Conditionals: Conjunct(c) \in Truth /\ Disjunct(c) \in Truth
  <2> TAKE c \in Conditionals
  <2>1. c.value \in Truth  BY ConditionalFields
  <2>2. c.guarded => c.present \in Truth  BY ConditionalFields, Zenon DEF Truth
  <2> QED
    BY <2>1, <2>2, Closure, Zenon DEF Conjunct, Disjunct, ValueOrAbsent, ValueIfPresent
<1>2. CombineConditional(left, and, right) \in Conditionals
  <2> DEFINE value == IF and THEN And3(Conjunct(left), Conjunct(right)) ELSE Or3(Disjunct(left), Disjunct(right))
             guarded == left.guarded /\ right.guarded
             present == guarded => left.present \/ right.present
  <2>1. value \in Truth  BY <1>1, Closure, Zenon
  <2>2. guarded \in BOOLEAN /\ present \in BOOLEAN  OBVIOUS
  <2>3. CombineConditional(left, and, right) = [guarded |-> guarded, present |-> present, value |-> value]
    BY Zenon DEF CombineConditional
  <2> HIDE DEF value, guarded, present
  <2> QED  BY <2>1, <2>2, <2>3, SMT DEF Conditionals
<1>3. And3(m.truth, n.truth) \in Truth /\ Or3(m.truth, n.truth) \in Truth
  <2>1. m.truth \in Truth /\ n.truth \in Truth  BY SMT DEF Meaning
  <2> QED  BY <2>1, Closure, Zenon
<1>4. \A v \in Truth: Meant(FALSE, v) \in Meaning  BY SMT DEF Meant, Meaning
<1>5. MeantBoth(m, n) \in Meaning /\ MeantEither(m, n) \in Meaning
  <2>1. CASE m.gone  BY <2>1, Zenon DEF MeantBoth, MeantEither
  <2>2. CASE ~m.gone /\ n.gone  BY <2>2, Zenon DEF MeantBoth, MeantEither
  <2>3. CASE ~m.gone /\ ~n.gone
    BY <1>3, <1>4, <2>3, Zenon DEF MeantBoth, MeantEither
  <2> QED  BY <2>1, <2>2, <2>3, Zenon
<1> QED  BY <1>2, <1>5

\* What conditional_filter_expr makes of any form of a filter is right if what it made of
\* the operands is.
LEMMA EveryFormRenders ==
  ASSUME NEW f, NEW given \in BOOLEAN, NEW value \in Truth, NEW inner, NEW meant,
         \A side \in Sides(f):
            inner[side] \in Conditionals /\ meant[side] \in Meaning /\ Renders(inner[side], meant[side])
  PROVE  /\ ConditionalOf(f, given, inner, value) \in Conditionals
         /\ MeantOf(f, given, meant, value) \in Meaning
         /\ Renders(ConditionalOf(f, given, inner, value), MeantOf(f, given, meant, value))
<1> DEFINE Fine(c, m) == c \in Conditionals /\ m \in Meaning /\ Renders(c, m)
<1> SUFFICES Fine(ConditionalOf(f, given, inner, value), MeantOf(f, given, meant, value))
  OBVIOUS
<1>1. \A v \in Truth: Fine(Mandatory(v), Meant(FALSE, v))
  <2> TAKE v \in Truth
  <2>1. Mandatory(v) \in Conditionals /\ Meant(FALSE, v) \in Meaning
    BY SMT DEF Mandatory, Conditionals, Meant, Meaning
  <2>2. Mandatory(v).guarded = FALSE /\ Mandatory(v).value = v  BY SMT DEF Mandatory
  <2>3. Meant(FALSE, v).gone = FALSE /\ Meant(FALSE, v).truth = v  BY SMT DEF Meant
  <2> QED  BY <2>1, <2>2, <2>3, Zenon DEF Renders, Gone
<1>2. TRUE \in Truth  BY DEF Truth
<1>3. CASE f.k = "absent"
  <2>1. Fine(Mandatory(TRUE), Meant(FALSE, TRUE))  BY <1>1, <1>2
  <2>2. Fine(Absent, Meant(TRUE, TRUE))
    BY <1>2, <2>1, ConstructorsRender, ConstructorsTyped, Zenon
  <2>3. ConditionalOf(f, given, inner, value) = Absent  BY <1>3 DEF ConditionalOf
  <2>4. MeantOf(f, given, meant, value) = Meant(TRUE, TRUE)  BY <1>3 DEF MeantOf
  <2> QED  BY <2>2, <2>3, <2>4, Zenon
<1>4. CASE f.k \in {"optional", "not"}
  <2>1. "operand" \in Sides(f)  BY <1>4 DEF Sides
  <2> DEFINE c == inner["operand"]
             m == meant["operand"]
  <2>2. Fine(c, m)  BY <2>1
  <2>3. CASE f.k = "optional"
    <3>1. ConditionalOf(f, given, inner, value) = Guarded(given, c)  BY <2>3 DEF ConditionalOf
    <3>2. MeantOf(f, given, meant, value) = Meant(~given \/ m.gone, m.truth)  BY <2>3 DEF MeantOf
    <3> HIDE DEF c, m
    <3>3. Fine(Guarded(given, c), Meant(~given \/ m.gone, m.truth))
      BY <1>2, <2>2, ConstructorsRender, ConstructorsTyped, Zenon
    <3> QED  BY <3>1, <3>2, <3>3, Zenon
  <2>4. CASE f.k = "not"
    <3>1. ConditionalOf(f, given, inner, value) = Negated(c)  BY <2>4 DEF ConditionalOf
    <3>2. MeantOf(f, given, meant, value) = MeantNot(m)  BY <2>4 DEF MeantOf
    <3> HIDE DEF c, m
    <3>3. Fine(Negated(c), MeantNot(m))
      BY <1>2, <2>2, ConstructorsRender, ConstructorsTyped, Zenon
    <3> QED  BY <3>1, <3>2, <3>3, Zenon
  <2> QED  BY <1>4, <2>3, <2>4
<1>5. CASE f.k = "binary" /\ f.op \in {"and", "or"}
  <2>1. "left" \in Sides(f) /\ "right" \in Sides(f)  BY <1>5 DEF Sides
  <2> DEFINE c == inner["left"]
             d == inner["right"]
             m == meant["left"]
             n == meant["right"]
  <2>2. Fine(c, m) /\ Fine(d, n)  BY <2>1
  <2>3. CASE f.op = "and"
    <3>1. ConditionalOf(f, given, inner, value) = CombineConditional(c, TRUE, d)
      BY <1>5, <2>3 DEF ConditionalOf
    <3>2. MeantOf(f, given, meant, value) = MeantBoth(m, n)  BY <1>5, <2>3 DEF MeantOf
    <3> HIDE DEF c, d, m, n
    <3>3. Fine(CombineConditional(c, TRUE, d), MeantBoth(m, n))
      BY <2>2, ConjunctionRenders, CombinationsTyped, Zenon
    <3> QED  BY <3>1, <3>2, <3>3, Zenon
  <2>4. CASE f.op = "or"
    <3>1. ConditionalOf(f, given, inner, value) = CombineConditional(c, FALSE, d)
      BY <1>5, <2>4 DEF ConditionalOf
    <3>2. MeantOf(f, given, meant, value) = MeantEither(m, n)  BY <1>5, <2>4 DEF MeantOf
    <3> HIDE DEF c, d, m, n
    <3>3. Fine(CombineConditional(c, FALSE, d), MeantEither(m, n))
      BY <2>2, DisjunctionRenders, CombinationsTyped, Zenon
    <3> QED  BY <3>1, <3>2, <3>3, Zenon
  <2> QED  BY <1>5, <2>3, <2>4
<1>6. CASE f.k \notin {"absent", "optional", "not"} /\ ~(f.k = "binary" /\ f.op \in {"and", "or"})
  <2>1. ConditionalOf(f, given, inner, value) = Mandatory(value)  BY <1>6 DEF ConditionalOf
  <2>2. MeantOf(f, given, meant, value) = Meant(FALSE, value)  BY <1>6 DEF MeantOf
  <2> QED  BY <1>1, <2>1, <2>2, Zenon
<1> QED  BY <1>3, <1>4, <1>5, <1>6

\* Whatever function of filters obeys the equations of conditional_filter_expr renders what
\* the filters mean, however deep they are: an atom whose optional input is null takes no
\* part, nor does what is made of such atoms only, and a filter that is gone altogether
\* keeps every row (conditional_filter_expr, combine_conditional, filter_expr).
THEOREM FiltersRender ==
  ASSUME NEW filters, NEW size \in [filters -> Nat], IsClosed(filters, size),
         NEW given \in [filters -> BOOLEAN], NEW value \in [filters -> Truth],
         NEW rendered, NEW meant,
         \A f \in filters: rendered[f] = ConditionalOf(f, given[f], Inner(f, rendered), value[f]),
         \A f \in filters: meant[f] = MeantOf(f, given[f], Inner(f, meant), value[f])
  PROVE  \A f \in filters:
            /\ Renders(rendered[f], meant[f])
            /\ Closed(rendered[f]) = IF meant[f].gone THEN TRUE ELSE meant[f].truth
<1> DEFINE Fine(f) ==
               rendered[f] \in Conditionals /\ meant[f] \in Meaning /\ Renders(rendered[f], meant[f])
           Wrong == {f \in filters: ~Fine(f)}
           R == OpToRel(<, Nat)
           Sizes == {size[f] : f \in Wrong}
<1>1. Wrong = {}
  <2> SUFFICES ASSUME Wrong # {} PROVE FALSE
    OBVIOUS
  <2>1. IsWellFoundedOn(R, Nat)  BY NatLessThanWellFounded
  <2>2. Sizes \subseteq Nat /\ Sizes # {}  OBVIOUS
  <2>3. PICK least \in Sizes: \A k \in Sizes: ~(<<k, least>> \in R)
    <3> HIDE DEF R, Sizes
    <3> QED  BY <2>1, <2>2, WFMin
  <2>4. \A j, k \in Nat: <<j, k>> \in R <=> j < k  BY DEF OpToRel
  <2>5. PICK f \in Wrong: least = size[f]  BY <2>3
  <2>6. \A side \in Sides(f): Fine(f[side])
    <3> SUFFICES ASSUME NEW side \in Sides(f), ~Fine(f[side]) PROVE FALSE
      OBVIOUS
    <3>1. f[side] \in filters /\ size[f[side]] < size[f]  BY DEF IsClosed
    <3>2. size[f[side]] \in Sizes  BY <3>1
    <3>3. size[f[side]] \in Nat /\ size[f] \in Nat  BY <3>1
    <3> HIDE DEF R, Sizes
    <3> QED  BY <2>3, <2>4, <2>5, <3>1, <3>2, <3>3
  <2>7. \A side \in Sides(f):
            /\ Inner(f, rendered)[side] = rendered[f[side]]
            /\ Inner(f, meant)[side] = meant[f[side]]
    BY DEF Inner
  <2>8. f \in filters /\ given[f] \in BOOLEAN /\ value[f] \in Truth  OBVIOUS
  <2>9. \A side \in Sides(f):
            /\ Inner(f, rendered)[side] \in Conditionals /\ Inner(f, meant)[side] \in Meaning
            /\ Renders(Inner(f, rendered)[side], Inner(f, meant)[side])
    BY <2>6, <2>7
  <2> DEFINE c == ConditionalOf(f, given[f], Inner(f, rendered), value[f])
             m == MeantOf(f, given[f], Inner(f, meant), value[f])
  <2>10. c \in Conditionals /\ m \in Meaning /\ Renders(c, m)
    BY <2>8, <2>9, EveryFormRenders
  <2>11. rendered[f] = c /\ meant[f] = m  BY <2>8
  <2> HIDE DEF c, m
  <2> QED  BY <2>5, <2>10, <2>11
<1>2. ASSUME NEW f \in filters
      PROVE  Renders(rendered[f], meant[f]) /\ Closed(rendered[f]) = IF meant[f].gone THEN TRUE ELSE meant[f].truth
  <2>1. Fine(f)  BY <1>1
  <2> QED  BY <2>1, ClosedRenders
<1> QED  BY <1>2
=============================================================================
