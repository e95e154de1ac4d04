---------------------------- MODULE PolicyMeaning ----------------------------
(***************************************************************************)
(* What filters mean, without plans: a filter that is active hides a row   *)
(* unless its row rule is true of it, and a field unless the field's rule  *)
(* is; a filter is inactive only when it is known to be.  Conditions stand *)
(* for their rule, and rules read the rows as they are.                    *)
(***************************************************************************)
EXTENDS FilterMeaning, PolicyPlan

\* The expression with the conditions it refers to written out.
RECURSIVE WrittenOut(_, _, _)
WrittenOut(site, scope, e) ==
    LET out(f) == WrittenOut(site, scope, f) IN
    CASE e.k = "predicate" ->
            LET c == Only(VisiblePolicies(site, scope, "condition", e.name)) IN WrittenOut(site, c.scope, RuleOf(c))
      [] e.k \in {"and", "or", "compare"} -> [e EXCEPT !.left = out(@), !.right = out(@)]
      [] e.k = "not" -> [e EXCEPT !.operand = out(@)]
      [] e.k = "exists" -> [e EXCEPT !.predicate = [i \in DOMAIN @ |-> out(@[i])]]
      [] OTHER -> e

\* The truth of a rule for a row of the query's table.
TruthOf(site, policy, e, row) ==
    LET at == At(row, site.query.table)
    IN  Meaning(site, Places(at, at, at, at), WrittenOut(site, policy.scope, e)).truth

\* An assignment of the source counts before one of the operation.
Deciding(site, policy) ==
    LET about(a) == a.name = policy.name
        own == SelectSeq(site.query.source, about)
    IN  IF own # <<>> THEN own ELSE SelectSeq(site.query.operation, about)

Desired(site, policy, row) ==
    LET a == Deciding(site, policy) IN
    CASE a = <<>> -> DefaultActive(policy)
      [] a # <<>> /\ a[1].cond = <<>> -> TRUE
      [] OTHER -> TruthOf(site, policy, a[1].cond[1], row)

\* An enforced filter cannot be switched off.
Active(site, policy, row) ==
    LET enforced == IF policy.apply = <<>> \/ policy.apply[1] = <<>> THEN FALSE
                    ELSE TruthOf(site, policy, policy.apply[1][1], row)
    IN  Or3(enforced, Desired(site, policy, row))

Lets(site, policy, rule, row) == Active(site, policy, row) = FALSE \/ TruthOf(site, policy, rule, row) = TRUE

Applicable(site) ==
    {p \in site.policies: p.kind = "filter" /\ site.query.table \in Matches(p)
        /\ Sees(site.imports, site.query.scope, p.scope)}

MayReadRow(site, row) ==
    \A p \in Applicable(site): \A e \in ToSet(p.row): Lets(site, p, e, row)

MayReadField(site, row, name) ==
    \A p \in Applicable(site): \A f \in ToSet(p.fields): name \in f.names => Lets(site, p, f.rule, row)
=============================================================================
