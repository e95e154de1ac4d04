-------------------------- MODULE TypeScriptRuntime --------------------------
(***************************************************************************)
(* The same as Execution, as the TypeScript runtime does it (runtime.ts):  *)
(* the client turns host values into the variables that are sent, the      *)
(* server reads those, and the trusted context, into the statement and its *)
(* values.  Predicates are checked whole before they are rendered.         *)
(***************************************************************************)
EXTENDS Execution

MatchesDsqlPattern(pattern, value) == pattern = <<>> \/ (value.k = "text" /\ value.s \in pattern[1])

\* Number.isSafeInteger
IsSafeInteger(value) == value.k = "int" /\ IsSafe(value.n)

\* isDsqlScalarValid, and validateDsqlDynamicScalar for what is not null
IsDsqlScalarValid(field, value) ==
    /\ CASE field.wire \in {"text", "text_cast"} -> value.k = "text"
         [] field.wire \in {"uuid", "timestamptz", "big_integer", "numeric"} ->
                value.k = "text" /\ value.s \in TextForms[field.wire]
         [] field.wire = "integer" -> IsSafeInteger(value)
         [] field.wire = "float" -> value.k \in {"int", "float"}
         [] field.wire = "boolean" -> value.k = "bool"
         [] OTHER -> field.wire = "json"
    /\ MatchesDsqlPattern(field.pattern, value)

ValidateDsqlDynamicScalar(field, value) == value # Null /\ IsDsqlScalarValid(field, value)

\* validateDsqlInput; safe integers are not matched against a pattern.
ValidateDsqlInput(field, value) ==
    LET valid(item) == IF field.wire = "integer" THEN IsSafeInteger(item) ELSE IsDsqlScalarValid(field, item) IN
    \/ value = Null \/ field.dynamic # "no"
    \/ field.collection /\ value.k = "array" /\ \A item \in ItemsOf(value): item = Null \/ valid(item)
    \/ ~field.collection /\ valid(value)

\* A serializer throws on what is not a host value.
Serialized(value) == IF value.k = "host" THEN Text(value.s) ELSE Rejected

SerializedItem(field, value) == IF value = Null THEN Null ELSE Serialized(value)

\* serializeDsqlInputValue
SerializeDsqlInputValue(field, value) ==
    CASE ~field.serialize -> value
      [] ~field.collection -> Serialized(value)
      [] value.k # "array" -> value
      [] \E item \in ItemsOf(value): SerializedItem(field, item) = Rejected -> Rejected
      [] OTHER -> Array([i \in DOMAIN value.items |-> SerializedItem(field, value.items[i])])

DsqlDefaultText(field, default) ==
    IF (field.closed = {} \/ default.s \in field.closed) /\ MatchesDsqlPattern(field.pattern, Text(default.s))
    THEN Text(default.s) ELSE Rejected

DsqlDefaultNumber(field, default) ==
    CASE field.wire = "integer" /\ default.whole /\ IsSafe(default.n) -> Whole(default.n)
      [] field.wire = "float" -> IF default.whole THEN Whole(default.n) ELSE Fraction(default.n)
      [] field.wire = "numeric" -> Text(IF default.whole THEN "whole" ELSE "decimal")
      [] OTHER -> Rejected

\* dsqlDefaultValue
RECURSIVE DsqlDefaultValue(_, _)
DsqlDefaultItems(field, items) ==
    LET values == [i \in DOMAIN items |->
                      IF items[i].kind \in {"null", "collection", "empty_object"} THEN Rejected
                      ELSE DsqlDefaultValue([field EXCEPT !.collection = FALSE], items[i])] IN
    IF \E i \in DOMAIN values: values[i] = Rejected THEN Rejected ELSE Array(values)
DsqlDefaultValue(field, default) ==
    CASE default.kind = "string" -> IF field.collection THEN Rejected ELSE DsqlDefaultText(field, default)
      [] default.kind = "number" -> IF field.collection THEN Rejected ELSE DsqlDefaultNumber(field, default)
      [] default.kind = "boolean" -> IF field.collection \/ field.wire # "boolean" THEN Rejected ELSE Bool(default.b)
      [] default.kind = "null" -> Null
      [] default.kind = "collection" ->
             IF (~field.collection /\ field.dynamic # "order") \/ (field.dynamic = "order" /\ default.items # <<>>) THEN Rejected
             ELSE DsqlDefaultItems(field, default.items)
      [] default.kind = "empty_object" -> IF field.collection \/ field.dynamic # "predicate" THEN Rejected ELSE Object(<<>>)

\* setDsqlPath: a copy in which the objects on the way exist.
RECURSIVE SetDsqlPath(_, _, _)
SetDsqlPath(value, path, replacement) ==
    IF value.k # "object" THEN Rejected
    ELSE LET at == Head(path)
             child == IF at \in DOMAIN value.of THEN value.of[at] ELSE Object(<<>>)
             inner == IF Len(path) = 1 THEN replacement ELSE SetDsqlPath(child, Tail(path), replacement) IN
         IF inner = Rejected THEN Rejected ELSE Object((at :> inner) @@ value.of)

\* A null in place of a whole dynamic input is its identity.
Stored(field, value) ==
    IF value # Null \/ field.dynamic = "no" THEN value ELSE Identity(field.dynamic)

Settled(field, bindings, value) ==
    IF value = Rejected \/ ~ValidateDsqlInput(field, value) THEN Rejected
    ELSE SetDsqlPath(bindings, field.path, Stored(field, value))

\* Bug: a default is serialized like a host value.
SerializesDefaults(field, bindings, representation) ==
    LET given == LookupPath(bindings, field.path)
        value == IF given = Missing /\ field.default # <<>> THEN DsqlDefaultValue(field, field.default[1]) ELSE given IN
    CASE value \in {Rejected, Missing} -> IF value = Missing /\ ~field.required THEN bindings ELSE Rejected
      [] value = Null -> IF field.nullable THEN Settled(field, bindings, Null) ELSE Rejected
      [] OTHER -> Settled(field, bindings, IF representation = "host" THEN SerializeDsqlInputValue(field, value) ELSE value)

\* materializeDsqlBindings, for one field; defaults are wire values already.
MaterializeField(field, bindings, representation) ==
    LET value == LookupPath(bindings, field.path) IN
    CASE value = Rejected -> Rejected
      [] value = Missing /\ (IsContext(field.path) \/ (field.default = <<>> /\ field.required)) -> Rejected
      [] value = Missing /\ field.default = <<>> -> bindings
      [] value = Missing -> Settled(field, bindings, DsqlDefaultValue(field, field.default[1]))
      [] value = Null -> IF field.nullable THEN Settled(field, bindings, Null) ELSE Rejected
      [] OTHER -> Settled(field, bindings, IF representation = "host" THEN SerializeDsqlInputValue(field, value) ELSE value)

MaterializeDsqlBindings(fields, bindings, representation) ==
    FoldLeft(LAMBDA so, field: IF so = Rejected THEN so ELSE MaterializeField(field, so, representation), bindings, fields)

MaterializeDsqlDynamicScalar(field, value, representation) ==
    LET wire == IF representation = "host" /\ field.serialize THEN Serialized(value) ELSE value IN
    IF wire # Rejected /\ ValidateDsqlDynamicScalar(field, wire) THEN wire ELSE Rejected

MapOf(f) == IF Rejected \in Range(f) THEN Rejected ELSE Object(f)
ListOf(items) == IF Rejected \in Range(items) THEN Rejected ELSE Array(items)

MaterializeOperand(field, operator, operand, representation) ==
    CASE operator.kind = "boolean" -> IF operand.k = "bool" THEN operand ELSE Rejected
      [] operator.kind = "collection" ->
             IF operand.k # "array" THEN Rejected
             ELSE ListOf([i \in DOMAIN operand.items |-> MaterializeDsqlDynamicScalar(field, operand.items[i], representation)])
      [] operator.kind = "scalar" -> MaterializeDsqlDynamicScalar(field, operand, representation)

MaterializeOperators(field, operators, representation) ==
    IF operators.k # "object" THEN Rejected
    ELSE MapOf([name \in DOMAIN operators.of |->
                   LET found == Named(field.operators, name) IN
                   IF found = {} THEN Rejected
                   ELSE MaterializeOperand(field, The(field.operators, found), operators.of[name], representation)])

\* materializeDsqlDynamicPredicate
RECURSIVE MaterializeDsqlDynamicPredicate(_, _, _)
MaterializeMember(contract, key, item, representation) ==
    CASE key \in {"and", "or"} ->
             IF item.k # "array" THEN Rejected
             ELSE ListOf([i \in DOMAIN item.items |-> MaterializeDsqlDynamicPredicate(contract, item.items[i], representation)])
      [] key = "not" -> MaterializeDsqlDynamicPredicate(contract, item, representation)
      [] OTHER ->
             LET known == Keyed(contract.fields, key) IN
             IF known = {} THEN Rejected ELSE MaterializeOperators(The(contract.fields, known), item, representation)
MaterializeDsqlDynamicPredicate(contract, value, representation) ==
    IF value.k # "object" THEN Rejected
    ELSE MapOf([key \in DOMAIN value.of |-> MaterializeMember(contract, key, value.of[key], representation)])

MaterializeContract(contract, bindings, representation) ==
    LET value == LookupPath(bindings, contract.path)
        wire == IF contract.kind = "predicate" THEN MaterializeDsqlDynamicPredicate(contract, value, representation) ELSE value IN
    IF Rejected \in {value, wire} \/ value = Missing THEN Rejected ELSE SetDsqlPath(bindings, contract.path, wire)

MaterializeDsqlDynamicBindings(contracts, bindings, representation) ==
    FoldLeft(LAMBDA so, contract: IF so = Rejected THEN so ELSE MaterializeContract(contract, so, representation),
             bindings, contracts)

\* materializeDsqlOperationVariables: what the client sends for its host values.
MaterializeDsqlOperationVariables(operation, variables) ==
    LET ordinary == MaterializeDsqlBindings(operation.inputs, variables, "host") IN
    IF ordinary = Rejected THEN Rejected ELSE MaterializeDsqlDynamicBindings(operation.dynamics, ordinary, "host")

-----------------------------------------------------------------------------
\* The statement and the values, in the shape of Execution's runs; values carry no type.

SelectedText(variant, value) ==
    CASE value \in {Null, Missing} /\ variant.nullText # <<>> -> Text(variant.nullText[1])
      [] value.k = "text" -> IF value.s \in variant.cases THEN value ELSE Rejected
      [] OTHER -> Rejected

\* applyDsqlVariants
ApplyDsqlVariants(run, variants, bindings) ==
    FoldLeft(LAMBDA so, variant:
                 IF Failed(so) THEN so
                 ELSE WithVariantText(so, variant.path, SelectedText(variant, LookupPath(bindings, variant.path))),
             run, variants)

\* dsqlDynamicParameter, behind the fixed parameters
DsqlDynamicParameter(done, fixed, value, expression, operator) ==
    IF done.cursor < Len(done.parameters) /\ done.parameters[done.cursor + 1] # value THEN Corrupt
    ELSE Wrote([done EXCEPT !.parameters = IF done.cursor = Len(@) THEN Append(@, value) ELSE @, !.cursor = @ + 1],
               Test(expression, operator, fixed + done.cursor + 1))

RenderDsqlOperand(expression, operator, operand, fixed, done) ==
    CASE operator.kind = "boolean" ->
             IF operand.k = "bool" THEN Wrote(done, NullTest(expression, operand.b)) ELSE Corrupt
      [] operator.kind = "collection" /\ operand.items = <<>> -> Wrote(done, Constant(operator.name # "in"))
      [] OTHER -> DsqlDynamicParameter(done, fixed, operand, expression, operator.name)

RenderDsqlOperators(site, operators, fixed, done) ==
    FoldLeft(LAMBDA so, name:
                 LET found == Named(site.operators, name) IN
                 CASE Failed(so) -> so
                   [] found = {} -> Rejected
                   [] OTHER -> RenderDsqlOperand(site.expression, The(site.operators, found), operators.of[name], fixed, so),
             done, SortedKeys(DOMAIN operators.of))

RenderDsqlField(input, site, key, item, fixed, done) ==
    LET lowered == Keyed(site.fields, key) IN
    CASE Keyed(input.fields, key) = {} -> Rejected
      [] lowered = {} -> Corrupt
      [] item.k # "object" -> Rejected
      [] OTHER -> RenderDsqlOperators(The(site.fields, lowered), item, fixed, done)

\* renderDsqlDynamicPredicate
RECURSIVE RenderDsqlDynamicPredicate(_, _, _, _, _)
RenderDsqlMember(input, site, key, item, fixed, done) ==
    CASE Failed(done) -> done
      [] key \in {"and", "or"} ->
             IF item.k # "array" THEN Rejected
             ELSE Joined(done, FoldLeft(LAMBDA so, child:
                                            IF Failed(so) THEN so ELSE RenderDsqlDynamicPredicate(input, site, child, fixed, so),
                                        Restart(done), item.items), key)
      [] key = "not" -> Joined(done, RenderDsqlDynamicPredicate(input, site, item, fixed, Restart(done)), key)
      [] OTHER -> RenderDsqlField(input, site, key, item, fixed, done)
RenderDsqlDynamicPredicate(input, site, value, fixed, done) ==
    IF value.k # "object" THEN Rejected
    ELSE Joined(done, FoldLeft(LAMBDA so, key: RenderDsqlMember(input, site, key, value.of[key], fixed, so),
                               Restart(done), SortedKeys(DOMAIN value.of)), "and")

\* renderDsqlDynamicOrder
RenderDsqlEntry(input, site, item, done) ==
    LET keys == DOMAIN item.of
        key == CHOOSE key \in keys: TRUE
        lowered == Keyed(site.fields, key) IN
    CASE Failed(done) -> done
      [] item.k # "object" -> Rejected
      [] Cardinality(keys) # 1 -> Rejected
      [] Keyed(input.fields, key) = {} -> Rejected
      [] lowered = {} -> Corrupt
      [] item.of[key].k # "text" \/ ~Contains(The(site.fields, lowered).directions, item.of[key].s) -> Rejected
      [] OTHER -> Wrote(done, [expression |-> The(site.fields, lowered).expression, direction |-> item.of[key].s])

RenderDsqlDynamicOrder(input, site, value, done) ==
    IF value.k # "array" THEN Rejected
    ELSE FoldLeft(LAMBDA so, item: RenderDsqlEntry(input, site, item, so), done, value.items)

RenderDsqlSite(input, site, value, fixed, done) ==
    IF input.kind = "predicate" THEN RenderDsqlDynamicPredicate(input, site, value, fixed, done)
    ELSE RenderDsqlDynamicOrder(input, site, value, done)

\* applyDsqlDynamicInputs, for one input
ApplyDsqlDynamicInput(run, input, bindings, fixed) ==
    LET value == LookupPath(bindings, input.path)
        start == Len(run.parameters) IN
    CASE Failed(run) -> run
      [] value \in {Missing, Rejected} -> Rejected
      [] input.sites = <<>> -> Corrupt
      [] OTHER ->
             FoldLeft(LAMBDA so, i:
                          IF Failed(so) THEN so
                          ELSE ReplaceSite(so, input.sites[i],
                                           RenderDsqlSite(input, input.sites[i], IF value = Null THEN Identity(input.kind) ELSE value,
                                                          fixed, Rendering(so.parameters, start, <<>>)), i = 1),
                      run, [i \in DOMAIN input.sites |-> i])

FixedValues(operation, bindings) ==
    [i \in DOMAIN operation.parameters |-> LookupPath(bindings, operation.parameters[i])]

WithFixed(run, fixed) == IF Failed(run) THEN run ELSE [run EXCEPT !.parameters = fixed \o @]

ApplyDsqlDynamicInputs(run, dynamics, bindings, fixed) ==
    WithFixed(FoldLeft(LAMBDA so, input: ApplyDsqlDynamicInput(so, input, bindings, Len(fixed)), run, dynamics), fixed)

FromBindings(operation, bindings) ==
    IF bindings = Rejected THEN Rejected
    ELSE ApplyDsqlDynamicInputs(ApplyDsqlVariants(Run(operation.statement, <<>>), operation.variants, bindings),
                                operation.dynamics, bindings, FixedValues(operation, bindings))

\* The variables as they came, checked; the context beside them, from its host values.
WithContext(operation, bindings, context) ==
    IF bindings = Rejected THEN Rejected
    ELSE MaterializeDsqlBindings(operation.context, SetDsqlPath(bindings, <<"context">>, context), "host")

WithPredicates(operation, bindings) ==
    IF bindings = Rejected THEN Rejected ELSE MaterializeDsqlDynamicBindings(operation.dynamics, bindings, "wire")

\* materializeDsqlQuery
MaterializeDsqlQuery(operation, variables, context) ==
    FromBindings(operation,
        WithContext(operation,
            WithPredicates(operation, MaterializeDsqlBindings(operation.inputs, variables, "wire")), context))
=============================================================================
