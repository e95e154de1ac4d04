------------------------------ MODULE Execution ------------------------------
(***************************************************************************)
(* From the caller's variables to the statement that is run and its        *)
(* parameters, twice: as the Rust executor does it (dsql-execute) and as   *)
(* the TypeScript runtime does (runtime.ts).  JSON values are records with *)
(* a kind k; a host value becomes a wire value in the client, by a         *)
(* serializer that is not idempotent.                                      *)
(***************************************************************************)
EXTENDS DynamicInputs

CONSTANT SafeBound   \* integers beyond are not exact in JavaScript

Null == [k |-> "null"]
Whole(n) == [k |-> "int", n |-> n]
Fraction(n) == [k |-> "float", n |-> n]
Bool(b) == [k |-> "bool", b |-> b]
Text(s) == [k |-> "text", s |-> s]
Host(s) == [k |-> "host", s |-> s]
Array(items) == [k |-> "array", items |-> items]
Object(of) == [k |-> "object", of |-> of]

Missing == [k |-> "missing"]
Rejected == [k |-> "rejected"]   \* an error about the caller's values
Corrupt == [k |-> "corrupt"]     \* an error about the operation itself
Failed(value) == value.k \in {"rejected", "corrupt"}

IsContext(path) == Head(path) = "context"
IsSafe(n) == n \in (-SafeBound)..SafeBound

\* What a text looks like: a uuid is not a number, an integer is also a numeric.
TextForms == [uuid |-> {"uuid"}, timestamptz |-> {"time"}, big_integer |-> {"whole"}, numeric |-> {"whole", "decimal"}]

\* lookup_path: through objects only.
RECURSIVE LookupPath(_, _)
LookupPath(value, path) ==
    CASE path = <<>> -> value
      [] value.k # "object" -> Rejected
      [] Head(path) \notin DOMAIN value.of -> Missing
      [] OTHER -> LookupPath(value.of[Head(path)], Tail(path))

ItemsOf(value) == ToSet(value.items)

-----------------------------------------------------------------------------
\* dsql-execute

PatternIsValid(pattern, value) == pattern = <<>> \/ (value.k = "text" /\ value.s \in pattern[1])

WireIsValid(wire, value) ==
    CASE wire \in {"text", "text_cast"} -> value.k = "text"
      [] wire \in DOMAIN TextForms -> value.k = "text" /\ value.s \in TextForms[wire]
      [] wire = "float" -> value.k \in {"int", "float"}
      [] wire = "boolean" -> value.k = "bool"
      [] wire = "json" -> TRUE
      [] OTHER -> FALSE

InputScalarIsValid(field, value) == WireIsValid(field.wire, value) /\ PatternIsValid(field.pattern, value)

SafeInteger(value) == value.k = "int" /\ IsSafe(value.n)

ValidateSafeInteger(field, value) ==
    \/ value = Null \/ field.wire # "integer"
    \/ IF field.collection THEN value.k = "array" /\ \A item \in ItemsOf(value): item = Null \/ SafeInteger(item)
       ELSE SafeInteger(value)

ValidateInputWire(field, value) ==
    \/ value = Null \/ field.wire = "integer" \/ field.dynamic # "no"
    \/ IF field.collection THEN value.k = "array" /\ \A item \in ItemsOf(value): item = Null \/ InputScalarIsValid(field, item)
       ELSE InputScalarIsValid(field, value)

NumberOf(default) == IF default.whole THEN Whole(default.n) ELSE Fraction(default.n)

DefaultNumber(field, default) ==
    CASE field.wire = "integer" -> IF default.whole /\ IsSafe(default.n) THEN Whole(default.n) ELSE Rejected
      [] field.wire = "float" -> NumberOf(default)
      [] field.wire = "numeric" -> Text(IF default.whole THEN "whole" ELSE "decimal")
      [] OTHER -> Rejected

DefaultString(field, default) ==
    IF (field.closed # {} => default.s \in field.closed) /\ PatternIsValid(field.pattern, Text(default.s))
    THEN Text(default.s) ELSE Rejected

RECURSIVE MaterializeDefault(_, _)
DefaultCollection(field, default) ==
    LET items == [i \in DOMAIN default.items |-> MaterializeDefault([field EXCEPT !.collection = FALSE], default.items[i])] IN
    IF \/ field.dynamic = "order" /\ items # <<>>
       \/ \E i \in DOMAIN items: default.items[i].kind \in {"null", "collection", "empty_object"} \/ items[i] = Rejected
    THEN Rejected ELSE Array(items)
MaterializeDefault(field, default) ==
    CASE default.kind = "null" -> Null
      [] default.kind = "string" /\ ~field.collection -> DefaultString(field, default)
      [] default.kind = "number" /\ ~field.collection -> DefaultNumber(field, default)
      [] default.kind = "boolean" /\ ~field.collection /\ field.wire = "boolean" -> Bool(default.b)
      [] default.kind = "collection" /\ (field.collection \/ field.dynamic = "order") -> DefaultCollection(field, default)
      [] default.kind = "empty_object" /\ ~field.collection /\ field.dynamic = "predicate" -> Object(<<>>)
      [] OTHER -> Rejected

CheckedInput(field, value) ==
    IF \/ Failed(value) \/ (value = Null /\ ~field.nullable)
       \/ ~ValidateSafeInteger(field, value) \/ ~ValidateInputWire(field, value)
    THEN Rejected ELSE value

\* input_value: context is read from the trusted bindings, and never has a default.
FoundInput(field, value) ==
    CASE value = Missing /\ (IsContext(field.path) \/ (field.default = <<>> /\ field.required)) -> Rejected
      [] value = Missing /\ field.default = <<>> -> Missing
      [] value = Missing -> CheckedInput(field, MaterializeDefault(field, field.default[1]))
      [] OTHER -> CheckedInput(field, value)

\* Bug: the caller's variables are read first, also for the context.
CallerWins(field, variables, context) ==
    FoundInput(field, IF IsContext(field.path) /\ LookupPath(variables, field.path).k \in {"missing", "rejected"}
                      THEN LookupPath(context, Tail(field.path)) ELSE LookupPath(variables, field.path))

InputValue(field, variables, context) ==
    FoundInput(field, IF IsContext(field.path) THEN LookupPath(context, Tail(field.path)) ELSE LookupPath(variables, field.path))

\* A run: the statement, and the parameters it is bound to.
Run(statement, parameters) == [k |-> "run", statement |-> statement, parameters |-> parameters]

\* One variant of the text, chosen by an input.
VariantText(variant, value) ==
    CASE value = Null -> IF variant.nullText = <<>> THEN Rejected ELSE Text(variant.nullText[1])
      [] value.k = "text" -> IF value.s \in variant.cases THEN value ELSE Rejected
      [] OTHER -> Rejected

WithVariantText(run, path, text) ==
    IF Failed(text) THEN Rejected
    ELSE [run EXCEPT !.statement = Substituted(@, Placeholder(path), Word(text.s))]

ApplyVariant(run, variant, values) ==
    CASE Failed(run) -> run
      [] variant.path \notin DOMAIN values -> Rejected
      [] OTHER -> WithVariantText(run, variant.path, VariantText(variant, values[variant.path]))

Parameter(field, value) == [wire |-> field.wire, collection |-> field.collection, value |-> value]

\* What a site makes of a value so far: the parameters, the next operand, the SQL.
Rendering(parameters, cursor, sql) == [k |-> "rendering", parameters |-> parameters, cursor |-> cursor, sql |-> sql]
Wrote(done, sql) == [done EXCEPT !.sql = Append(@, sql)]
Restart(done) == [done EXCEPT !.sql = <<>>]
Resume(done, inner) == [inner EXCEPT !.sql = done.sql]

Conjoined(sql) == [k |-> "conjoined", of |-> sql]
Disjoined(sql) == [k |-> "disjoined", of |-> sql]
Opposite(sql) == [k |-> "opposite", of |-> sql]
Constant(b) == [k |-> "constant", b |-> b]
Test(expression, operator, parameter) == [k |-> "test", expression |-> expression, operator |-> operator, parameter |-> parameter]
NullTest(expression, b) == [k |-> "null test", expression |-> expression, b |-> b]

\* Bug: every site pushes its operands.
EverySitePushes(done, parameter, expression, operator) ==
    Wrote([done EXCEPT !.parameters = Append(@, parameter), !.cursor = Len(done.parameters) + 1],
          Test(expression, operator, Len(done.parameters) + 1))

\* dynamic_parameter: the first site pushes the operands, the others must agree.
DynamicParameter(done, parameter, expression, operator) ==
    CASE done.cursor = Len(done.parameters) ->
             Wrote([done EXCEPT !.parameters = Append(@, parameter), !.cursor = @ + 1], Test(expression, operator, done.cursor + 1))
      [] done.cursor < Len(done.parameters) /\ done.parameters[done.cursor + 1] = parameter ->
             Wrote([done EXCEPT !.cursor = @ + 1], Test(expression, operator, done.cursor + 1))
      [] OTHER -> Corrupt

DynamicScalarIsValid(field, value) ==
    /\ value # Null
    /\ IF field.wire = "integer" THEN SafeInteger(value) ELSE WireIsValid(field.wire, value)
    /\ PatternIsValid(field.pattern, value)

Named(entries, name) == {i \in DOMAIN entries: entries[i].name = name}
Keyed(entries, key) == {i \in DOMAIN entries: entries[i].key = key}
The(entries, indexes) == entries[CHOOSE i \in indexes: TRUE]

RenderOperand(field, expression, operator, operand, done) ==
    CASE operator.kind = "scalar" ->
             IF DynamicScalarIsValid(field, operand)
             THEN DynamicParameter(done, Parameter([field EXCEPT !.collection = FALSE], operand), expression, operator.name)
             ELSE Rejected
      [] operator.kind = "collection" ->
             CASE operand.k # "array" \/ (\E item \in ItemsOf(operand): ~DynamicScalarIsValid(field, item)) -> Rejected
               [] operand.items = <<>> -> Wrote(done, Constant(operator.name # "in"))
               [] OTHER -> DynamicParameter(done, Parameter([field EXCEPT !.collection = TRUE], operand), expression, operator.name)
      [] operator.kind = "boolean" ->
             IF operand.k = "bool" THEN Wrote(done, NullTest(expression, operand.b)) ELSE Rejected

RenderOperators(field, site, operators, done) ==
    FoldLeft(LAMBDA so, name:
                 IF Failed(so) THEN so
                 ELSE LET found == Named(site.operators, name) IN
                      IF found = {} THEN Rejected
                      ELSE RenderOperand(field, site.expression, The(site.operators, found), operators.of[name], so),
             done, SortedKeys(DOMAIN operators.of))

RenderField(input, site, key, item, done) ==
    LET known == Keyed(input.fields, key)
        lowered == Keyed(site.fields, key) IN
    CASE known = {} -> Rejected
      [] lowered = {} -> Corrupt
      [] item.k # "object" -> Rejected
      [] OTHER -> RenderOperators(The(input.fields, known), The(site.fields, lowered), item, done)

RECURSIVE RenderDynamicPredicate(_, _, _, _)
RenderChildren(input, site, item, done) ==
    IF item.k # "array" THEN Rejected
    ELSE FoldLeft(LAMBDA so, child: IF Failed(so) THEN so ELSE RenderDynamicPredicate(input, site, child, so), done, item.items)

\* Bug: an or of nothing is left out, like an and of nothing.
EmptyIsAbsent(done, inner, key) ==
    CASE Failed(inner) -> inner
      [] inner.sql = <<>> -> Resume(done, inner)
      [] key = "and" -> Wrote(Resume(done, inner), Conjoined(inner.sql))
      [] key = "or" -> Wrote(Resume(done, inner), Disjoined(inner.sql))
      [] key = "not" -> Wrote(Resume(done, inner), Opposite(inner.sql[1]))

Joined(done, inner, key) ==
    CASE Failed(inner) -> inner
      [] key = "and" -> IF inner.sql = <<>> THEN Resume(done, inner) ELSE Wrote(Resume(done, inner), Conjoined(inner.sql))
      [] key = "or" -> Wrote(Resume(done, inner), IF inner.sql = <<>> THEN Constant(FALSE) ELSE Disjoined(inner.sql))
      [] key = "not" -> IF inner.sql = <<>> THEN Resume(done, inner) ELSE Wrote(Resume(done, inner), Opposite(inner.sql[1]))

RenderMember(input, site, key, item, done) ==
    CASE Failed(done) -> done
      [] key \in {"and", "or"} -> Joined(done, RenderChildren(input, site, item, Restart(done)), key)
      [] key = "not" -> Joined(done, RenderDynamicPredicate(input, site, item, Restart(done)), key)
      [] OTHER -> RenderField(input, site, key, item, done)

\* render_dynamic_predicate: appends what the object says, or nothing.
RenderDynamicPredicate(input, site, value, done) ==
    IF value.k # "object" THEN Rejected
    ELSE Joined(done, FoldLeft(LAMBDA so, key: RenderMember(input, site, key, value.of[key], so),
                               Restart(done), SortedKeys(DOMAIN value.of)), "and")

RenderEntry(input, site, item, done) ==
    CASE Failed(done) -> done
      [] item.k # "object" -> Rejected
      [] Cardinality(DOMAIN item.of) # 1 -> Rejected
      [] OTHER ->
             LET key == CHOOSE key \in DOMAIN item.of: TRUE
                 lowered == Keyed(site.fields, key) IN
             CASE Keyed(input.fields, key) = {} -> Rejected
               [] lowered = {} -> Corrupt
               [] item.of[key].k # "text" \/ ~Contains(The(site.fields, lowered).directions, item.of[key].s) -> Rejected
               [] OTHER -> Wrote(done, [expression |-> The(site.fields, lowered).expression, direction |-> item.of[key].s])

\* render_dynamic_order
RenderDynamicOrder(input, site, value, done) ==
    IF value.k # "array" THEN Rejected
    ELSE FoldLeft(LAMBDA so, item: RenderEntry(input, site, item, so), done, value.items)

RenderSite(input, site, value, done) ==
    IF input.kind = "predicate" THEN RenderDynamicPredicate(input, site, value, done)
    ELSE RenderDynamicOrder(input, site, value, done)

RenderedToken(sql) == [t |-> "rendered", sql |-> sql]

\* replace_dynamic_marker
ReplaceMarker(statement, site, rendered) ==
    IF Occurrences(StatementTokens(statement), site.public) # 1 THEN Corrupt
    ELSE Run(Substituted(statement, site.public, RenderedToken(rendered.sql)), rendered.parameters)

\* The first site of an input says how many operands there are.
ReplaceSite(run, site, rendered, first) ==
    CASE Failed(rendered) -> rendered
      [] ~first /\ rendered.cursor # Len(run.parameters) -> Corrupt
      [] OTHER -> ReplaceMarker(run.statement, site, rendered)

MaterializeSites(run, input, value, start) ==
    FoldLeft(LAMBDA so, i:
                 IF Failed(so) THEN so
                 ELSE ReplaceSite(so, input.sites[i],
                                  RenderSite(input, input.sites[i], value, Rendering(so.parameters, start, <<>>)), i = 1),
             run, [i \in DOMAIN input.sites |-> i])

Identity(kind) == IF kind = "predicate" THEN Object(<<>>) ELSE Array(<<>>)

\* materialize_dynamic_inputs, for one input
MaterializeDynamicInput(run, input, values) ==
    CASE Failed(run) -> run
      [] input.path \notin DOMAIN values -> Rejected
      [] input.sites = <<>> -> Corrupt
      [] OTHER -> MaterializeSites(run, input, IF values[input.path] = Null THEN Identity(input.kind) ELSE values[input.path],
                                   Len(run.parameters))

FieldAt(fields, path) == The(fields, {i \in DOMAIN fields: fields[i].path = path})

FixedParameters(operation, fields, values) ==
    IF \E i \in DOMAIN operation.parameters: operation.parameters[i] \notin DOMAIN values THEN Rejected
    ELSE Run(operation.statement,
             [i \in DOMAIN operation.parameters |->
                 LET path == operation.parameters[i] IN Parameter(FieldAt(fields, path), values[path])])

\* materialize, once the inputs are read
MaterializeValues(operation, fields, values) ==
    FoldLeft(LAMBDA run, input: MaterializeDynamicInput(run, input, values),
             FoldLeft(LAMBDA run, variant: ApplyVariant(run, variant, values),
                      FixedParameters(operation, fields, values), operation.variants),
             operation.dynamics)

\* materialize
Materialize(operation, variables, context) ==
    LET fields == operation.inputs \o operation.context
        read == [i \in DOMAIN fields |-> InputValue(fields[i], variables, context)]
        given == {i \in DOMAIN fields: read[i] # Missing} IN
    IF \E i \in given: read[i] = Rejected THEN Rejected
    ELSE MaterializeValues(operation, fields,
                           [path \in {fields[i].path: i \in given} |-> The(read, {i \in given: fields[i].path = path})])

\* bind, bind_scalar, bind_collection: the parameter has a form the driver takes.
BindsScalar(wire, value) == value = Null \/ (wire = "integer" /\ value.k = "int") \/ WireIsValid(wire, value)
Binds(parameter) ==
    /\ parameter.wire # "unsupported"
    /\ IF parameter.collection /\ parameter.value # Null
       THEN parameter.value.k = "array" /\ \A item \in ItemsOf(parameter.value): BindsScalar(parameter.wire, item)
       ELSE BindsScalar(parameter.wire, parameter.value)
=============================================================================
