------------------------------- MODULE Catalogs -------------------------------
(***************************************************************************)
(* From introspected metadata to a catalog: types, uniqueness, and the two *)
(* relations of every foreign key (catalog/metadata.rs), and what names    *)
(* resolve to in it (catalog/lookup.rs).  Tables are <<schema, name>>;     *)
(* tuples of columns stay sequences, a selector is the tuple it joins.     *)
(* What cannot be built is Refused: no part of it is observed.             *)
(***************************************************************************)
EXTENDS Integers, Sequences, SequencesExt, FiniteSets

CONSTANT DefaultSchema

Refused == [k |-> "refused"]

The(set) == CHOOSE element \in set: TRUE
Names(items) == [i \in DOMAIN items |-> items[i].name]
Distinct(items) == Cardinality(ToSet(items)) = Len(items)
One(condition, item) == IF condition THEN <<item>> ELSE <<>>

-----------------------------------------------------------------------------
\* Types: [key, kind, related, data, native, variants].  A resolution visits them by
\* position; a type it comes back to while resolving it makes a cycle.

Unresolved(types) ==
    [ok |-> TRUE, state |-> [i \in DOMAIN types |-> "pending"], data |-> [i \in DOMAIN types |-> "unknown"]]
Stuck(progress) == [progress EXCEPT !.ok = FALSE]
Resolved(progress, i, data) == [progress EXCEPT !.state[i] = "resolved", !.data[i] = data]

ValidVariants(variants) ==
    /\ variants # <<>> /\ Distinct(variants)
    /\ \A i \in DOMAIN variants: variants[i].variant = variants[i].value
    /\ Cardinality({variants[i].value: i \in DOMAIN variants}) = Len(variants)

Positions(types, key) == {i \in DOMAIN types: <<types[i].key>> = key}

\* resolve_catalog_type
RECURSIVE ResolveType(_, _, _)

\* Bug: an array has the data of what it holds.
InheritAlways(types, i, related, progress) ==
    IF ~progress.ok THEN progress ELSE Resolved(progress, i, progress.data[related])

Inherit(types, i, related, progress) ==
    IF ~progress.ok THEN progress
    ELSE Resolved(progress, i, IF types[i].kind = "domain" THEN progress.data[related] ELSE "unknown")

ResolveRelated(types, i, related, progress) ==
    IF related = {} THEN Stuck(progress)
    ELSE Inherit(types, i, The(related), ResolveType(types, The(related), progress))
ResolvePending(types, i, progress) ==
    LET type == types[i] IN
    CASE type.native /\ type.kind # "enum" -> Stuck(progress)
      [] type.kind = "scalar" -> IF type.related # <<>> THEN Stuck(progress) ELSE Resolved(progress, i, type.data)
      [] type.kind \in {"domain", "array"} -> ResolveRelated(types, i, Positions(types, type.related), progress)
      [] type.kind = "enum" ->
             IF type.related # <<>> \/ ~type.native \/ ~ValidVariants(type.variants) THEN Stuck(progress)
             ELSE Resolved(progress, i, "unknown")
ResolveType(types, i, progress) ==
    CASE progress.state[i] = "resolved" -> progress
      [] progress.state[i] = "resolving" -> Stuck(progress)
      [] progress.state[i] = "pending" -> ResolvePending(types, i, [progress EXCEPT !.state[i] = "resolving"])

ResolveTypes(types) ==
    FoldLeft(LAMBDA so, i: IF so.ok THEN ResolveType(types, i, so) ELSE so,
             Unresolved(types), [i \in DOMAIN types |-> i])

AllColumns(metadata) == UNION {ToSet(metadata.tables[t].columns): t \in DOMAIN metadata.tables}

\* build_catalog_types: the types of every column are known, and are what the column says.
TypesFit(metadata, progress) ==
    /\ Distinct([i \in DOMAIN metadata.types |-> metadata.types[i].key])
    /\ progress.ok
    /\ \A column \in AllColumns(metadata):
           \E i \in DOMAIN metadata.types: metadata.types[i].key = column.type /\ progress.data[i] = column.data

\* Without types, every column brings its own.
FixtureTypesFit(metadata) == \A a, b \in AllColumns(metadata): a.type = b.type => a.data = b.data

BuildCatalogTypes(metadata) ==
    IF metadata.types = <<>> THEN FixtureTypesFit(metadata) ELSE TypesFit(metadata, ResolveTypes(metadata.types))

TypeNamed(types, key) == types[CHOOSE i \in DOMAIN types: types[i].key = key]

ScalarShape(key) == [k |-> "scalar", type |-> key]
ArrayShape(key) == [k |-> "array", type |-> key]

\* value_shape_for_type: below an array, and of what is declared.
RECURSIVE ElementShape(_, _, _)
ElementShape(types, type, public) ==
    CASE type.kind \in {"scalar", "enum"} -> ArrayShape(public)
      [] type.kind = "domain" -> ElementShape(types, TypeNamed(types, type.related[1]), public)
      [] type.kind = "array" -> ElementShape(types, TypeNamed(types, type.related[1]), type.related[1])
RECURSIVE ShapeFrom(_, _, _)
ShapeFrom(types, type, declared) ==
    CASE type.kind \in {"scalar", "enum"} -> ScalarShape(declared)
      [] type.kind = "domain" -> ShapeFrom(types, TypeNamed(types, type.related[1]), declared)
      [] type.kind = "array" -> ElementShape(types, TypeNamed(types, type.related[1]), type.related[1])
ValueShape(types, key) == ShapeFrom(types, TypeNamed(types, key), key)

-----------------------------------------------------------------------------
\* Tables.

TableNamed(metadata, table) == metadata.tables[CHOOSE t \in DOMAIN metadata.tables: metadata.tables[t].key = table]
TableKeys(metadata) == {metadata.tables[t].key: t \in DOMAIN metadata.tables}

\* resolve_local_columns
ResolvesColumns(table, columns) == columns # <<>> /\ ToSet(columns) \subseteq ToSet(Names(table.columns))

ResolvesForeignKey(metadata, table, key) ==
    /\ Len(key.columns) = Len(key.references)
    /\ ResolvesColumns(table, key.columns)
    /\ key.table \in TableKeys(metadata)
    /\ ToSet(key.references) \subseteq ToSet(Names(TableNamed(metadata, key.table).columns))

\* The errors of try_from_metadata.
WellFormed(metadata) ==
    /\ Distinct([t \in DOMAIN metadata.tables |-> metadata.tables[t].key])
    /\ \A t \in DOMAIN metadata.tables: LET table == metadata.tables[t] IN
           /\ Distinct(Names(table.columns))
           /\ \A i \in DOMAIN table.constraints: ResolvesColumns(table, table.constraints[i].columns)
           /\ \A i \in DOMAIN table.indexes:
                  /\ ResolvesColumns(table, table.indexes[i].keys)
                  /\ table.indexes[i].included = <<>> \/ ResolvesColumns(table, table.indexes[i].included)
           /\ \A i \in DOMAIN table.foreignKeys: ResolvesForeignKey(metadata, table, table.foreignKeys[i])

\* push_unique_constraint
PushUnique(constraints, columns) == IF Contains(constraints, columns) THEN constraints ELSE Append(constraints, columns)

UniqueConstraints(table) ==
    FoldLeft(LAMBDA so, index: IF index.unique THEN PushUnique(so, index.keys) ELSE so,
             FoldLeft(LAMBDA so, constraint: PushUnique(so, constraint.columns), <<>>, table.constraints),
             table.indexes)

PrimaryKey(table) ==
    LET keys == SelectSeq(table.constraints, LAMBDA c: c.kind = "primary_key") IN
    IF keys = <<>> THEN <<>> ELSE Last(keys).columns

\* Who says so: a provider's file or an overlay's, and the item in it.
Support(kind, path, item) == [kind |-> kind, path |-> path, item |-> item]
Provider(table, item) == Support("provider", table, item)

CatalogColumn(table, column) ==
    [type |-> column.type, notNull |-> column.notNull, visible |-> TRUE, description |-> <<>>, exposure |-> {},
     unique |-> \E i \in DOMAIN table.indexes: table.indexes[i].unique /\ table.indexes[i].keys = <<column.name>>,
     declaration |-> Provider(table.key, <<"column", column.name>>)]

CatalogTable(table) ==
    [object |-> table.object, visible |-> TRUE, description |-> <<>>, exposure |-> {},
     columns |-> [name \in ToSet(Names(table.columns)) |->
                     CatalogColumn(table, The({c \in ToSet(table.columns): c.name = name}))],
     primaryKey |-> PrimaryKey(table), unique |-> UniqueConstraints(table), indexes |-> table.indexes]

\* add_foreign_key: a mapping is there once.
ForeignKey(table, key) ==
    [from |-> table.key, to |-> key.table, columns |-> key.columns, references |-> key.references, name |-> key.name]
SameMapping(a, b) == a.from = b.from /\ a.to = b.to /\ a.columns = b.columns /\ a.references = b.references
AddForeignKey(keys, key) == IF \E i \in DOMAIN keys: SameMapping(keys[i], key) THEN keys ELSE Append(keys, key)

ForeignKeys(metadata) ==
    FoldLeft(AddForeignKey, <<>>,
             FlattenSeq([t \in DOMAIN metadata.tables |->
                            [i \in DOMAIN metadata.tables[t].foreignKeys |->
                                ForeignKey(metadata.tables[t], metadata.tables[t].foreignKeys[i])]]))

\* Bug: part of a unique tuple is taken for unique.
CoversPart(columns, unique) == unique # <<>> /\ ToSet(columns) \subseteq ToSet(unique)

\* column_set_covers, column_set_is_unique
Covers(columns, unique) == unique # <<>> /\ ToSet(unique) \subseteq ToSet(columns)

ColumnSetIsUnique(table, columns) ==
    \/ \E i \in DOMAIN table.unique: Covers(columns, table.unique[i])
    \/ \E i \in DOMAIN table.indexes: table.indexes[i].unique /\ Covers(columns, table.indexes[i].keys)

CardinalityOf(table, columns) == IF ColumnSetIsUnique(table, columns) THEN "singular" ELSE "collection"

Unsupported == [declaration |-> {}, join |-> {}, cardinality |-> {}, presence |-> {}, exposure |-> {}]

Relation(name, from, to, local, target, cardinality, nullable) ==
    [name |-> name, selector |-> local, visible |-> TRUE, from |-> from, to |-> to, local |-> local, target |-> target,
     cardinality |-> cardinality, nullable |-> nullable, join |-> 0, direction |-> "none", supports |-> Unsupported]

AnyNullable(table, columns) == \E c \in ToSet(columns): ~table.columns[c].notNull

ReferencingRelation(tables, keys, i) ==
    LET key == keys[i] IN
    [Relation(key.to[2], key.from, key.to, key.columns, key.references, "singular", AnyNullable(tables[key.from], key.columns))
        EXCEPT !.join = i, !.direction = "referencing"]
ReferencedRelation(tables, keys, i) ==
    LET key == keys[i] IN
    [Relation(key.from[2], key.to, key.from, key.references, key.columns, CardinalityOf(tables[key.from], key.columns), TRUE)
        EXCEPT !.selector = key.columns, !.join = i, !.direction = "referenced"]

ForeignKeyRelations(tables, keys) ==
    FlattenSeq([i \in DOMAIN keys |-> <<ReferencingRelation(tables, keys, i), ReferencedRelation(tables, keys, i)>>])

\* attach_provider_supports: the proofs of uniqueness, in the order of the files.
Proof(table, name, columns, support) == [table |-> table, name |-> name, columns |-> columns, support |-> support]
TableProofs(table) ==
    [i \in DOMAIN table.constraints |->
        Proof(table.key, table.constraints[i].name, table.constraints[i].columns,
              Provider(table.key, <<"constraint", table.constraints[i].name>>))]
    \o LET unique == SelectSeq(table.indexes, LAMBDA index: index.unique) IN
       [i \in DOMAIN unique |->
           Proof(table.key, unique[i].name, unique[i].keys, Provider(table.key, <<"index", unique[i].name>>))]
ProviderProofs(metadata) == FlattenSeq([t \in DOMAIN metadata.tables |-> TableProofs(metadata.tables[t])])

\* uniqueness_supports_for
UniquenessSupports(proofs, table, columns) ==
    {proofs[i].support: i \in {j \in DOMAIN proofs: proofs[j].table = table /\ Covers(columns, proofs[j].columns)}}

Declarations(table, columns) == {table.columns[c].declaration: c \in ToSet(columns)}

ProviderSupports(tables, keys, proofs, relation) ==
    LET support == {Provider(keys[relation.join].from, <<"foreign_key", keys[relation.join].name>>)} IN
    [relation EXCEPT !.supports =
        [declaration |-> support, join |-> support, exposure |-> {},
         cardinality |-> IF relation.cardinality = "singular" THEN UniquenessSupports(proofs, relation.to, relation.target) ELSE {},
         presence |-> IF relation.nullable THEN {} ELSE support \cup Declarations(tables[relation.from], relation.local)]]

Assembled(tables, keys, proofs) ==
    LET relations == ForeignKeyRelations(tables, keys) IN
    [k |-> "catalog", tables |-> tables, foreignKeys |-> keys, proofs |-> proofs,
     relations |-> [i \in DOMAIN relations |-> ProviderSupports(tables, keys, proofs, relations[i])]]

\* try_from_metadata, attach_provider_supports
ProviderCatalog(metadata) ==
    IF ~BuildCatalogTypes(metadata) \/ ~WellFormed(metadata) THEN Refused
    ELSE Assembled([table \in TableKeys(metadata) |-> CatalogTable(TableNamed(metadata, table))],
                   ForeignKeys(metadata), ProviderProofs(metadata))

-----------------------------------------------------------------------------
\* What names mean.  A reference has a schema and a selector, or none.

RelationFields(catalog, table) ==
    {i \in DOMAIN catalog.relations:
        LET relation == catalog.relations[i] IN
        relation.from = table /\ relation.visible /\ catalog.tables[relation.to].visible}

VisibleColumns(table) == {c \in DOMAIN table.columns: table.columns[c].visible}

NotFound == [k |-> "not found"]
Ambiguous == [k |-> "ambiguous"]

RelationFound(found) ==
    CASE found = {} -> NotFound
      [] Cardinality(found) = 1 -> [k |-> "relation", at |-> The(found)]
      [] OTHER -> Ambiguous

\* check_field_ref: a column, unless it is qualified; else the one relation it fits.
CheckFieldRef(catalog, table, field) ==
    IF field.schema = <<>> /\ field.selector = <<>> /\ field.name \in VisibleColumns(catalog.tables[table])
    THEN [k |-> "column", name |-> field.name]
    ELSE RelationFound({i \in RelationFields(catalog, table):
             /\ catalog.relations[i].name = field.name
             /\ catalog.relations[i].to[1] = IF field.schema = <<>> THEN DefaultSchema ELSE field.schema[1]
             /\ field.selector \in {<<>>, <<catalog.relations[i].selector>>}})

\* resolve_table_ref_for
ResolveTableRef(catalog, schema, name) ==
    LET matches == {t \in DOMAIN catalog.tables:
                       catalog.tables[t].visible /\ t[2] = name /\ (schema # <<>> => t[1] = schema[1])} IN
    CASE matches = {} -> NotFound
      [] Cardinality(matches) = 1 -> [k |-> "table", table |-> The(matches)]
      [] OTHER -> Ambiguous

-----------------------------------------------------------------------------
\* semantic_fingerprint: everything is sorted by what it is; only proofs of one name
\* keep the order they came in.

Occurrences(items) == [item \in ToSet(items) |-> Cardinality({i \in DOMAIN items: items[i] = item})]
HashedTable(table) == [table EXCEPT !.unique = Occurrences(@), !.indexes = Occurrences(@)]
HashedRelation(relation) == [relation EXCEPT !.join = 0]

HashedProofs(proofs) ==
    [key \in {<<proofs[i].table, proofs[i].name>>: i \in DOMAIN proofs} |->
        SelectSeq(proofs, LAMBDA proof: <<proof.table, proof.name>> = key)]

SemanticFingerprint(catalog) ==
    IF catalog = Refused THEN Refused
    ELSE [k |-> "fingerprint",
          tables |-> [t \in DOMAIN catalog.tables |-> HashedTable(catalog.tables[t])],
          relations |-> {HashedRelation(catalog.relations[i]): i \in DOMAIN catalog.relations},
          proofs |-> HashedProofs(catalog.proofs)]
=============================================================================
