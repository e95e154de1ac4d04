---------------------------- MODULE CatalogMeaning ----------------------------
(***************************************************************************)
(* What a database and its overlays mean, without an order of composition: *)
(* sets of facts, hides and edges, and which rows may exist together.      *)
(***************************************************************************)
EXTENDS Overlays

AllPatches(patches) == {patches[i].patch: i \in DOMAIN patches}

-----------------------------------------------------------------------------
\* Which tuples cannot be there twice, and who says so.

UniqueFact(table, columns, support) == [table |-> table, columns |-> ToSet(columns), support |-> support]
ProviderFacts(table) ==
    {UniqueFact(table.key, item.columns, Provider(table.key, <<"constraint", item.name>>)): item \in ToSet(table.constraints)}
    \cup {UniqueFact(table.key, item.keys, Provider(table.key, <<"index", item.name>>)):
             item \in {index \in ToSet(table.indexes): index.unique}}
AssertedFacts(item) ==
    {UniqueFact(item.patch.target, unique.columns, Overlay(item.path, item.patch.target, <<"unique", unique.name>>)):
        unique \in ToSet(item.patch.unique)}
Facts(metadata, patches) ==
    UNION {ProviderFacts(table): table \in ToSet(metadata.tables)} \cup UNION {AssertedFacts(item): item \in ToSet(patches)}

\* Two rows of a table, by column: they have the same value, different ones, or a null.
Pairs(table) ==
    {pair \in [ToSet(Names(table.columns)) -> {"same", "different", "null"}]:
        \A column \in ToSet(table.columns): column.notNull => pair[column.name] # "null"}
Agree(pair, columns) == \A column \in columns: pair[column] = "same"

\* A value of the columns may be found in two rows.
CouldMeetTwo(metadata, facts, table, columns) ==
    \E pair \in Pairs(TableNamed(metadata, table)):
        /\ Agree(pair, columns)
        /\ \A fact \in facts: fact.table = table => ~Agree(pair, fact.columns)

-----------------------------------------------------------------------------
\* Who can be reached from whom.

Edge(name, selector, from, to, local, target, direction) ==
    [name |-> name, selector |-> selector, from |-> from, to |-> to, local |-> local, target |-> target, direction |-> direction]
EdgesOf(table) ==
    UNION {{Edge(key.table[2], key.columns, table.key, key.table, key.columns, key.references, "referencing"),
            Edge(table.key[2], key.columns, key.table, table.key, key.references, key.columns, "referenced")}:
               key \in ToSet(table.foreignKeys)}
ProviderEdges(metadata) == UNION {EdgesOf(table): table \in ToSet(metadata.tables)}
AuthoredEdges(patch) ==
    {Edge(relationship.name, Locals(relationship.columns), patch.target, relationship.target,
          Locals(relationship.columns), Targets(relationship.columns), "authored"):
        relationship \in ToSet(patch.relationships)}

HiddenTable(patches, table) == \E patch \in AllPatches(patches): patch.target = table /\ patch.hidden = "true"
HiddenColumn(patches, table, name) ==
    \E patch \in AllPatches(patches): \E column \in ToSet(patch.columns):
        patch.target = table /\ column.name = name /\ column.hidden = "true"
HiddenEdge(patches, edge) ==
    \E patch \in AllPatches(patches): \E hide \in ToSet(patch.hides):
        /\ patch.target = edge.from /\ hide.target = edge.to
        /\ hide.selector = edge.selector /\ hide.direction = edge.direction

Edges(metadata, patches) ==
    {edge \in ProviderEdges(metadata): ~HiddenEdge(patches, edge)}
    \cup UNION {AuthoredEdges(patch): patch \in AllPatches(patches)}

\* A foreign key whose columns are never null finds its row.
MustMeetOne(metadata, edge) ==
    LET table == TableNamed(metadata, edge.from) IN
    /\ \E key \in ToSet(table.foreignKeys): key.table = edge.to /\ key.columns = edge.local /\ key.references = edge.target
    /\ \A column \in ToSet(table.columns): Contains(edge.local, column.name) => column.notNull
    /\ edge.direction # "referenced"

ExposedEdge(edge, cardinality, nullable) ==
    [name |-> edge.name, selector |-> edge.selector, from |-> edge.from, to |-> edge.to, local |-> edge.local, target |-> edge.target,
     cardinality |-> cardinality, nullable |-> nullable]
MeantEdge(metadata, facts, edge) ==
    ExposedEdge(edge, IF CouldMeetTwo(metadata, facts, edge.to, ToSet(edge.target)) THEN "collection" ELSE "singular",
                ~MustMeetOne(metadata, edge))
MeantFields(metadata, patches, facts, table) ==
    {MeantEdge(metadata, facts, edge): edge \in {e \in Edges(metadata, patches): e.from = table /\ ~HiddenTable(patches, e.to)}}

\* Queries see what is not hidden, and a relationship is a row, perhaps none, or many as
\* the facts of all files make it.
ShowsWhatIsMeant(metadata, patches, facts, catalog) ==
    \A table \in TableKeys(metadata):
        /\ catalog.tables[table].visible = ~HiddenTable(patches, table)
        /\ \A name \in ToSet(Names(TableNamed(metadata, table).columns)):
               name \in VisibleColumns(catalog.tables[table]) <=> ~HiddenColumn(patches, table, name)
        /\ {ExposedEdge(catalog.relations[i], catalog.relations[i].cardinality, catalog.relations[i].nullable):
               i \in RelationFields(catalog, table)} = MeantFields(metadata, patches, facts, table)

\* A claim about the rows of a relation is there with what proves it, and without it not.
SupportsProve(facts, catalog) ==
    \A i \in DOMAIN catalog.relations: LET relation == catalog.relations[i] IN
        /\ relation.cardinality = "singular" <=> relation.supports.cardinality # {}
        /\ relation.supports.cardinality \subseteq
               {fact.support: fact \in {f \in facts: f.table = relation.to /\ f.columns \subseteq ToSet(relation.target)}}
        /\ ~relation.nullable <=> relation.supports.presence # {}
        /\ ~relation.nullable => relation.supports.join \cup Declarations(catalog.tables[relation.from], relation.local)
                                     = relation.supports.presence
        /\ ~relation.visible <=> relation.supports.exposure # {}

\* What is joined has one type.
JoinsFit(catalog) ==
    \A relation \in ToSet(catalog.relations): \A i \in DOMAIN relation.local:
        catalog.tables[relation.from].columns[relation.local[i]].type = catalog.tables[relation.to].columns[relation.target[i]].type

\* An authored relationship is the one field of its name.
AuthoredNamesResolve(patches, catalog) ==
    \A patch \in AllPatches(patches): \A relationship \in ToSet(patch.relationships):
        LET schemas == {<<relationship.target[1]>>} \cup (IF relationship.target[1] = DefaultSchema THEN {<<>>} ELSE {}) IN
        \A schema \in schemas:
            LET found == CheckFieldRef(catalog, patch.target, [schema |-> schema, selector |-> <<>>, name |-> relationship.name]) IN
            found.k = "relation" /\ catalog.relations[found.at].to = relationship.target
                                 /\ catalog.relations[found.at].local = Locals(relationship.columns)

\* A field of a table is found under its full name, unless another has the same, and what
\* is found is visible.
FieldsResolve(catalog) ==
    \A table \in DOMAIN catalog.tables: \A i \in RelationFields(catalog, table):
        LET relation == catalog.relations[i]
            found == CheckFieldRef(catalog, table, [schema |-> <<relation.to[1]>>, selector |-> <<relation.selector>>, name |-> relation.name])
            alike == {j \in RelationFields(catalog, table):
                         /\ catalog.relations[j].name = relation.name /\ catalog.relations[j].to[1] = relation.to[1]
                         /\ catalog.relations[j].selector = relation.selector} IN
        IF alike = {i} THEN found = [k |-> "relation", at |-> i] ELSE found = Ambiguous

\* A table found by its name alone is the only visible one of that name.
TablesResolve(catalog) ==
    \A table \in DOMAIN catalog.tables:
        /\ (ResolveTableRef(catalog, <<table[1]>>, table[2]) = [k |-> "table", table |-> table]) = catalog.tables[table].visible
        /\ LET found == ResolveTableRef(catalog, <<>>, table[2]) IN
           found.k = "not found" <=> \A other \in DOMAIN catalog.tables: other[2] = table[2] => ~catalog.tables[other].visible

-----------------------------------------------------------------------------
\* Types, followed one step after the other.

Related(types, key) == IF key = <<>> THEN <<>> ELSE TypeNamed(types, key[1]).related
Walk(types, key) ==
    LET walk[n \in 0..Len(types)] == IF n = 0 THEN <<key>> ELSE Related(types, walk[n - 1]) IN walk

KnownType(types, key) == \E i \in DOMAIN types: types[i].key = key
WellStructured(types, type) ==
    /\ type.kind \in {"scalar", "enum"} <=> type.related = <<>>
    /\ type.related # <<>> => KnownType(types, type.related[1])
    /\ type.native <=> type.kind = "enum"
    /\ type.kind = "enum" => ValidVariants(type.variants)
Ends(types, walk) == walk[Len(types)] = <<>>
SoundTypes(types) ==
    /\ Distinct([i \in DOMAIN types |-> types[i].key])
    /\ \A i \in DOMAIN types: WellStructured(types, types[i])
    /\ \A i \in DOMAIN types: Ends(types, Walk(types, types[i].key))

Steps(types, walk) == {n \in DOMAIN walk: walk[n] # <<>>}
KindAt(types, walk, n) == TypeNamed(types, walk[n][1]).kind
ArraysOn(types, walk) == {n \in Steps(types, walk): KindAt(types, walk, n) = "array"}
Latest(steps) == CHOOSE n \in steps: \A m \in steps: m <= n

\* The data of a domain are those of the type it is for in the end.
MeantData(types, walk) ==
    LET last == Latest(Steps(types, walk)) IN
    IF ArraysOn(types, walk) # {} \/ KindAt(types, walk, last) = "enum" THEN "unknown"
    ELSE TypeNamed(types, walk[last][1]).data

\* Arrays of arrays are arrays, of what the last one holds.
MeantShape(types, walk) ==
    IF ArraysOn(types, walk) = {} THEN ScalarShape(walk[0][1]) ELSE ArrayShape(walk[Latest(ArraysOn(types, walk)) + 1][1])
=============================================================================
