------------------------------- MODULE Overlays -------------------------------
(***************************************************************************)
(* Overlay files on a provider's catalog (dsql-project/src/overlay.rs).  A *)
(* file is [path, objects], read in the order of the paths; an object is a *)
(* patch of one table: [target, description, hidden, columns, unique,      *)
(* relationships, hides].  All files make one catalog, or none.            *)
(***************************************************************************)
EXTENDS Catalogs

\* Every patch with the file it is in, in order.
Patches(overlays) ==
    FlattenSeq([i \in DOMAIN overlays |->
                   [j \in DOMAIN overlays[i].objects |-> [path |-> overlays[i].path, patch |-> overlays[i].objects[j]]]])

-----------------------------------------------------------------------------
\* What a patch owns: nobody else may, not even to say the same.

Written(description, hidden, key) ==
    One(description # <<>>, <<key, "description">>) \o One(hidden # "unset", <<key, "hidden">>)
Claims(patch) ==
    Written(patch.description, patch.hidden, <<"object", patch.target>>)
    \o FlattenSeq([i \in DOMAIN patch.columns |->
           Written(patch.columns[i].description, patch.columns[i].hidden, <<"column", patch.target, patch.columns[i].name>>)])
    \o [i \in DOMAIN patch.unique |-> <<"unique", patch.target, patch.unique[i].name>>]
    \o [i \in DOMAIN patch.relationships |-> <<"relation", patch.target, patch.relationships[i].name>>]
    \o [i \in DOMAIN patch.hides |->
           <<"hide", patch.target, patch.hides[i].target, patch.hides[i].selector, patch.hides[i].direction>>]

\* Bug: what two files say is settled by the later one.
LaterFileWins(patches) == TRUE

\* claim, over all files
ClaimedOnce(patches) == Distinct(FlattenSeq([i \in DOMAIN patches |-> Claims(patches[i].patch)]))

\* validate_object_shape
OnlyHides(patch) ==
    /\ patch.description = <<>> /\ patch.columns = <<>> /\ patch.unique = <<>>
    /\ patch.relationships = <<>> /\ patch.hides = <<>>
ValidObjectShape(patch) == patch.hidden # "false" /\ (patch.hidden = "true" => OnlyHides(patch))

\* validate_column_shape
ValidColumnShape(column) == column.hidden # "false" /\ (column.hidden = "true" => column.description = <<>>)

Validated(catalog, patch) ==
    /\ patch.target \in DOMAIN catalog.tables
    /\ ValidObjectShape(patch)
    /\ \A i \in DOMAIN patch.columns:
           ValidColumnShape(patch.columns[i]) /\ patch.columns[i].name \in DOMAIN catalog.tables[patch.target].columns

-----------------------------------------------------------------------------
\* Facts of objects.

Overlay(path, table, item) == Support("overlay", path, <<table, item>>)

\* apply_object_patch
PatchColumn(catalog, path, table, patch) ==
    LET item == <<"columns", patch.name>> IN
    [catalog EXCEPT !.tables[table].columns[patch.name] =
        [@ EXCEPT !.description = IF patch.description = <<>> THEN @ ELSE <<patch.description, Overlay(path, table, item)>>,
                  !.visible = @ /\ patch.hidden # "true",
                  !.exposure = @ \cup IF patch.hidden = "true" THEN {Overlay(path, table, item)} ELSE {}]]
PatchTable(catalog, path, table, patch) ==
    [catalog EXCEPT !.tables[table] =
        [@ EXCEPT !.description = IF patch.description = <<>> THEN @ ELSE <<patch.description, Overlay(path, table, "object")>>,
                  !.visible = @ /\ patch.hidden # "true",
                  !.exposure = @ \cup IF patch.hidden = "true" THEN {Overlay(path, table, "object")} ELSE {}]]
ApplyObjectPatch(catalog, path, patch) ==
    FoldLeft(LAMBDA so, column: PatchColumn(so, path, patch.target, column),
             PatchTable(catalog, path, patch.target, patch), patch.columns)

ProviderNames(table) == ToSet(Names(table.constraints)) \cup ToSet(Names(table.indexes))

\* apply_uniqueness
ValidUniqueness(catalog, provider, table, unique) ==
    /\ catalog.tables[table].object \in {"view", "materialized_view"}
    /\ unique.columns # <<>> /\ ToSet(unique.columns) \subseteq DOMAIN catalog.tables[table].columns
    /\ Distinct(unique.columns)
    /\ unique.name \notin ProviderNames(provider)
    /\ \A i \in DOMAIN catalog.proofs: ~(catalog.proofs[i].table = table /\ catalog.proofs[i].columns = unique.columns)
AssertUnique(catalog, provider, path, table, unique) ==
    IF catalog = Refused \/ ~ValidUniqueness(catalog, provider, table, unique) THEN Refused
    ELSE [catalog EXCEPT
             !.tables[table].unique = Append(@, unique.columns),
             !.proofs = Append(@, Proof(table, unique.name, unique.columns, Overlay(path, table, <<"unique", unique.name>>)))]
ApplyUniqueness(catalog, provider, path, patch) ==
    FoldLeft(LAMBDA so, unique: AssertUnique(so, provider, path, patch.target, unique), catalog, patch.unique)

ApplyFacts(metadata, catalog, path, patch) ==
    IF catalog = Refused THEN Refused
    ELSE ApplyUniqueness(ApplyObjectPatch(catalog, path, patch), TableNamed(metadata, patch.target), path, patch)

-----------------------------------------------------------------------------
\* Relationships.

HideMatches(catalog, table, hide) ==
    {i \in DOMAIN catalog.relations:
        LET relation == catalog.relations[i] IN
        /\ relation.from = table /\ relation.visible
        /\ relation.to = hide.target /\ relation.selector = hide.selector
        /\ relation.join # 0 /\ relation.direction = hide.direction}

\* apply_relation_hides
HideRelation(catalog, path, table, hide) ==
    IF catalog = Refused \/ hide.target \notin DOMAIN catalog.tables THEN Refused
    ELSE IF ~catalog.tables[hide.target].visible \/ Cardinality(HideMatches(catalog, table, hide)) # 1 THEN Refused
    ELSE [catalog EXCEPT !.relations[The(HideMatches(catalog, table, hide))] =
             [@ EXCEPT !.visible = FALSE,
                       !.supports.exposure = @ \cup {Overlay(path, table, <<"hide", hide.target, hide.selector, hide.direction>>)}]]
ApplyRelationHides(catalog, path, patch) ==
    FoldLeft(LAMBDA so, hide: HideRelation(so, path, patch.target, hide), catalog, patch.hides)

\* Bug: the direction of the foreign key is not looked at.
MatchingEitherWay(keys, table, target, local, columns) ==
    {[join |-> i, direction |-> "referencing"]: i \in {j \in DOMAIN keys:
        \/ keys[j].from = table /\ keys[j].to = target /\ keys[j].columns = local /\ keys[j].references = columns
        \/ keys[j].to = table /\ keys[j].from = target /\ keys[j].references = local /\ keys[j].columns = columns}}

\* matching_foreign_keys
MatchingForeignKeys(keys, table, target, local, columns) ==
    {[join |-> i, direction |-> "referencing"]: i \in {j \in DOMAIN keys:
        keys[j].from = table /\ keys[j].to = target /\ keys[j].columns = local /\ keys[j].references = columns}}
    \cup
    {[join |-> i, direction |-> "referenced"]: i \in {j \in DOMAIN keys:
        keys[j].to = table /\ keys[j].from = target /\ keys[j].references = local /\ keys[j].columns = columns}}

\* Bug: names of relationships are not looked at.
ColumnTaken(catalog, table, name) == name \in VisibleColumns(catalog.tables[table])

FieldTaken(catalog, table, name) ==
    \/ name \in VisibleColumns(catalog.tables[table])
    \/ \E i \in RelationFields(catalog, table): catalog.relations[i].name = name

\* Bug: types are not compared.
AnyTypes(catalog, table, target, mapping) == TRUE

\* validate_column_types
SameType(catalog, table, target, mapping) ==
    catalog.tables[table].columns[mapping.local].type = catalog.tables[target].columns[mapping.target].type

Locals(mappings) == [i \in DOMAIN mappings |-> mappings[i].local]
Targets(mappings) == [i \in DOMAIN mappings |-> mappings[i].target]
ValidMapping(catalog, table, target, mappings) ==
    /\ mappings # <<>>
    /\ \A i \in DOMAIN mappings:
           /\ mappings[i].local \in DOMAIN catalog.tables[table].columns
           /\ mappings[i].target \in DOMAIN catalog.tables[target].columns
           /\ SameType(catalog, table, target, mappings[i])
    /\ Distinct(Locals(mappings)) /\ Distinct(Targets(mappings))

ValidRelationship(catalog, table, relationship) ==
    /\ relationship.target \in DOMAIN catalog.tables
    /\ catalog.tables[relationship.target].visible
    /\ ~FieldTaken(catalog, table, relationship.name)
    /\ ValidMapping(catalog, table, relationship.target, relationship.columns)

\* provider_foreign_key_support
ForeignKeySupport(catalog, join) ==
    catalog.relations[CHOOSE i \in DOMAIN catalog.relations:
        /\ catalog.relations[i].join = join
        /\ \A j \in DOMAIN catalog.relations: catalog.relations[j].join = join => i <= j].supports.join

AuthoredSupports(catalog, support, relation) ==
    [declaration |-> {support}, exposure |-> {},
     join |-> IF relation.join = 0 THEN {} ELSE ForeignKeySupport(catalog, relation.join),
     cardinality |-> IF relation.cardinality = "singular" THEN UniquenessSupports(catalog.proofs, relation.to, relation.target) ELSE {},
     presence |-> IF relation.nullable THEN {}
                  ELSE ForeignKeySupport(catalog, relation.join) \cup Declarations(catalog.tables[relation.from], relation.local)]

AddRelation(catalog, support, relation) ==
    [catalog EXCEPT !.relations = Append(@, [relation EXCEPT !.supports = AuthoredSupports(catalog, support, relation)])]

Joined(relation, key) == [relation EXCEPT !.join = key.join, !.direction = key.direction]
Unjoined == [join |-> 0, direction |-> "none"]

AuthoredRelation(catalog, table, name, target, local, columns, key) ==
    Joined(Relation(name, table, target, local, columns, CardinalityOf(catalog.tables[target], columns),
                    ~(key.direction = "referencing" /\ ~AnyNullable(catalog.tables[table], local))), key)

\* apply_relationships
Author(catalog, path, table, relationship, keys) ==
    IF Cardinality(keys) > 1 THEN Refused
    ELSE AddRelation(catalog, Overlay(path, table, <<"relationship", relationship.name>>),
                     AuthoredRelation(catalog, table, relationship.name, relationship.target,
                                      Locals(relationship.columns), Targets(relationship.columns),
                                      IF keys = {} THEN Unjoined ELSE The(keys)))
ApplyRelationship(catalog, path, table, relationship) ==
    IF catalog = Refused \/ ~ValidRelationship(catalog, table, relationship) THEN Refused
    ELSE Author(catalog, path, table, relationship,
                MatchingForeignKeys(catalog.foreignKeys, table, relationship.target,
                                    Locals(relationship.columns), Targets(relationship.columns)))
ApplyRelationships(catalog, path, patch) ==
    FoldLeft(LAMBDA so, relationship: ApplyRelationship(so, path, patch.target, relationship), catalog, patch.relationships)

-----------------------------------------------------------------------------
\* validate_effective_graph: what is hidden is patched by nobody else.

PatchesOfColumn(patches, table, name) ==
    {<<i, c>> \in UNION {{i} \X DOMAIN patches[i].patch.columns: i \in DOMAIN patches}:
        patches[i].patch.target = table /\ patches[i].patch.columns[c].name = name}

ValidEffectiveGraph(patches, catalog) ==
    \A i \in DOMAIN patches: LET table == patches[i].patch.target IN
        /\ ~catalog.tables[table].visible => \A j \in DOMAIN patches \ {i}: patches[j].patch.target # table
        /\ \A c \in DOMAIN patches[i].patch.columns: LET name == patches[i].patch.columns[c].name IN
               ~catalog.tables[table].columns[name].visible => Cardinality(PatchesOfColumn(patches, table, name)) = 1

\* compose: facts of all files before the hides of all files before their relationships.
WithFacts(metadata, patches, catalog) ==
    FoldLeft(LAMBDA so, item: ApplyFacts(metadata, so, item.path, item.patch), catalog, patches)
WithHides(patches, catalog) ==
    FoldLeft(LAMBDA so, item: ApplyRelationHides(so, item.path, item.patch), catalog, patches)
WithRelationships(patches, catalog) ==
    FoldLeft(LAMBDA so, item: ApplyRelationships(so, item.path, item.patch), catalog, patches)
\* Bug: each file is applied as a whole before the next.
AppliedFileByFile(metadata, patches, catalog) ==
    FoldLeft(LAMBDA so, item:
                 ApplyRelationships(ApplyRelationHides(ApplyFacts(metadata, so, item.path, item.patch), item.path, item.patch),
                                    item.path, item.patch),
             catalog, patches)

Applied(metadata, patches, catalog) == WithRelationships(patches, WithHides(patches, WithFacts(metadata, patches, catalog)))

Checked(patches, catalog) == IF catalog = Refused \/ ~ValidEffectiveGraph(patches, catalog) THEN Refused ELSE catalog
Compose(metadata, patches, catalog) ==
    IF catalog = Refused \/ ~ClaimedOnce(patches) \/ \E i \in DOMAIN patches: ~Validated(catalog, patches[i].patch) THEN Refused
    ELSE Checked(patches, Applied(metadata, patches, catalog))

\* load_effective_catalog
EffectiveCatalog(metadata, overlays) == Compose(metadata, Patches(overlays), ProviderCatalog(metadata))
=============================================================================
