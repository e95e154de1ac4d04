------------------------------ MODULE MCOverlays ------------------------------
(***************************************************************************)
(* Small databases with overlays of two files, and small graphs of types.  *)
(***************************************************************************)
EXTENDS CatalogMeaning

Orders == <<"public", "orders">>
Customers == <<"public", "customers">>
OldOrders == <<"old", "orders">>
Totals == <<"public", "totals">>     \* a view

Column(name, notNull) == [name |-> name, type |-> "int", data |-> "int", notNull |-> notNull]
Key(kind, name, columns) == [kind |-> kind, name |-> name, columns |-> columns]
Index(name, unique, keys) == [name |-> name, unique |-> unique, keys |-> keys, included |-> <<>>]
Reference(name, columns, table, references) ==
    [name |-> name, columns |-> columns, table |-> table, references |-> references]
Table(key, object, columns, constraints, indexes, foreignKeys) ==
    [key |-> key, object |-> object, columns |-> columns, constraints |-> constraints, indexes |-> indexes,
     foreignKeys |-> foreignKeys]

\* A customer has an id and a code of its region, and perhaps somebody who sent them.
CustomersTable(keys) ==
    Table(Customers, "table", <<Column("id", TRUE), Column("code", TRUE), Column("sent", FALSE)>>,
          <<Key("primary_key", "customers_pk", <<"id">>)>>, keys, <<Reference("sent_fk", <<"sent">>, Customers, <<"id">>)>>)
OrdersTable(notNull, indexes, more) ==
    Table(Orders, "table", <<Column("id", TRUE), Column("buyer", notNull), Column("payer", FALSE),
                             [Column("note", FALSE) EXCEPT !.type = "text", !.data = "text"]>>,
          <<Key("primary_key", "orders_pk", <<"id">>)>>, indexes,
          <<Reference("buyer_fk", <<"buyer">>, Customers, <<"id">>)>> \o more)
PayerKey == Reference("payer_fk", <<"payer">>, Customers, <<"id">>)
PairKey == Reference("pair_fk", <<"buyer", "payer">>, Customers, <<"id", "code">>)
OldTable ==
    Table(OldOrders, "table", <<Column("id", TRUE), Column("buyer", TRUE)>>, <<Key("unique", "old_key", <<"buyer">>)>>, <<>>,
          <<Reference("old_fk", <<"buyer">>, Customers, <<"id">>)>>)
TotalsView(object, indexes) ==
    Table(Totals, object, <<Column("buyer", FALSE), Column("sum", FALSE)>>, <<>>, indexes, <<>>)

Database(tables) == [types |-> <<>>, tables |-> tables]
Pair == Index("pair_index", TRUE, <<"id", "code">>)
Databases ==
    {Database(<<OrdersTable(notNull, indexes, more), CustomersTable(<<Pair>>), OldTable, view>>):
        notNull \in BOOLEAN,
        indexes \in {<<>>, <<Index("buyer_index", TRUE, <<"buyer">>)>>, <<Index("plain_index", FALSE, <<"buyer">>)>>,
                     <<Index("both_index", TRUE, <<"buyer", "payer">>)>>},
        more \in {<<>>, <<PayerKey>>, <<PairKey, Reference("twice_fk", <<"buyer">>, Customers, <<"id">>)>>},
        view \in {TotalsView("view", <<>>), TotalsView("materialized_view", <<Index("totals_index", TRUE, <<"buyer">>)>>)}}

-----------------------------------------------------------------------------
\* What files say of one object.

Patch(target) ==
    [target |-> target, description |-> <<>>, hidden |-> "unset", columns |-> <<>>, unique |-> <<>>, relationships |-> <<>>,
     hides |-> <<>>]
Described(target) == [Patch(target) EXCEPT !.description = <<"text">>]
HiddenObject(target) == [Patch(target) EXCEPT !.hidden = "true"]
OfColumn(name, description, hidden) == [name |-> name, description |-> description, hidden |-> hidden]
Columns(target, columns) == [Patch(target) EXCEPT !.columns = columns]
Unique(target, name, columns) == [Patch(target) EXCEPT !.unique = <<[name |-> name, columns |-> columns]>>]
Mapping(local, target) == [local |-> local, target |-> target]
Relationship(name, target, columns) == [name |-> name, target |-> target, columns |-> columns]
Relate(target, relationship) == [Patch(target) EXCEPT !.relationships = <<relationship>>]
Hide(target, selector, direction) == [target |-> target, selector |-> selector, direction |-> direction]
HideEdge(target, hide) == [Patch(target) EXCEPT !.hides = <<hide>>]

BuyerOf(name) == Relationship(name, Customers, <<Mapping("buyer", "id")>>)
OrdersOf(name) == Relationship(name, Orders, <<Mapping("id", "buyer")>>)
TotalsOf(name) == Relationship(name, Totals, <<Mapping("id", "buyer")>>)
HideBuyer == Hide(Customers, <<"buyer">>, "referencing")

ObjectPatches ==
    {Described(Orders), HiddenObject(Customers), HiddenObject(OldOrders), [HiddenObject(Orders) EXCEPT !.hidden = "false"],
     [HiddenObject(Totals) EXCEPT !.description = <<"text">>], Described(<<"public", "missing">>),
     Columns(Orders, <<OfColumn("buyer", <<>>, "true")>>), Columns(Orders, <<OfColumn("buyer", <<"text">>, "unset")>>),
     Columns(Customers, <<OfColumn("code", <<>>, "true"), OfColumn("sent", <<"text">>, "unset")>>),
     Columns(Totals, <<OfColumn("buyer", <<>>, "true")>>)}
UniquePatches ==
    {Unique(Totals, "totals_key", <<"buyer">>), Unique(Totals, "totals_pair", <<"buyer", "sum">>),
     Unique(Totals, "totals_other", <<"sum", "buyer">>), Unique(Totals, "totals_index", <<"sum">>),
     Unique(Orders, "orders_key", <<"payer">>), Unique(Totals, "totals_none", <<>>), Unique(Totals, "totals_same", <<"sum", "sum">>)}
RelationPatches ==
    {Relate(Orders, BuyerOf("buyer_of")), Relate(Orders, BuyerOf("customers")), Relate(Orders, BuyerOf("buyer")),
     Relate(Customers, OrdersOf("orders")), Relate(Customers, TotalsOf("totals")), Relate(Customers, TotalsOf("all")),
     Relate(Totals, Relationship("bought", Orders, <<Mapping("buyer", "buyer")>>)),
     Relate(Totals, Relationship("pair", Customers, <<Mapping("buyer", "id"), Mapping("sum", "code")>>)),
     Relate(Orders, Relationship("pair", Customers, <<Mapping("payer", "code"), Mapping("buyer", "id")>>)),
     Relate(Orders, Relationship("noted", Customers, <<Mapping("note", "id")>>)),
     Relate(Customers, Relationship("before", OldOrders, <<Mapping("id", "buyer")>>)),
     Relate(Customers, Relationship("twice", Totals, <<Mapping("id", "buyer"), Mapping("id", "sum")>>))}
HidePatches ==
    {HideEdge(Orders, HideBuyer), HideEdge(Customers, Hide(Orders, <<"buyer">>, "referenced")),
     HideEdge(Customers, Hide(OldOrders, <<"buyer">>, "referenced")), HideEdge(Customers, Hide(Customers, <<"sent">>, "referenced")),
     HideEdge(Customers, Hide(Orders, <<"buyer">>, "referencing")),
     [HideEdge(Orders, HideBuyer) EXCEPT !.relationships = <<BuyerOf("customers")>>]}
PatchPool == ObjectPatches \cup UniquePatches \cup RelationPatches \cup HidePatches

File(path, objects) == [path |-> path, objects |-> objects]

\* The opposite order is composed as well: a pair need not come in both.
Ordered(pair) == LET one == The(pair) IN IF pair = {one} THEN <<one, one>> ELSE <<one, The(pair \ {one})>>
Pairings == {Ordered(pair): pair \in {{one, other}: one, other \in PatchPool}}
OverlaySets == {<<File("a", <<pair[1]>>), File("b", <<pair[2]>>)>>: pair \in Pairings}
               \cup {<<File("a", <<one>>)>>: one \in PatchPool}

-----------------------------------------------------------------------------
\* Graphs of types, and a column of the first.

Variant(variant, value) == [variant |-> variant, value |-> value]
Type(key, kind, related) ==
    [key |-> key, kind |-> kind, related |-> related, data |-> "int", native |-> kind = "enum",
     variants |-> IF kind = "enum" THEN <<Variant("v", "v")>> ELSE <<>>]

Keys == {"a", "b", "c"}
TypesOf(key) ==
    {Type(key, kind, related): kind \in {"scalar", "domain", "array", "enum"}, related \in {<<>>, <<"a">>, <<"b">>, <<"c">>}}
    \cup {[Type(key, "scalar", <<>>) EXCEPT !.data = "text"], [Type(key, "scalar", <<>>) EXCEPT !.native = TRUE],
          Type(key, "array", <<"z">>), [Type(key, "enum", <<>>) EXCEPT !.native = FALSE],
          [Type(key, "enum", <<>>) EXCEPT !.variants = <<Variant("v", "w")>>]}
TypeTables(data) ==
    <<Table(Orders, "table", <<[name |-> "id", type |-> "a", data |-> data, notNull |-> TRUE]>>, <<>>, <<>>, <<>>)>>
TypeGraphs ==
    {[types |-> <<a, b, c>>, tables |-> TypeTables(data)]:
        a \in TypesOf("a"), b \in TypesOf("b"), c \in TypesOf("c") \cup {Type("a", "scalar", <<>>)}, data \in {"int", "unknown"}}

\* Types settled, and the shapes of their values.
TypeAnswer(metadata, progress) ==
    [ok |-> ProviderCatalog(metadata) # Refused, data |-> progress.data,
     shapes |-> IF progress.ok /\ Distinct([i \in DOMAIN metadata.types |-> metadata.types[i].key])
                THEN [i \in DOMAIN metadata.types |-> ValueShape(metadata.types, metadata.types[i].key)] ELSE <<>>]
TypesSettled(metadata) == TypeAnswer(metadata, ResolveTypes(metadata.types))

\* A graph of types is refused exactly if it is cyclic, broken, or not what a column is
\* said to be; else domains have the data of what they end in, arrays the shape of what
\* the last one holds.
TypesHold(metadata, found) ==
    /\ found.ok <=>
           /\ SoundTypes(metadata.types)
           /\ metadata.tables[1].columns[1].data = MeantData(metadata.types, Walk(metadata.types, "a"))
    /\ found.shapes # <<>> <=> SoundTypes(metadata.types)
    /\ found.shapes # <<>> =>
           \A i \in DOMAIN metadata.types: LET walk == Walk(metadata.types, metadata.types[i].key) IN
               found.data[i] = MeantData(metadata.types, walk) /\ found.shapes[i] = MeantShape(metadata.types, walk)

-----------------------------------------------------------------------------
\* The catalog of the files, and of the same files in the opposite order.
Composed(metadata, overlays) ==
    [catalog |-> EffectiveCatalog(metadata, overlays),
     provider |-> SemanticFingerprint(ProviderCatalog(metadata)),
     reversed |-> SemanticFingerprint(EffectiveCatalog(metadata, Reverse(overlays)))]

\* What files say is the same in any order, and is noticed.
OrderDoesNotMatter(found) == SemanticFingerprint(found.catalog) = found.reversed
ChangesAreNoticed(found) == SemanticFingerprint(found.catalog) # found.provider

MeansWhatItSays(metadata, patches, facts, catalog) ==
    /\ ShowsWhatIsMeant(metadata, patches, facts, catalog)
    /\ SupportsProve(facts, catalog) /\ JoinsFit(catalog)
    /\ AuthoredNamesResolve(patches, catalog)
    /\ FieldsResolve(catalog) /\ TablesResolve(catalog)

OverlaysHold(metadata, overlays, found) ==
    /\ OrderDoesNotMatter(found)
    /\ found.provider # Refused
    /\ found.catalog # Refused =>
           /\ ChangesAreNoticed(found)
           /\ MeansWhatItSays(metadata, Patches(overlays), Facts(metadata, Patches(overlays)), found.catalog)

CatalogOf(metadata, overlays) ==
    IF metadata.types = <<>> THEN Composed(metadata, overlays) ELSE TypesSettled(metadata)
CatalogHolds(metadata, overlays, found) ==
    IF metadata.types = <<>> THEN OverlaysHold(metadata, overlays, found) ELSE TypesHold(metadata, found)
=============================================================================
