------------------------------ MODULE PivotXml ------------------------------
(***************************************************************************)
(* The parts of a package that hold a pivot table, written from the model  *)
(* (Workbook/WorkbookPivotWrite.cpp) and read back                         *)
(* (Workbook/WorkbookPivotRead.cpp).                                       *)
(*                                                                         *)
(* The attributes of an element are a function from the names that are     *)
(* present: the writer leaves out what has its default, the reader puts    *)
(* the default where a name is absent.  A package is a record of parts (by *)
(* name), relationships (in file order) and the parts with a content type. *)
(***************************************************************************)
EXTENDS PivotModel

Only(m, names) == [n \in names |-> m[n]]
Written(m, always, defaults) ==
    Only(m, {n \in DOMAIN defaults : m[n] # defaults[n]} \cup always)
Read(attributes, defaults) == attributes @@ defaults

CacheDefaults == NewCache.options
FieldDefaults == [caption |-> "", formula |-> "", databaseField |-> TRUE]
ItemDefaults  == [t |-> "", n |-> "", h |-> FALSE, sd |-> TRUE, f |-> FALSE, m |-> FALSE]
PageDefaults  == [hier |-> -1, item |-> -1, name |-> ""]
DataDefaults  == [name |-> "", subtotal |-> "sum", showDataAs |-> "normal", baseField |-> -1, baseItem |-> -1, numFmtId |-> 0]
FilterDefaults == Only(NewFilter(0, ""), DOMAIN NewFilter(0, "") \ {"fld", "type", "id"})
GroupDefaults == Only(NewGroup, DOMAIN NewGroup \ {"items"})
AxisFieldDefaults == [compact |-> TRUE, outline |-> TRUE, sortType |-> 0, subtotals |-> {}]
OlapDefaults  == [preserveFormatting |-> TRUE, localCube |-> "", localConnection |-> ""]
MemberDefaults == [mdx |-> "", memberName |-> "", hierarchy |-> -1, solveOrder |-> "", set |-> ""]

-----------------------------------------------------------------------------
(* The values of a cache and the shared items of its fields.               *)
RecordValue(c, r, i) ==
    [t |-> IF HasTypedRecordKinds(c) THEN c.kinds[r][i] ELSE GuessedKind(c.records[r][i]),
     v |-> c.records[r][i]]

RECURSIVE FirstSeen(_)
FirstSeen(s) ==
    IF s = <<>> THEN <<>>
    ELSE LET rest == FirstSeen(SubSeq(s, 1, Len(s) - 1))
             last == s[Len(s)]
         IN  IF last \in Elements(rest) THEN rest ELSE Append(rest, last)

SharedItems(c) ==
    [i \in 1 .. Width(c) |-> FirstSeen([r \in DOMAIN c.records |-> RecordValue(c, r, i)])]

Position(s, x) == CHOOSE k \in DOMAIN s : s[k] = x

ResolvedIndex(c, index, name) ==                \* -1: the code throws
    IF HasField(c, index) THEN index ELSE IF name = "" THEN -1 ELSE FieldIndex(c, name)
AxisIndexes(p, a) == [k \in DOMAIN p.fields[a] |-> ResolvedIndex(p.cache, p.fields[a][k].index, p.fields[a][k].name)]
DataIndexes(p) == [k \in DOMAIN p.data |-> ResolvedIndex(p.cache, p.data[k].fld, p.data[k].source)]
OnAxis(p, i) == \E a \in Axes : i \in Elements(AxisIndexes(p, a))
Resolved(p) == -1 \notin Elements(DataIndexes(p)) /\ ~OnAxis(p, -1)

PureData(p, i) == i \in Elements(DataIndexes(p)) /\ ~OnAxis(p, i)

\* writePivotValue: numbers and booleans that are none are refused, <m/> has no text.
Writable(v) == /\ v.t = "n" => v.v \in Numerals
               /\ v.t = "b" => v.v \in {"true", "false", "1", "0"}
ValueNode(v) ==
    [t |-> v.t, x |-> -1,
     v |-> IF v.t = "m" THEN ""
           ELSE IF v.t = "b" THEN (IF v.v \in {"true", "1"} THEN "1" ELSE "0") ELSE v.v]
NodeValue(n) == [t |-> n.t, v |-> IF n.t # "b" THEN n.v ELSE IF n.v = "1" THEN "true" ELSE "false"]

-----------------------------------------------------------------------------
(* pivotTableXml                                                           *)
\* The item the field's model has for the value at that ordinal.
\* Mutant: by its ordinal alone.
NamesOrdinal(item, value, ordinal) == item.x = ordinal
Names(item, value, ordinal) ==
    IF item.bound # <<>> THEN item.bound[1] = value ELSE item.x = ordinal
ItemFor(f, value, ordinal) ==
    LET named == {k \in DOMAIN f.items : Names(f.items[k], value, ordinal)}
    IN  IF named # {} THEN Only(f.items[Smallest(named)], DOMAIN ItemDefaults)
        ELSE [ItemDefaults EXCEPT !.h = ordinal \in f.hidden]

\* The model field of a cache field: the first of the rows, then columns, then pages.
AxisOf(p, i) == CASE i \in Elements(AxisIndexes(p, "axisRow")) -> "axisRow"
                  [] i \in Elements(AxisIndexes(p, "axisCol")) -> "axisCol"
                  [] OTHER -> "axisPage"
ModelField(p, i) == p.fields[AxisOf(p, i)][Position(AxisIndexes(p, AxisOf(p, i)), i)]

ItemNode(f, value, ordinal) ==
    [x |-> ordinal] @@ Written(ItemFor(f, value, ordinal), {}, ItemDefaults)
FieldNode(p, i, shared) ==
    LET f == ModelField(p, i)
        data == IF i \in Elements(DataIndexes(p)) THEN [dataField |-> TRUE] ELSE <<>>
    IN  IF ~OnAxis(p, i) THEN [attributes |-> [showAll |-> FALSE] @@ data, items |-> <<>>]
        ELSE [attributes |-> [axis |-> AxisOf(p, i)] @@ data
                             @@ Written(f, {"showAll", "defaultSubtotal"}, AxisFieldDefaults),
              items |-> [k \in DOMAIN shared |-> ItemNode(f, shared[k], k - 1)]]

\* An anchor alone grows to the rectangle of the row items and the data fields.
Location(p) ==
    LET first == IF p.location = <<>> THEN <<2, 4>> ELSE p.location[1]
        rows == AxisIndexes(p, "axisRow")
        items == IF rows = <<>> THEN 1 ELSE Len(SharedItems(p.cache)[rows[1] + 1]) + 1
    IN  IF Len(p.location) = 2 THEN p.location
        ELSE <<first, <<first[1] + Largest({2, items + 1}) - 1, first[2] + Largest({2, 1 + Len(p.data)}) - 1>>>>

SourceOf(p, k) == IF p.data[k].source = "" THEN Field(p.cache, DataIndexes(p)[k]).name ELSE p.data[k].source
DisplayName(p, k) ==
    IF p.data[k].name # "" THEN p.data[k].name
    ELSE IF p.data[k].subtotal = "sum" THEN "Sum of " \o SourceOf(p, k) ELSE SourceOf(p, k)

NoPage == NewPage(-1)
PageNode(p, k) ==
    [fld |-> AxisIndexes(p, "axisPage")[k]]
    @@ Written(IF k \in DOMAIN p.pages THEN p.pages[k] ELSE NoPage, {"hier"}, PageDefaults)
DataNode(p, k) == [fld |-> DataIndexes(p)[k], name |-> DisplayName(p, k)] @@ Written(p.data[k], {}, DataDefaults)

TableIsWritable(p) ==
    /\ p.name # "" /\ p.cache.fields # <<>>
    /\ Resolved(p)
    /\ AllOfWidth(p.cache, p.cache.records)
    /\ \A f \in Elements(p.filters) : f.fld >= 0 /\ f.type # ""

FilterNode(f) == Written(f, {"fld", "type", "id"}, FilterDefaults)

PivotTableXml(p, cacheId) ==
    When(TableIsWritable(p),
    LET shared == SharedItems(p.cache)
    IN  [root |-> "pivotTableDefinition", nodes |-> <<>>, name |-> p.name, cacheId |-> cacheId,
     location |-> Location(p), options |-> p.options, chartFormat |-> p.chartFormat,
     fields |-> [i \in 1 .. Width(p.cache) |-> FieldNode(p, i - 1, shared[i])],
     rows |-> AxisIndexes(p, "axisRow"), columns |-> AxisIndexes(p, "axisCol"),
     pages |-> [k \in DOMAIN p.fields["axisPage"] |-> PageNode(p, k)],
     data |-> [k \in DOMAIN p.data |-> DataNode(p, k)],
     chartFormats |-> p.chartFormats, style |-> p.style,
     filters |-> [k \in DOMAIN p.filters |-> FilterNode(p.filters[k])]])

-----------------------------------------------------------------------------
(* pivotCacheXml and pivotCacheRecordsXml                                  *)
MemberNode(m) == IF m.raw # <<>> THEN m.raw[1] ELSE Written(m, {"name", "mdx"}, MemberDefaults)
SourceNode(c) ==
    IF c.olap # <<>>
    THEN [type |-> "olap", connectionId |-> c.olap[1].connectionId,
          info |-> IF c.olap[1].raw # <<>> THEN c.olap[1].raw
                   ELSE <<Written(c.olap[1], {"preserveFormatting"}, OlapDefaults)>>]
    ELSE [type |-> "worksheet", sheet |-> c.sheet, name |-> c.sourceName,
          ref |-> IF c.sourceName # "" THEN <<>> ELSE c.area]
GroupNode(g) == [attributes |-> Written(g, {}, GroupDefaults), items |-> g.items]
CacheFieldNode(p, i, shared) ==
    LET f == Field(p.cache, i)
    IN  [attributes |-> Written(f, {"name", "numFmtId"}, FieldDefaults),
         shared |-> IF PureData(p, i) THEN <<>> ELSE [k \in DOMAIN shared |-> ValueNode(shared[k])],
         group |-> [k \in DOMAIN f.group |-> GroupNode(f.group[k])]]

ValuesAreWritable(c) == \A r \in DOMAIN c.records : \A i \in 1 .. Width(c) : Writable(RecordValue(c, r, i))

PivotCacheXml(p) ==
    When(AllOfWidth(p.cache, p.cache.records) /\ Resolved(p) /\ ValuesAreWritable(p.cache),
    LET shared == SharedItems(p.cache)
    IN  [root |-> "pivotCacheDefinition", nodes |-> <<[tag |-> "records", id |-> "rId1"]>>,
         attributes |-> Written(p.cache.options, {"refreshOnLoad", "saveData", "enableRefresh"}, CacheDefaults),
         source |-> SourceNode(p.cache),
         members |-> [k \in DOMAIN p.cache.members |-> MemberNode(p.cache.members[k])],
         fields |-> [i \in 1 .. Width(p.cache) |-> CacheFieldNode(p, i - 1, shared[i])]])

PivotCacheRecordsXml(p) ==
    LET shared == SharedItems(p.cache)
        node(r, i) == LET v == RecordValue(p.cache, r, i)
                      IN  IF PureData(p, i - 1) THEN ValueNode(v)
                          ELSE [t |-> "x", v |-> "", x |-> Position(shared[i], v) - 1]
    IN  [root |-> "pivotCacheRecords", nodes |-> <<>>,
         rows |-> [r \in DOMAIN p.cache.records |-> [i \in 1 .. Width(p.cache) |-> node(r, i)]]]

-----------------------------------------------------------------------------
(* effectivePivotTable: the source of a table, and its fields and records  *)
(* where the program gave none, come from the worksheets.  A grid is the   *)
(* values of a sheet by row and column, "dimensions" the area they fill.   *)
NoCell == [t |-> "m", v |-> ""]
CellAt(grid, r, c) == IF <<r, c>> \in DOMAIN grid.cells THEN grid.cells[<<r, c>>] ELSE NoCell

RECURSIVE Headers(_, _, _)
Headers(texts, n, seen) ==
    IF n > Len(texts) THEN seen
    ELSE LET name == IF texts[n] = "" THEN "Field" \o ToString(n) ELSE texts[n]
         IN  Headers(texts, n + 1, Append(seen, IF name \in Elements(seen) THEN name \o "_" \o ToString(n) ELSE name))

Filled(c, grid) ==
    LET a == c.area                             \* <<first row, first column, last row, last column>>
        width == a[4] - a[2] + 1
        line(r) == [n \in 1 .. width |-> CellAt(grid, r, a[2] + n - 1)]
        named == SetFields(c, Headers([n \in 1 .. width |-> line(a[1])[n].v], 1, <<>>)).value
        schema == IF c.fields = <<>> THEN named ELSE c
        lines == [n \in 1 .. a[3] - a[1] |-> line(a[1] + n)]
    IN  IF Width(schema) # width THEN Fail
        ELSE IF c.records # <<>> \/ lines = <<>> THEN Done(schema)
        ELSE SetTypedRecords(schema, [n \in DOMAIN lines |-> [k \in 1 .. width |-> lines[n][k].v]],
                                     [n \in DOMAIN lines |-> [k \in 1 .. width |-> lines[n][k].t]])

Broken == <<"#REF!">>
EffectivePivotTable(p, owner, grids) ==
    LET anchored == IF p.cache.area # <<>> THEN p.cache
                    ELSE [p.cache EXCEPT !.area = grids[owner].dimensions, !.sheet = owner]
        sheet == IF anchored.sheet = "" THEN owner ELSE anchored.sheet
    IN  IF anchored.area = Broken
        THEN When(anchored.fields # <<>>, [p EXCEPT !.cache = [anchored EXCEPT !.options.refreshOnLoad = TRUE]])
        ELSE IF anchored.fields # <<>> /\ anchored.records # <<>> THEN Done([p EXCEPT !.cache = anchored])
        ELSE IF sheet \notin DOMAIN grids THEN Fail
        ELSE InCache(p, Filled(anchored, grids[sheet]))

\* Whether two tables with one key may share one physical cache.
PivotCachesEquivalent(c, d) ==
    LET typed(x) == IF HasTypedRecordKinds(x) THEN <<x.kinds>> ELSE <<>>
        same(x) == <<x.sheet, x.area, x.sourceName, x.options, x.records, typed(x),
                     [i \in DOMAIN x.fields |-> <<x.fields[i].name, x.fields[i].formula, x.fields[i].group>>]>>
    IN  same(c) = same(d)

-----------------------------------------------------------------------------
(* Reading.                                                                *)
RelationshipsOf(z, part) == SelectSeq(z.rels, LAMBDA r : r.source = part)
RelationshipTarget(z, part, type) ==            \* <<>> when there is none
    LET of == SelectSeq(RelationshipsOf(z, part), LAMBDA r : r.type = type)
    IN  IF of = <<>> THEN <<>> ELSE of[1].target

LoadedField(node) ==
    LET a == node.attributes
        formula == Read(a, FieldDefaults).formula
    IN  [name |-> a.name, numFmtId |-> a.numFmtId, formula |-> formula,
         caption |-> Read(a, FieldDefaults).caption,
         databaseField |-> Read(a, [databaseField |-> formula = ""]).databaseField,
         group |-> [k \in DOMAIN node.group |->
                      [items |-> node.group[k].items] @@ Read(node.group[k].attributes, GroupDefaults)]]

\* A record as long as the fields, a value that cannot be read as a missing one.
LoadedRecord(d, nodes) ==
    [i \in DOMAIN d.fields |->
        IF i \notin DOMAIN nodes THEN NoCell
        ELSE IF nodes[i].t # "x" THEN NodeValue(nodes[i])
        ELSE IF nodes[i].x + 1 \in DOMAIN d.fields[i].shared THEN NodeValue(d.fields[i].shared[nodes[i].x + 1])
        ELSE NoCell]

LoadedOlap(s) ==
    <<[type |-> "olap", connectionId |-> s.connectionId, raw |-> s.info]
      @@ Read(IF s.info = <<>> THEN <<>> ELSE s.info[1], OlapDefaults)>>
LoadedMember(node) == [raw |-> <<node>>] @@ Read(node, MemberDefaults)

LoadPivotCache(z, part, cacheId) ==
    LET empty == [NewCache EXCEPT !.id = cacheId, !.key = part]
        d == z.parts[part]
        rows == LET records == RelationshipTarget(z, part, "pivotCacheRecords")
                IN  IF records \notin DOMAIN z.parts THEN <<>>
                    ELSE SelectSeq(z.parts[records].rows, LAMBDA r : r # <<>>)
        values == [r \in DOMAIN rows |-> LoadedRecord(d, rows[r])]
    IN  IF part \notin DOMAIN z.parts THEN empty
        ELSE [empty EXCEPT
                !.options = Read(d.attributes, CacheDefaults),
                !.sheet = IF d.source.type = "worksheet" /\ d.source.ref # <<>> THEN d.source.sheet ELSE "",
                !.area = IF d.source.type = "worksheet" THEN d.source.ref ELSE <<>>,
                !.sourceName = IF d.source.type = "worksheet" THEN d.source.name ELSE "",
                !.olap = IF d.source.type = "olap" THEN LoadedOlap(d.source) ELSE <<>>,
                !.members = IF d.source.type # "olap" THEN <<>>
                            ELSE [k \in DOMAIN d.members |-> LoadedMember(d.members[k])],
                !.fields = [i \in DOMAIN d.fields |-> LoadedField(d.fields[i])],
                !.records = [r \in DOMAIN values |-> [i \in DOMAIN values[r] |-> values[r][i].v]],
                !.kinds = [r \in DOMAIN values |-> [i \in DOMAIN values[r] |-> values[r][i].t]],
                !.typed = values # <<>>]

\* applyLoadedPivotFieldModel: an item is bound to the shared item its x names, by the order of the records.
LoadedItem(node, shared) ==
    [x |-> node.x, bound |-> IF node.x + 1 \in DOMAIN shared THEN <<shared[node.x + 1]>> ELSE <<>>]
    @@ Read(node, ItemDefaults)
LoadedAxisField(d, c, axis, i) ==
    LET name == IF HasField(c, i) THEN Field(c, i).name ELSE "Field" \o ToString(i + 1)
        node == d.fields[i + 1]
        shared == IF HasField(c, i) THEN SharedItems(c)[i + 1] ELSE <<>>
        items == [k \in DOMAIN node.items |-> LoadedItem(node.items[k], shared)]
    IN  IF i + 1 \notin DOMAIN d.fields THEN NewAxisField(name, axis, i)
        ELSE [name |-> name, axis |-> axis, index |-> i, items |-> items,
              hidden |-> {items[k].x : k \in {n \in DOMAIN items : items[n].h /\ items[n].x >= 0}}]
             @@ Only(Read(node.attributes, [showAll |-> FALSE, defaultSubtotal |-> TRUE] @@ AxisFieldDefaults),
                     {"showAll", "defaultSubtotal"} \cup DOMAIN AxisFieldDefaults)

RECURSIVE AddedFilters(_, _)
AddedFilters(p, nodes) ==
    IF nodes = <<>> THEN p
    ELSE AddedFilters(AddFilter(p, Read(nodes[1], FilterDefaults)).value, Tail(nodes))

\* The table of definition d whose cache is c.
PivotTableFrom(d, c) ==
    LET axis(a, indexes) == [k \in DOMAIN indexes |-> LoadedAxisField(d, c, a, indexes[k])]
        source(i) == IF HasField(c, i) THEN Field(c, i).name ELSE "Field" \o ToString(i + 1)
    IN  [NewTable(d.name) EXCEPT
            !.location = d.location, !.options = d.options, !.style = d.style,
            !.chartFormat = d.chartFormat, !.chartFormats = d.chartFormats, !.cache = c,
            !.fields = [axisRow |-> axis("axisRow", d.rows), axisCol |-> axis("axisCol", d.columns),
                        axisPage |-> axis("axisPage", [k \in DOMAIN d.pages |-> d.pages[k].fld])],
            !.pages = [k \in DOMAIN d.pages |-> Read(d.pages[k], PageDefaults)],
            !.data = [k \in DOMAIN d.data |->
                        [source |-> source(d.data[k].fld)] @@ Read(d.data[k], DataDefaults)]]
LoadPivotTable(z, part) ==
    LET d == z.parts[part]
    IN  AddedFilters(PivotTableFrom(d, LoadPivotCache(z, RelationshipTarget(z, part, "pivotCacheDefinition"), d.cacheId)),
                     SelectSeq(d.filters, LAMBDA f : f.fld >= 0 /\ f.type # ""))

\* loadPivotTables: in the order of the owner nodes, or of the relationships when there are none.
LoadPivotTables(z, sheetPart) ==
    LET rels == SelectSeq(RelationshipsOf(z, sheetPart), LAMBDA r : r.type = "pivotTable")
        byId == [id \in {r.id : r \in Elements(rels)} |-> (CHOOSE r \in Elements(rels) : r.id = id).target]
        owners == SelectSeq(z.parts[sheetPart].nodes, LAMBDA n : n.tag = "pivotTablePart")
        order == IF owners = <<>> THEN [k \in DOMAIN rels |-> rels[k].id]
                 ELSE LET listed == SelectSeq(owners, LAMBDA n : n.id \in DOMAIN byId)
                      IN  [k \in DOMAIN listed |-> listed[k].id]
        found == SelectSeq(order, LAMBDA id : byId[id] \in DOMAIN z.parts)
    IN  [k \in DOMAIN found |-> LoadPivotTable(z, byId[found[k]])]
=============================================================================
