----------------------------- MODULE PivotTables -----------------------------
(***************************************************************************)
(* The pivot tables of a workbook from load to save: tables added, edited  *)
(* through the model or patched in place, and the package a save assembles *)
(* from the preserved parts and the regenerated ones (Workbook.cpp,        *)
(* WorkbookPartXml.cpp, WorkbookChartEditing.cpp).                         *)
(*                                                                         *)
(* A worksheet has the part it was loaded from (<<>> when it is new), its  *)
(* tables, how many of them were loaded, and two flags: dirty, all tables  *)
(* are written anew; append, those after the loaded ones are.              *)
(***************************************************************************)
EXTENDS PivotPatches

CONSTANTS Files,            \* the packages a workbook may be loaded from
          Grids,            \* the values of the worksheets, by their name
          SheetNames,       \* names for new worksheets
          Additions,        \* tables a program adds
          Edits,            \* <<worksheet, table, call>>: TableCall on a table of pivotTables()
          Patches,          \* <<worksheet, name of a table, call>>: UpdateImported
          PivotCharts,      \* charts that show a table: [sheet, pivot, owner, formatId], where owner is
                            \* <<>> or the worksheet that the chart names for its table
          MaxCalls          \* calls in a behaviour

VARIABLES workbook,         \* [sheets, preserved, source]: see PivotPatches; source is the text
                            \* of the workbook and worksheet parts that were loaded
          file,             \* the package on disk, <<>> when there is none
          stage,            \* of the last step: loaded, open, saved, refused or failed
          calls,            \* how many calls were made
          edited            \* a cache was edited through the model since the load
vars == <<workbook, file, stage, calls, edited>>

Graph == INSTANCE PackageGraph
Seqs == INSTANCE SequencesExt
BookPart == <<"workbook", 0>>
StylesPart == <<"styles", 0>>
Link(source, id, type, target) ==
    [source |-> source, id |-> id, type |-> type, target |-> target, mode |-> "Internal"]
NodesOf(content, tag) == SelectSeq(content.nodes, LAMBDA n : n.tag = tag)
RECURSIVE Concat(_)
Concat(ss) == IF ss = <<>> THEN <<>> ELSE ss[1] \o Concat(Tail(ss))

-----------------------------------------------------------------------------
(* Loading.                                                                *)
NewSheet(name) == [name |-> name, part |-> <<>>, pivots |-> <<>>, loaded |-> 0, dirty |-> TRUE, append |-> FALSE]
LoadedSheet(name, part, pivots) ==
    [name |-> name, part |-> part, pivots |-> pivots, loaded |-> Len(pivots), dirty |-> FALSE, append |-> FALSE]
LoadSheet(z, name, part) == LoadedSheet(name, part, LoadPivotTables(z, part))
\* The workbook and worksheet parts are written anew at each save, the other ones are preserved.
LoadedBook(z, sheets, rebuilt) ==
    [sheets |-> sheets, source |-> Only(z.parts, rebuilt \ {StylesPart}),
     preserved |-> [parts |-> Only(z.parts, DOMAIN z.parts \ rebuilt), rels |-> z.rels, typed |-> z.typed \ rebuilt]]
Loaded(z) ==
    LET nodes == NodesOf(z.parts[BookPart], "sheet")
        part(k) == (CHOOSE r \in Elements(z.rels) : r.source = BookPart /\ r.id = nodes[k].id).target
    IN  LoadedBook(z, [k \in DOMAIN nodes |-> LoadSheet(z, nodes[k].name, part(k))],
                   {BookPart, StylesPart} \cup {part(k) : k \in DOMAIN nodes})
Created == [sheets |-> <<NewSheet("Data")>>, source |-> <<>>, preserved |-> [parts |-> <<>>, rels |-> <<>>, typed |-> {}]]

-----------------------------------------------------------------------------
(* What a save keeps and what it writes anew.                              *)
SourceHasPivot(wb, sheet) ==
    /\ sheet.part # <<>>
    /\ \/ NodesOf(wb.source[sheet.part], "pivotTablePart") # <<>>
       \/ RelationshipTarget(wb.preserved, sheet.part, "pivotTable") # <<>>
PreservesPivots(wb, sheet) == SourceHasPivot(wb, sheet) /\ ~sheet.dirty
Generated(sheet) ==
    IF sheet.dirty THEN sheet.pivots
    ELSE IF sheet.append THEN SubSeq(sheet.pivots, sheet.loaded + 1, Len(sheet.pivots)) ELSE <<>>

NextPartId(wb, kind) == 1 + Largest({0} \cup {p[2] : p \in {p \in DOMAIN wb.preserved.parts : p[1] = kind}})
SourceCaches(wb) == IF BookPart \in DOMAIN wb.source THEN NodesOf(wb.source[BookPart], "pivotCache") ELSE <<>>
NextCacheId(wb) == 1 + Largest({0} \cup {n.cacheId : n \in Elements(SourceCaches(wb))})

(* Each table written anew gets a part and a cache: that of an earlier one *)
(* with the same key, which must be equivalent, or one of its own.         *)
WithTable(wb, acc, sheet, p) ==
    LET key == p.cache.key
        shared == {k \in DOMAIN acc.caches : key # <<>> /\ acc.caches[k].key = key}
        cache == IF shared # {} THEN acc.caches[Smallest(shared)]
                 ELSE [part |-> NextPartId(wb, "pivotCacheDefinition") + Len(acc.caches),
                       id |-> NextCacheId(wb) + Len(acc.caches), key |-> key, model |-> p]
    IN  When(PivotCachesEquivalent(cache.model.cache, p.cache),
             [tables |-> Append(acc.tables, [sheet |-> sheet, part |-> NextPartId(wb, "pivotTable") + Len(acc.tables),
                                             cache |-> cache, model |-> p]),
              caches |-> IF shared # {} THEN acc.caches ELSE Append(acc.caches, cache)])

RECURSIVE Assigned(_, _, _)
Assigned(wb, todo, acc) ==
    IF todo = <<>> THEN Done(acc)
    ELSE LET sheet == wb.sheets[todo[1][1]]
         IN  Then(EffectivePivotTable(todo[1][2], sheet.name, Grids),
                  LAMBDA p : Then(WithTable(wb, acc, todo[1][1], p.value),
                                  LAMBDA a : Assigned(wb, Tail(todo), a.value)))
Assignment(wb) ==
    LET of(s) == LET new == Generated(wb.sheets[s]) IN [k \in DOMAIN new |-> <<s, new[k]>>]
    IN  Assigned(wb, Concat([s \in DOMAIN wb.sheets |-> of(s)]), [tables |-> <<>>, caches |-> <<>>])

-----------------------------------------------------------------------------
(* mergeRelationshipsXml: the selected originals keep their ids, a         *)
(* generated relationship that clashes with one of them gets a new one.    *)
(* One that is the same as an earlier one is left out.  The code compares  *)
(* targets as they are spelled: no kept relationship leads to a part that  *)
(* is written anew, and the Files spell a part in one way.                 *)
Same(r, s) == r.type = s.type /\ r.target = s.target /\ r.mode = s.mode
\* Mutant: ids of relationships of another type do not clash.
ClashesInType(r, selected) == \E s \in Elements(selected) : s.id = r.id /\ s.type = r.type /\ ~Same(r, s)
Clashes(r, selected) == \E s \in Elements(selected) : s.id = r.id /\ ~Same(r, s)
FreshId(used) ==
    LET free == {n \in 1 .. Cardinality(used) + 1 : "rIdXLPP" \o ToString(n) \notin used}
    IN  "rIdXLPP" \o ToString(Smallest(free))
RECURSIVE NewIds(_, _, _)
NewIds(generated, selected, used) ==
    IF generated = <<>> THEN <<>>
    ELSE LET id == IF Clashes(generated[1], selected) THEN FreshId(used) ELSE generated[1].id
         IN  <<id>> \o NewIds(Tail(generated), selected, used \cup {id})
\* The merged relationships, and the id that each of the generated ones has got.
MergeRelationships(generated, selected) ==
    LET used == {r.id : r \in Elements(generated \o selected)}
        ids == NewIds(generated, selected, used)
        renamed == [k \in DOMAIN generated |-> [generated[k] EXCEPT !.id = ids[k]]]
    IN  [ids |-> ids,
         rels |-> Seqs!FoldLeft(LAMBDA merged, s : IF \E r \in Elements(merged) : Same(r, s) THEN merged
                                                   ELSE Append(merged, s),
                                renamed, selected)]

-----------------------------------------------------------------------------
(* The parts of the package.                                               *)
SheetPart(s) == <<"sheet", s>>
CachePartOf(c) == <<"pivotCacheDefinition", c.part>>
RecordsPartOf(c) == <<"pivotCacheRecords", c.part>>
TablePartOf(t) == <<"pivotTable", t.part>>

\* A worksheet: its original elements stay before those of the new tables, unless it is dirty.
SavedSheet(wb, s, tables) ==
    LET sheet == wb.sheets[s]
        keeps == PreservesPivots(wb, sheet)
        generated == [k \in DOMAIN tables |-> Link(SheetPart(s), "rIdPivot" \o ToString(k), "pivotTable", TablePartOf(tables[k]))]
        kept == SelectSeq(IF sheet.part = <<>> THEN <<>> ELSE RelationshipsOf(wb.preserved, sheet.part),
                          LAMBDA r : r.type = "pivotTable" => keeps)
        selected == [k \in DOMAIN kept |-> [kept[k] EXCEPT !.source = SheetPart(s)]]
        merged == MergeRelationships(generated, selected)
        original == IF keeps THEN NodesOf(wb.source[sheet.part], "pivotTablePart") ELSE <<>>
    IN  [rels |-> merged.rels,
         content |-> [root |-> "worksheet",
                      nodes |-> original \o [k \in DOMAIN tables |-> [tag |-> "pivotTablePart", id |-> merged.ids[k]]]]]

\* The workbook: worksheets first, then the new caches, then the styles.
SavedBook(wb, caches) ==
    LET n == Len(wb.sheets)
        id(k) == "rId" \o ToString(k)
        sheets == [s \in 1 .. n |-> Link(BookPart, id(s), "worksheet", SheetPart(s))]
        definitions == [k \in DOMAIN caches |-> Link(BookPart, id(n + k), "pivotCacheDefinition", CachePartOf(caches[k]))]
        styles == <<Link(BookPart, id(n + Len(caches) + 1), "styles", StylesPart)>>
        selected == SelectSeq(wb.preserved.rels,
                              LAMBDA r : /\ r.source = BookPart /\ r.type \notin {"worksheet", "styles"}
                                         /\ r.type = "pivotCacheDefinition" => SourceCaches(wb) # <<>>)
        merged == MergeRelationships(sheets \o definitions \o styles, selected)
    IN  [rels |-> merged.rels,
         content |-> [root |-> "workbook",
           nodes |-> [s \in 1 .. n |-> [tag |-> "sheet", id |-> merged.ids[s], name |-> wb.sheets[s].name]]
                     \o SourceCaches(wb)
                     \o [k \in DOMAIN caches |-> [tag |-> "pivotCache", id |-> merged.ids[n + k], cacheId |-> caches[k].id]]]]

\* The tables of a worksheet whose new tables replace them.
Suppressed(wb) ==
    UNION {{r.target : r \in {r \in Elements(wb.preserved.rels) : r.source = sheet.part /\ r.type = "pivotTable"}} :
              sheet \in {sheet \in Elements(wb.sheets) :
                            sheet.part # <<>> /\ ~PreservesPivots(wb, sheet) /\ Generated(sheet) # <<>>}}

SavedPackage(wb, a) ==
    LET tables(s) == SelectSeq(a.tables, LAMBDA t : t.sheet = s)
        sheets == [s \in DOMAIN wb.sheets |-> SavedSheet(wb, s, tables(s))]
        book == SavedBook(wb, a.caches)
        kept == DOMAIN wb.preserved.parts \ Suppressed(wb)
        new == [p \in {BookPart} |-> book.content] @@ [p \in {StylesPart} |-> [root |-> "styleSheet", nodes |-> <<>>]]
               @@ [p \in {SheetPart(s) : s \in DOMAIN sheets} |-> sheets[p[2]].content]
               @@ [p \in {CachePartOf(c) : c \in Elements(a.caches)} |->
                      PivotCacheXml((CHOOSE c \in Elements(a.caches) : CachePartOf(c) = p).model).value]
               @@ [p \in {RecordsPartOf(c) : c \in Elements(a.caches)} |->
                      PivotCacheRecordsXml((CHOOSE c \in Elements(a.caches) : RecordsPartOf(c) = p).model)]
               @@ [p \in {TablePartOf(t) : t \in Elements(a.tables)} |->
                      LET t == CHOOSE t \in Elements(a.tables) : TablePartOf(t) = p
                      IN  PivotTableXml(t.model, t.cache.id).value]
    IN  [parts |-> new @@ Only(wb.preserved.parts, kept),
         typed |-> DOMAIN new \cup (wb.preserved.typed \cap kept),
         rels |-> <<Link(<<>>, "rId1", "officeDocument", BookPart)>> \o book.rels
                  \o Concat([s \in DOMAIN sheets |-> sheets[s].rels])
                  \o [k \in DOMAIN a.caches |-> Link(CachePartOf(a.caches[k]), "rId1", "pivotCacheRecords", RecordsPartOf(a.caches[k]))]
                  \o [k \in DOMAIN a.tables |-> Link(TablePartOf(a.tables[k]), "rId1", "pivotCacheDefinition",
                                                     CachePartOf(a.tables[k].cache))]
                  \o SelectSeq(wb.preserved.rels, LAMBDA r : r.source \in kept)]
IsWritable(a) ==
    /\ \A c \in Elements(a.caches) : PivotCacheXml(c.model).ok
    /\ \A t \in Elements(a.tables) : PivotTableXml(t.model, t.cache.id).ok
FlagsCleared(wb) ==
    [wb EXCEPT !.sheets = [s \in DOMAIN @ |-> [@[s] EXCEPT !.dirty = FALSE, !.append = FALSE]]]

-----------------------------------------------------------------------------
(* validatePivotChartLinks: what is wrong with the table a chart names.    *)
LinkIssue(wb, chart) ==
    LET owners == UNION {{<<s, k>> : k \in {k \in DOMAIN wb.sheets[s].pivots : wb.sheets[s].pivots[k].name = chart.pivot}} :
                         s \in {s \in DOMAIN wb.sheets : chart.owner \in {<<>>, <<wb.sheets[s].name>>}}}
        format == Largest({0, chart.formatId})
        wrong(p) == IF p.chartFormat \notin {<<>>, <<format>>} THEN {"other chartFormat"}
                    ELSE IF p.chartFormats # <<>> /\ \A f \in Elements(p.chartFormats) : f.chart # format
                         THEN {"no chartFormats"} ELSE {}
    IN  IF owners = {} THEN {"unresolved"}
        ELSE IF Cardinality(owners) > 1 THEN {"ambiguous"}
        ELSE UNION {wrong(wb.sheets[o[1]].pivots[o[2]]) : o \in owners}
LinkIssues(wb) ==
    [chart \in {c \in PivotCharts : \E sheet \in Elements(wb.sheets) : sheet.name = c.sheet} |-> LinkIssue(wb, chart)]

-----------------------------------------------------------------------------
Init ==
    /\ file \in Files \cup {<<>>}
    /\ workbook = IF file = <<>> THEN Created ELSE Loaded(file)
    /\ stage = IF file = <<>> THEN "open" ELSE "loaded"
    /\ calls = 0 /\ edited = FALSE

InUse == stage \in {"loaded", "open"}
Called(wb) ==
    /\ InUse /\ calls < MaxCalls
    /\ workbook' = wb /\ calls' = calls + 1 /\ stage' = "open"
    /\ UNCHANGED file

\* addPivotTable: beside loaded tables only the new ones are written, otherwise all.
AddPivotTable(s, p) ==
    LET sheet == workbook.sheets[s]
        appends == sheet.loaded > 0 /\ ~sheet.dirty
    IN  /\ Called([workbook EXCEPT !.sheets[s] =
                      [sheet EXCEPT !.pivots = Append(@, p), !.append = @ \/ appends, !.dirty = @ \/ ~appends]])
        /\ UNCHANGED edited
\* pivotTables(): the program may change what it likes, so all tables are written anew.
Touched(wb, s) == [wb EXCEPT !.sheets[s].dirty = TRUE, !.sheets[s].append = FALSE]
TouchPivotTables(s) == Called(Touched(workbook, s)) /\ UNCHANGED edited
EditPivotTable(s, k, e) ==
    /\ k \in DOMAIN workbook.sheets[s].pivots
    /\ workbook.sheets[s].pivots[k].cache.olap = <<>>
    /\ LET r == TableCall(workbook.sheets[s].pivots[k], e)
       IN  r.ok /\ Called(InPivot(Touched(workbook, s), s, k, r.value))
    /\ edited' = (edited \/ e[1] = "cache")
UpdateImportedPivot(s, name, e) ==
    /\ LET r == UpdateImported(workbook, s, name, e)
       IN  r.ok /\ Called(r.value)
    /\ UNCHANGED edited
AddWorksheet(name) ==
    /\ \A sheet \in Elements(workbook.sheets) : sheet.name # name
    /\ Called([workbook EXCEPT !.sheets = Append(@, NewSheet(name))])
    /\ UNCHANGED edited

\* Refused before the flags are cleared, failed after: in both the file stays as it was.
Save ==
    /\ InUse
    /\ LET a == Assignment(workbook)
       IN  IF ~a.ok THEN stage' = "refused" /\ UNCHANGED <<workbook, file>>
           ELSE /\ workbook' = FlagsCleared(workbook)
                /\ IF IsWritable(a.value) THEN file' = SavedPackage(workbook, a.value) /\ stage' = "saved"
                   ELSE stage' = "failed" /\ UNCHANGED file
    /\ UNCHANGED <<calls, edited>>
Load ==
    /\ stage \in {"saved", "failed"} /\ file # <<>>
    /\ workbook' = Loaded(file) /\ stage' = "loaded" /\ edited' = FALSE
    /\ UNCHANGED <<file, calls>>

Next ==
    \/ \E s \in DOMAIN workbook.sheets, p \in Additions : AddPivotTable(s, p)
    \/ \E s \in DOMAIN workbook.sheets : TouchPivotTables(s)
    \/ \E x \in Edits : x[1] \in DOMAIN workbook.sheets /\ EditPivotTable(x[1], x[2], x[3])
    \/ \E x \in Patches : x[1] \in DOMAIN workbook.sheets /\ UpdateImportedPivot(x[1], x[2], x[3])
    \/ \E name \in SheetNames : AddWorksheet(name)
    \/ Save
    \/ Load
Spec == Init /\ [][Next]_vars

-----------------------------------------------------------------------------
(* What a reader of the package shows of a pivot table: the settings of    *)
(* the table, the fields of its axes with what is said of each value of    *)
(* the cache, and the cache the workbook has under its number.             *)
TargetOf(z, part, id) ==
    (CHOOSE r \in Elements(z.rels) : r.source = part /\ r.id = id).target
ShownValue(node, shared) == NodeValue(IF node.t = "x" THEN shared[node.x + 1] ELSE node)
ValuesOf(rows, i) == {rows[r][i + 1] : r \in DOMAIN rows}

\* Of an axis field: what is said of each value its records have.
AxisFieldInFile(d, fields, rows, i) ==
    LET node == d.fields[i + 1]
        attributes == Read(node.attributes, [showAll |-> FALSE, defaultSubtotal |-> TRUE] @@ AxisFieldDefaults)
        named(v) == {item \in Elements(node.items) : NodeValue(fields[i + 1].shared[item.x + 1]) = v}
    IN  [field |-> i, settings |-> Only(attributes, {"showAll", "defaultSubtotal"} \cup DOMAIN AxisFieldDefaults),
         items |-> [v \in ValuesOf(rows, i) |->
                       IF named(v) = {} THEN ItemDefaults ELSE Read(Only(CHOOSE n \in named(v) : TRUE,
                           DOMAIN (CHOOSE n \in named(v) : TRUE) \ {"x"}), ItemDefaults)]]
\* What the model says of a value: by the value where an item is bound to one, else by its place.
Said(f, value, place) ==
    LET about == {k \in DOMAIN f.items :
                     \/ f.items[k].bound = <<value>>
                     \/ f.items[k].bound = <<>> /\ f.items[k].x = place}
    IN  IF about # {} THEN Only(f.items[Smallest(about)], DOMAIN ItemDefaults)
        ELSE [ItemDefaults EXCEPT !.h = place \in f.hidden]
AxisFieldInModel(p, a, k, rows) ==
    LET f == p.fields[a][k]
        i == AxisIndexes(p, a)[k]
        shared == [n \in DOMAIN SharedItems(p.cache)[i + 1] |-> NodeValue(ValueNode(SharedItems(p.cache)[i + 1][n]))]
    IN  [field |-> i, settings |-> Only(f, {"showAll", "defaultSubtotal"} \cup DOMAIN AxisFieldDefaults),
         items |-> [v \in ValuesOf(rows, i) |->
                       LET n == Position(shared, v) IN Said(f, SharedItems(p.cache)[i + 1][n], n - 1)]]

RowsInModel(c) ==
    [r \in DOMAIN c.records |-> [i \in 1 .. Width(c) |-> NodeValue(ValueNode(RecordValue(c, r, i)))]]
FieldsShown(fields, own) ==
    [i \in DOMAIN fields |->
        Only(fields[i], {"name", "formula", "group"} \cup IF own THEN {"caption", "numFmtId"} ELSE {})]
\* The name of a data field, given or made of that of its field.
DataName(data, field) ==
    IF data.name # "" THEN data.name ELSE IF data.subtotal = "sum" THEN "Sum of " \o field ELSE field

TableInFile(z, part, own) ==
    LET d == z.parts[part]
        numbers == {n \in Elements(NodesOf(z.parts[BookPart], "pivotCache")) : n.cacheId = d.cacheId}
        cache == TargetOf(z, BookPart, (CHOOSE n \in numbers : TRUE).id)
        c == z.parts[cache]
        records == RelationshipTarget(z, cache, "pivotCacheRecords")
        rows == IF records = <<>> THEN <<>>
                ELSE [r \in DOMAIN z.parts[records].rows |->
                         [i \in DOMAIN c.fields |-> ShownValue(z.parts[records].rows[r][i], c.fields[i].shared)]]
        axis(indexes) == [k \in DOMAIN indexes |-> AxisFieldInFile(d, c.fields, rows, indexes[k])]
        data(k) == Read(d.data[k], DataDefaults)
    IN  [name |-> d.name, anchor |-> d.location[1], options |-> d.options, style |-> d.style,
         chartFormat |-> d.chartFormat, chartFormats |-> d.chartFormats, source |-> c.source,
         rows |-> axis(d.rows), columns |-> axis(d.columns),
         pages |-> axis([k \in DOMAIN d.pages |-> d.pages[k].fld]),
         pageFields |-> [k \in DOMAIN d.pages |-> Read(d.pages[k], PageDefaults)],
         data |-> [k \in DOMAIN d.data |-> [data(k) EXCEPT !.name = DataName(data(k), c.fields[d.data[k].fld + 1].attributes.name)]],
         filters |-> [k \in DOMAIN d.filters |-> Read(d.filters[k], FilterDefaults)],
         cacheOptions |-> Read(c.attributes, CacheDefaults),
         fields |-> FieldsShown([i \in DOMAIN c.fields |-> LoadedField(c.fields[i])], own),
         members |-> [k \in DOMAIN c.members |-> Read(c.members[k], MemberDefaults)],
         records |-> rows]

TableInModel(p, own) ==
    LET rows == RowsInModel(p.cache)
        axis(a) == [k \in DOMAIN p.fields[a] |-> AxisFieldInModel(p, a, k, rows)]
        indexes == DataIndexes(p)
    IN  [name |-> p.name, anchor |-> Location(p)[1], options |-> p.options, style |-> p.style,
         chartFormat |-> p.chartFormat, chartFormats |-> p.chartFormats, source |-> SourceNode(p.cache),
         rows |-> axis("axisRow"), columns |-> axis("axisCol"), pages |-> axis("axisPage"),
         pageFields |-> [k \in DOMAIN p.pages |-> [p.pages[k] EXCEPT !.fld = AxisIndexes(p, "axisPage")[k]]],
         data |-> [k \in DOMAIN p.data |->
                     LET m == [fld |-> indexes[k]] @@ Only(p.data[k], DOMAIN DataDefaults)
                     IN  [m EXCEPT !.name = DataName(m, Field(p.cache, indexes[k]).name)]],
         filters |-> p.filters,
         cacheOptions |-> p.cache.options,
         fields |-> FieldsShown(p.cache.fields, own),
         members |-> [k \in DOMAIN p.cache.members |-> Only(p.cache.members[k], {"name"} \cup DOMAIN MemberDefaults)],
         records |-> rows]

\* A cache edited through one of the models that share it may be written with the names of another.
OwnNames(p) == ~edited \/ p.cache.key = <<>>
Effective(sheet, p) ==
    IF p.cache.olap # <<>> THEN p ELSE EffectivePivotTable(p, sheet.name, Grids).value
SheetShows(sheet, part) ==
    LET nodes == NodesOf(file.parts[part], "pivotTablePart")
    IN  /\ Len(nodes) = Len(sheet.pivots)
        /\ \A k \in DOMAIN nodes :
              LET p == sheet.pivots[k]
              IN  TableInFile(file, TargetOf(file, part, nodes[k].id), OwnNames(p))
                  = TableInModel(Effective(sheet, p), OwnNames(p))

\* After a save and after a load the file shows, in each worksheet and in order, the pivot tables
\* of the models: preserved, patched and regenerated ones alike; and the pivot charts are linked
\* to them as before, so that saving neither breaks nor repairs a link.
SavedShowsModels ==
    stage \in {"saved", "loaded"} =>
        LET nodes == NodesOf(file.parts[BookPart], "sheet")
        IN  /\ Len(nodes) = Len(workbook.sheets)
            /\ \A s \in DOMAIN nodes : SheetShows(workbook.sheets[s], TargetOf(file, BookPart, nodes[s].id))
            /\ LinkIssues(Loaded(file)) = LinkIssues(workbook)

\* Patches of imported tables and tables written anew without an edit never leave models of one
\* cache that no longer agree: only an edit of a cache through one model can make a save refuse.
SharedCachesSave ==
    ~edited /\ (\A sheet \in Elements(workbook.sheets) : sheet.dirty => \A p \in Elements(sheet.pivots) : p.cache.olap = <<>>)
        => stage # "refused"

\* The package a save assembles from kept and new parts has no error of the relationship graph:
\* parts, relationships, owner elements, cache numbers and content types fit together.
SavedPackageIsClosed == stage = "saved" => Graph!Valid(file)
=============================================================================
