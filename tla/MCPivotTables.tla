---------------------------- MODULE MCPivotTables ----------------------------
(***************************************************************************)
(* PivotTables on three workbooks: a file in which three tables of two     *)
(* worksheets share one cache, a file with an OLAP table, and a new one.   *)
(***************************************************************************)
EXTENDS PivotTables

MCNumerals == {"0", "1", "5", "10", "20", "30"}

Text(v) == [t |-> "s", v |-> v]
Number(v) == [t |-> "n", v |-> v]
DataCells ==
    (<<1, 1>> :> Text("Region")) @@ (<<1, 2>> :> Text("Sales"))
    @@ (<<2, 1>> :> Text("East")) @@ (<<2, 2>> :> Number("10"))
    @@ (<<3, 1>> :> Text("West")) @@ (<<3, 2>> :> Number("20"))
    @@ (<<4, 1>> :> Text("East")) @@ (<<4, 2>> :> Number("30"))
Empty == [dimensions |-> <<1, 1, 1, 1>>, cells |-> <<>>]
MCGrids == [Data |-> [dimensions |-> <<1, 1, 4, 2>>, cells |-> DataCells], Report |-> Empty, Cube |-> Empty, Extra |-> Empty]
MCSheetNames == {"Extra"}

(* The first file, as a spreadsheet program writes it: cache 7, tables 3, 4 *)
(* and 5, and relationship ids that a save would also use.                 *)
Region == [NewField("Region") EXCEPT !.caption = "Area"]
Shared ==
    [NewCache EXCEPT !.sheet = "Data", !.area = <<1, 1, 4, 2>>, !.fields = <<Region, NewField("Sales")>>,
        !.records = <<<<"East", "10">>, <<"West", "20">>, <<"East", "30">>>>,
        !.kinds = Times(3, <<"s", "n">>), !.typed = TRUE]
Sales == [NewData(1, "Sales") EXCEPT !.name = "Sum of Sales"]
Base(name) == [NewTable(name) EXCEPT !.cache = Shared, !.location = <<<<2, 4>>, <<5, 5>>>>, !.data = <<Sales>>]
ByRow == [Base("ByRow") EXCEPT
    !.fields["axisRow"] = <<[NewAxisField("Region", "axisRow", 0) EXCEPT
        !.items = <<[NewItem EXCEPT !.bound = <<Text("West")>>, !.h = TRUE]>>]>>,
    !.filters = <<[NewFilter(0, "captionEqual") EXCEPT !.id = 1, !.stringValue1 = "East"]>>,
    !.chartFormat = <<1>>, !.chartFormats = <<[chart |-> 1, format |-> 0]>>]
ByPage == [Base("ByPage") EXCEPT
    !.fields["axisPage"] = <<NewAxisField("Region", "axisPage", 0)>>, !.pages = <<NewPage(0)>>]
ByColumn == [Base("ByColumn") EXCEPT
    !.fields["axisCol"] = <<NewAxisField("Region", "axisCol", 0)>>, !.data = <<[Sales EXCEPT !.subtotal = "count"]>>]

Book(sheets, caches) == [root |-> "workbook", nodes |-> sheets \o caches]
SheetNode(id, name) == [tag |-> "sheet", id |-> id, name |-> name]
CacheNode(id, number) == [tag |-> "pivotCache", id |-> id, cacheId |-> number]
Sheet(ids) == [root |-> "worksheet", nodes |-> [k \in DOMAIN ids |-> [tag |-> "pivotTablePart", id |-> ids[k]]]]
Plain(root) == [root |-> root, nodes |-> <<>>]
Package(parts, rels) == [parts |-> parts, rels |-> <<Link(<<>>, "rId1", "officeDocument", BookPart)>> \o rels, typed |-> DOMAIN parts]
TablePart(n) == <<"pivotTable", n>>
CacheLink(n, cache) == Link(TablePart(n), "rId1", "pivotCacheDefinition", <<"pivotCacheDefinition", cache>>)

SharedFile ==
    Package((BookPart :> Book(<<SheetNode("rId1", "Data"), SheetNode("rId2", "Report")>>, <<CacheNode("rId4", 7)>>))
            @@ (StylesPart :> Plain("styleSheet"))
            @@ (SheetPart(1) :> Sheet(<<"rId1", "rIdPivot1">>)) @@ (SheetPart(2) :> Sheet(<<"rId1">>))
            @@ (TablePart(3) :> PivotTableXml(ByRow, 7).value) @@ (TablePart(4) :> PivotTableXml(ByPage, 7).value)
            @@ (TablePart(5) :> PivotTableXml(ByColumn, 7).value)
            @@ (<<"pivotCacheDefinition", 2>> :> PivotCacheXml(ByRow).value)
            @@ (<<"pivotCacheRecords", 2>> :> PivotCacheRecordsXml(ByRow)),
            <<Link(BookPart, "rId1", "worksheet", SheetPart(1)), Link(BookPart, "rId2", "worksheet", SheetPart(2)),
              Link(BookPart, "rId3", "styles", StylesPart),
              Link(BookPart, "rId4", "pivotCacheDefinition", <<"pivotCacheDefinition", 2>>),
              Link(SheetPart(1), "rId1", "pivotTable", TablePart(3)), Link(SheetPart(1), "rIdPivot1", "pivotTable", TablePart(4)),
              Link(SheetPart(2), "rId1", "pivotTable", TablePart(5)),
              CacheLink(3, 2), CacheLink(4, 2), CacheLink(5, 2),
              Link(<<"pivotCacheDefinition", 2>>, "rId1", "pivotCacheRecords", <<"pivotCacheRecords", 2>>)>>)

Cube ==
    [NewCache EXCEPT !.fields = <<NewField("[Product].[Name]")>>,
        !.olap = <<[type |-> "olap", connectionId |-> 1, raw |-> <<>>] @@ OlapDefaults>>,
        !.members = <<[name |-> "[Measures].[Profit]", raw |-> <<>>] @@ [MemberDefaults EXCEPT !.mdx = "a - b"]>>]
OfCube == [NewTable("OfCube") EXCEPT !.cache = Cube, !.location = <<<<1, 1>>, <<2, 2>>>>,
    !.fields["axisRow"] = <<NewAxisField("[Product].[Name]", "axisRow", 0)>>]
CubeFile ==
    Package((BookPart :> Book(<<SheetNode("rId1", "Cube")>>, <<CacheNode("rId2", 1)>>))
            @@ (StylesPart :> Plain("styleSheet")) @@ (SheetPart(1) :> Sheet(<<"rId1">>))
            @@ (TablePart(1) :> PivotTableXml(OfCube, 1).value)
            @@ (<<"pivotCacheDefinition", 1>> :> [PivotCacheXml(OfCube).value EXCEPT !.nodes = <<>>]),
            <<Link(BookPart, "rId1", "worksheet", SheetPart(1)),
              Link(BookPart, "rId2", "pivotCacheDefinition", <<"pivotCacheDefinition", 1>>),
              Link(BookPart, "rId3", "styles", StylesPart),
              Link(SheetPart(1), "rId1", "pivotTable", TablePart(1)), CacheLink(1, 1)>>)
MCFiles == {SharedFile, CubeFile}

\* A table of the worksheet's own data, and one of a shared cache with its fields given.
OfSheet == [NewTable("OfSheet") EXCEPT !.fields["axisRow"] = <<NewAxisField("Region", "axisRow", -1)>>,
    !.data = <<NewData(-1, "Sales")>>, !.cache.sheet = "Data", !.cache.area = <<1, 1, 4, 2>>]
Keyed == [ByPage EXCEPT !.name = "Keyed", !.cache.key = <<"key">>, !.location = <<<<9, 1>>>>]
MCAdditions == {OfSheet, Keyed}

OnCache == <<2, 1>>
CacheEdits ==
    {<<"setFields", <<"Region", "Amount">>>>, <<"addField", "More">>, <<"addCalculatedField", "Twice", "Sales*2">>,
     <<"setFieldMember", 1, "caption", "Turnover">>, <<"setFieldMember", 1, "numFmtId", 4>>,
     <<"setFieldMember", 1, "databaseField", FALSE>>,
     <<"setFieldFormula", 1, "5">>, <<"groupNumbers", 1, 0, 30, 10>>, <<"groupDates", 0, "months">>,
     <<"clearFieldGroup", 1>>, <<"setRecords", <<<<"East", "5">>>>>>, <<"addRecord", <<"North", "5">>>>, <<"clearRecords">>,
     <<"setTypedRecords", <<<<"1", "5">>, <<"", "10">>>>, <<<<"b", "n">>, <<"m", "n">>>>>>,
     <<"addTypedRecord", <<"North", "5">>, <<"s", "n">>>>, <<"replaceText", 0, 0, "">>, <<"setRecordValue", 2, 0, "North", "s">>,
     <<"insertSourceFields", 0, 1>>, <<"eraseSourceFields", 1, 1>>,
     <<"setOption", "refreshOnLoad", FALSE>>, <<"setSharedCacheKey", <<"key">>>>}
FieldEdits ==
    {<<"addSubtotal", "sum">>, <<"hideItem", 0>>, <<"addItem", [NewItem EXCEPT !.x = 1, !.n = "Left"]>>,
     <<"addCacheValueItem", Text("East"), TRUE>>, <<"clearItems">>}
TableEdits ==
    {<<"addAxisField", "axisPage", "Sales">>, <<"addDataField", 0>>, <<"addNamedDataField", "Sales", "average">>,
     <<"addFilter", NewFilter(1, "count")>>, <<"addChartFormat", [chart |-> 2, format |-> 1]>>,
     <<"setOption", "rowGrandTotals", FALSE>>, <<"setName", "Other">>}
MCEdits ==
    {<<1, 1, e>> : e \in TableEdits \cup {<<"field", "axisRow", 1, f>> : f \in FieldEdits} \cup {<<"cache", c>> : c \in CacheEdits}}
    \cup {<<2, 1, e>> : e \in {<<"cache", c>> : c \in CacheEdits} \cup {<<"field", "axisCol", 1, f>> : f \in FieldEdits}}

Set(name, v) == name :> v
MCPatches ==
    {<<1, "ByPage", <<"options", e>>>> : e \in {Set("refreshOnLoad", FALSE), Set("missingItemsLimit", 0)}}
    \cup {<<2, "ByColumn", <<"options", e>>>> : e \in {Set("saveData", FALSE)}}
    \cup {<<1, "ByRow", <<"field", 0, e>>>> : e \in {Set("name", "Zone"), Set("caption", ""), Set("numFmtId", 3)}}
    \cup {<<2, "ByColumn", <<"field", 1, e>>>> : e \in {Set("name", "Amount"), Set("caption", "Turnover")}}
    \cup {<<1, "ByPage", <<"record", 2, 0, v>>>> : v \in {ValueNode(Text("North")), ValueNode(Text("West"))}}
    \cup {<<2, "ByColumn", <<"record", 0, 1, v>>>> : v \in {ValueNode(Number("5")), ValueNode(Number("20")), ValueNode([t |-> "m", v |-> ""])}}
    \cup {<<1, "ByRow", <<"item", 0, k, e>>>> : k \in {0, 1}, e \in {Set("h", TRUE), Set("h", FALSE), Set("n", "Label")}}
    \cup {<<1, "ByRow", <<"filter", 0, e>>>> : e \in {Set("stringValue1", ""), Set("type", "captionContains"), Set("fld", 1)}}
    \cup {<<1, "ByPage", <<"data", 0, e>>>> : e \in {Set("fld", 0), Set("name", "Units"), Set("subtotal", "max"), Set("showDataAs", "percent")}}
    \cup {<<1, "ByPage", <<"page", 0, e>>>> : e \in {Set("item", 0), Set("name", "All")}}
    \cup {<<1, "OfCube", <<"member", 0, e>>>> : e \in {Set("mdx", "b - a"), Set("solveOrder", "2"), Set("mdx", "")}}
    \cup {<<1, "OfCube", <<"olap", e>>>> : e \in {Set("connectionId", 2), Set("preserveFormatting", FALSE), Set("localCube", "cube")}}
    \cup {<<1, "OfCube", <<"options", e>>>> : e \in {Set("enableRefresh", FALSE)}}

\* Links that hold, that a call can break, and that name a format no table has.
MCPivotCharts ==
    {[sheet |-> "Report", pivot |-> "ByRow", owner |-> <<"Data">>, formatId |-> 1],
     [sheet |-> "Data", pivot |-> "OfSheet", owner |-> <<>>, formatId |-> -1],
     [sheet |-> "Report", pivot |-> "Other", owner |-> <<>>, formatId |-> 1],
     [sheet |-> "Report", pivot |-> "ByRow", owner |-> <<"Report">>, formatId |-> 2]}
=============================================================================
