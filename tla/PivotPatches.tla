---------------------------- MODULE PivotPatches ----------------------------
(***************************************************************************)
(* Workbook::updateImportedPivot... (Workbook/WorkbookPivot.cpp): edits of  *)
(* a loaded pivot table that patch the text of its preserved part and      *)
(* mirror the change in the models, without marking the worksheet edited.  *)
(*                                                                         *)
(* A workbook is a record of sheets, a sequence of worksheets with their   *)
(* name, source part and pivots, and preserved, the package of preserved   *)
(* parts.  A patch is a function from the members it sets to their values. *)
(* Fail stands for "false" and for an exception: both leave the workbook   *)
(* as it was.                                                              *)
(***************************************************************************)
EXTENDS PivotXml

\* pivotPatchAttribute: what a patch leaves of the attributes of an element.
PatchAttributes(node, patch, erased) ==
    LET gone == {n \in DOMAIN patch \cap DOMAIN erased : patch[n] = erased[n]}
    IN  Only(patch @@ node, (DOMAIN node \cup DOMAIN patch) \ gone)
Patched(model, patch) == patch @@ model

-----------------------------------------------------------------------------
(* Finding the table, its part and the part of its cache.                  *)
TableAt(sheet, name) ==
    LET at == {k \in DOMAIN sheet.pivots : sheet.pivots[k].name = name}
    IN  IF at = {} THEN 0 ELSE Smallest(at)

CachePart(wb, s, name) ==
    LET k == TableAt(wb.sheets[s], name)
        key == IF k = 0 THEN <<>> ELSE wb.sheets[s].pivots[k].cache.key
    IN  IF key # <<>> /\ key[1] = "pivotCacheDefinition" /\ key \in DOMAIN wb.preserved.parts THEN key ELSE <<>>

\* findPivotPart: among the targets of the worksheet's source part, or of all when there are none.
FindPivotPart(wb, s, name) ==
    LET rels == SelectSeq(RelationshipsOf(wb.preserved, wb.sheets[s].part), LAMBDA r : r.type = "pivotTable")
        targets == {r.target : r \in Elements(rels)}
        parts == DOMAIN wb.preserved.parts
        candidates == IF targets = {} THEN {p \in parts : p[1] = "pivotTable"} ELSE targets \cap parts
        named == {p \in candidates : wb.preserved.parts[p].name = name}
    IN  IF named = {} THEN <<>> ELSE <<"pivotTable", Smallest({p[2] : p \in named})>>

InPart(wb, part, content) == [wb EXCEPT !.preserved.parts[part] = content]
InPivot(wb, s, k, pivot) == [wb EXCEPT !.sheets[s].pivots[k] = pivot]

\* Every loaded table that shares the cache sees the patch.
InSharers(wb, part, Change(_)) ==
    [wb EXCEPT !.sheets = [s \in DOMAIN @ |->
        [@[s] EXCEPT !.pivots = [k \in DOMAIN @ |->
            IF @[k].cache.key = part THEN Change(@[k]) ELSE @[k]]]]]

-----------------------------------------------------------------------------
(* The cache: options, fields, records, OLAP source, calculated members.   *)
\* Mutant: only the named table sees the patch.
UpdateCacheOptionsOfTable(wb, s, name, patch) ==
    LET part == CachePart(wb, s, name)
        k == TableAt(wb.sheets[s], name)
    IN  IF part = <<>> THEN Fail
        ELSE LET d == wb.preserved.parts[part]
                 in == InPart(wb, part, [d EXCEPT !.attributes = PatchAttributes(@, patch, <<>>)])
             IN  Done([in EXCEPT !.sheets[s].pivots[k].cache.options = Patched(@, patch)])
UpdateCacheOptions(wb, s, name, patch) ==
    LET part == CachePart(wb, s, name)
        Change(p) == [p EXCEPT !.cache.options = Patched(@, patch)]
    IN  IF part = <<>> THEN Fail
        ELSE LET d == wb.preserved.parts[part]
             IN  Done(InSharers(InPart(wb, part, [d EXCEPT !.attributes = PatchAttributes(@, patch, <<>>)]),
                                part, Change))

\* A field of an axis follows by its index, or by the name the cache field had.
Renamed(fields, i, old, new, Index(_), member) ==
    [k \in DOMAIN fields |->
        IF Index(fields[k]) = i \/ fields[k][member] = old THEN [fields[k] EXCEPT ![member] = new] ELSE fields[k]]
WithFieldName(p, i, new) ==
    LET old == Field(p.cache, i).name
        axis(a) == Renamed(p.fields[a], i, old, new, LAMBDA f : f.index, "name")
    IN  [p EXCEPT !.cache.fields[i + 1].name = new,
                  !.fields = [a \in Axes |-> axis(a)],
                  !.data = Renamed(@, i, old, new, LAMBDA f : f.fld, "source")]
WithCacheField(p, i, patch) ==
    LET renamed == IF "name" \in DOMAIN patch THEN WithFieldName(p, i, patch.name) ELSE p
        formula == IF "formula" \in DOMAIN patch THEN SetFieldFormula(renamed.cache, i, patch.formula).value
                   ELSE renamed.cache
    IN  IF ~HasField(p.cache, i) THEN p
        ELSE [renamed EXCEPT !.cache = [formula EXCEPT !.fields[i + 1] = Patched(@, patch)]]

UpdateCacheField(wb, s, name, i, patch) ==
    LET part == CachePart(wb, s, name)
        erased == [caption |-> "", formula |-> ""]
        Change(p) == WithCacheField(p, i, patch)
    IN  IF \/ part = <<>> \/ i + 1 \notin DOMAIN wb.preserved.parts[part].fields
           \/ "name" \in DOMAIN patch /\ patch.name = ""
           \/ "numFmtId" \in DOMAIN patch /\ patch.numFmtId < 0
        THEN Fail
        ELSE LET d == wb.preserved.parts[part]
             IN  Done(InSharers(InPart(wb, part,
                        [d EXCEPT !.fields[i + 1].attributes = PatchAttributes(@, patch, erased)]), part, Change))

(* A record value: its node is replaced, its kind kept in the model unless *)
(* the patch names a shared item.                                          *)
RecordsPart(wb, part) ==
    LET target == RelationshipTarget(wb.preserved, part, "pivotCacheRecords")
    IN  IF target = <<>> THEN <<"pivotCacheRecords", part[2]>> ELSE target
PatchIsLegal(v) ==
    CASE v.t = "n" -> v.v \in Numerals
      [] v.t = "b" -> v.v \in {"true", "1", "false", "0"}
      [] v.t \in {"e", "d"} -> v.v # ""
      [] v.t = "x" -> v.x >= 0
      [] OTHER -> TRUE
RecordNode(v) == IF v.t = "x" THEN [v EXCEPT !.v = ""] ELSE ValueNode(v)
WithRecordValue(p, r, i, v) ==
    IF ~(r < Len(p.cache.records) /\ i < Len(p.cache.records[r + 1])) THEN p
    ELSE IF v.t = "x" THEN [p EXCEPT !.cache = ReplaceText(@, r, i, v.v).value]
    ELSE [p EXCEPT !.cache = SetRecordValue(@, r, i, NodeValue(ValueNode(v)).v, v.t).value]

UpdateCacheRecordValue(wb, s, name, r, i, v) ==
    LET part == CachePart(wb, s, name)
        records == RecordsPart(wb, part)
        Change(p) == WithRecordValue(p, r, i, v)
    IN  IF part = <<>> \/ ~PatchIsLegal(v) THEN Fail
        ELSE IF records \notin DOMAIN wb.preserved.parts THEN Fail
        ELSE LET d == wb.preserved.parts[records]
             IN  IF r + 1 \notin DOMAIN d.rows THEN Fail
                 ELSE IF i + 1 \notin DOMAIN d.rows[r + 1] THEN Fail
                 ELSE Done(InSharers(InPart(wb, records, [d EXCEPT !.rows[r + 1][i + 1] = RecordNode(v)]),
                                     part, Change))

(* The scalars of olapInfo are set in the element that is there; when      *)
(* there is none only the model changes.                                   *)
OlapErased == [localCube |-> "", localConnection |-> ""]
UpdateOlapSource(wb, s, name, patch) ==
    LET part == CachePart(wb, s, name)
        info == Only(patch, DOMAIN patch \ {"connectionId"})
        source(d) == [d.source EXCEPT
            !.info = [k \in DOMAIN @ |-> PatchAttributes(@[k], info, OlapErased)],
            !.connectionId = IF "connectionId" \in DOMAIN patch THEN patch.connectionId ELSE @]
        olap == wb.sheets[s].pivots[TableAt(wb.sheets[s], name)].cache.olap
    IN  IF part = <<>> THEN Fail
        ELSE IF olap = <<>> THEN Fail
        ELSE LET d == wb.preserved.parts[part]
                 Change(p) == [p EXCEPT !.cache.olap = <<Patched(@[1], patch @@ [raw |-> source(d).info])>>]
             IN  Done(InSharers(InPart(wb, part, [d EXCEPT !.source = source(d)]), part, Change))

MemberErased == [mdx |-> "", memberName |-> "", solveOrder |-> "", set |-> ""]
UpdateCalculatedMember(wb, s, name, m, patch) ==
    LET part == CachePart(wb, s, name)
    IN  IF part = <<>> THEN Fail
        ELSE IF m + 1 \notin DOMAIN wb.preserved.parts[part].members THEN Fail
        ELSE LET d == wb.preserved.parts[part]
                 node == PatchAttributes(d.members[m + 1], patch, MemberErased)
                 Change(p) == IF m + 1 \notin DOMAIN p.cache.members THEN p
                              ELSE [p EXCEPT !.cache.members[m + 1] = Patched(@, patch @@ [raw |-> <<node>>])]
             IN  Done(InSharers(InPart(wb, part, [d EXCEPT !.members[m + 1] = node]), part, Change))

-----------------------------------------------------------------------------
(* The table: items, filters, data fields, page fields.  Only the model    *)
(* that was named follows.                                                 *)
WithItem(p, i, k, patch) ==
    LET synced(f) ==
          LET items == [f.items EXCEPT ![k + 1] = Patched(@, patch)]
          IN  [f EXCEPT !.items = items,
                        !.hidden = {items[n].x : n \in {n \in DOMAIN items : items[n].h /\ items[n].x >= 0}}]
    IN  [p EXCEPT !.fields = [a \in Axes |-> [n \in DOMAIN @[a] |->
            IF @[a][n].index = i /\ k + 1 \in DOMAIN @[a][n].items THEN synced(@[a][n]) ELSE @[a][n]]]]

\* Replaces the nodes of a list of the table's part and the model of the table.
InTable(wb, s, name, Content(_), Model(_)) ==
    LET part == FindPivotPart(wb, s, name)
        k == TableAt(wb.sheets[s], name)
    IN  InPivot(InPart(wb, part, Content(wb.preserved.parts[part])), s, k, Model(wb.sheets[s].pivots[k]))
Has(wb, s, name, list, n) ==
    /\ TableAt(wb.sheets[s], name) # 0
    /\ FindPivotPart(wb, s, name) # <<>>
    /\ n + 1 \in DOMAIN wb.preserved.parts[FindPivotPart(wb, s, name)][list]
HasBoth(wb, s, name, list, n) ==
    /\ Has(wb, s, name, list, n)
    /\ n + 1 \in DOMAIN wb.sheets[s].pivots[TableAt(wb.sheets[s], name)][list]
IsCacheField(wb, s, name, patch) ==
    "fld" \in DOMAIN patch => HasField(wb.sheets[s].pivots[TableAt(wb.sheets[s], name)].cache, patch.fld)

UpdateFieldItem(wb, s, name, i, k, patch) ==
    LET Content(d) == [d EXCEPT !.fields[i + 1].items[k + 1] = PatchAttributes(@, patch, [x |-> -1] @@ ItemDefaults)]
        Model(p) == WithItem(p, i, k, patch)
    IN  IF ~Has(wb, s, name, "fields", i) THEN Fail
        ELSE IF k + 1 \notin DOMAIN wb.preserved.parts[FindPivotPart(wb, s, name)].fields[i + 1].items THEN Fail
        ELSE Done(InTable(wb, s, name, Content, Model))

UpdateFilter(wb, s, name, n, patch) ==
    LET Content(d) == [d EXCEPT !.filters[n + 1] = PatchAttributes(@, patch, FilterDefaults)]
        Model(p) == [p EXCEPT !.filters[n + 1] = Patched(@, patch)]
    IN  IF \/ ~HasBoth(wb, s, name, "filters", n)
           \/ "fld" \in DOMAIN patch /\ patch.fld < 0
           \/ "type" \in DOMAIN patch /\ patch.type = ""
        THEN Fail
        ELSE Done(InTable(wb, s, name, Content, Model))

\* A new field of the cache gives a data field the name of that field too.
WithDataField(p, n, patch) ==
    LET source == IF "fld" \in DOMAIN patch THEN [source |-> Field(p.cache, patch.fld).name] ELSE <<>>
    IN  [p EXCEPT !.data[n + 1] = Patched(@, patch @@ source)]
UpdateDataField(wb, s, name, n, patch) ==
    LET Content(d) == [d EXCEPT !.data[n + 1] = PatchAttributes(@, patch, DataDefaults)]
        Model(p) == WithDataField(p, n, patch)
    IN  IF ~HasBoth(wb, s, name, "data", n) THEN Fail
        ELSE IF \/ ~IsCacheField(wb, s, name, patch)
                \/ "numFmtId" \in DOMAIN patch /\ patch.numFmtId < 0
                \/ "subtotal" \in DOMAIN patch /\ patch.subtotal \notin Aggregations
                \/ "showDataAs" \in DOMAIN patch /\ patch.showDataAs \notin ShowModes
        THEN Fail
        ELSE Done(InTable(wb, s, name, Content, Model))

WithPageField(p, n, patch) ==
    LET set == [p EXCEPT !.pages[n + 1] = Patched(@, patch)]
    IN  IF "fld" \in DOMAIN patch /\ n + 1 \in DOMAIN p.fields["axisPage"]
        THEN [set EXCEPT !.fields["axisPage"][n + 1].index = patch.fld,
                         !.fields["axisPage"][n + 1].name = Field(p.cache, patch.fld).name]
        ELSE set
UpdatePageField(wb, s, name, n, patch) ==
    LET Content(d) == [d EXCEPT !.pages[n + 1] = PatchAttributes(@, patch, PageDefaults)]
        Model(p) == WithPageField(p, n, patch)
    IN  IF ~HasBoth(wb, s, name, "pages", n) THEN Fail
        ELSE IF ~IsCacheField(wb, s, name, patch) THEN Fail
        ELSE Done(InTable(wb, s, name, Content, Model))

-----------------------------------------------------------------------------
(* A call, as the tuple of its name and its arguments.                     *)
UpdateImported(wb, s, name, e) ==
    CASE e[1] = "options" -> UpdateCacheOptions(wb, s, name, e[2])
      [] e[1] = "field"   -> UpdateCacheField(wb, s, name, e[2], e[3])
      [] e[1] = "record"  -> UpdateCacheRecordValue(wb, s, name, e[2], e[3], e[4])
      [] e[1] = "olap"    -> UpdateOlapSource(wb, s, name, e[2])
      [] e[1] = "member"  -> UpdateCalculatedMember(wb, s, name, e[2], e[3])
      [] e[1] = "item"    -> UpdateFieldItem(wb, s, name, e[2], e[3], e[4])
      [] e[1] = "filter"  -> UpdateFilter(wb, s, name, e[2], e[3])
      [] e[1] = "data"    -> UpdateDataField(wb, s, name, e[2], e[3])
      [] e[1] = "page"    -> UpdatePageField(wb, s, name, e[2], e[3])
=============================================================================
