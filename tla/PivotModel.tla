----------------------------- MODULE PivotModel -----------------------------
(***************************************************************************)
(* The pivot tables of a worksheet as a program builds and edits them      *)
(* (include/XLPP/Pivot/PivotTable.h): PivotTable, its PivotCache, and the  *)
(* fields, items, settings and filters of both.                            *)
(*                                                                         *)
(* A call returns Done(new value), or Fail where the code throws; indices  *)
(* count from 0 as in the code.  Members that the file format keeps as     *)
(* attributes have the names of the attributes.                            *)
(***************************************************************************)
EXTENDS Integers, Sequences, FiniteSets, TLC, Outcomes

CONSTANT Numerals           \* the texts std::strtod takes as a finite number

Done(x) == [ok |-> TRUE, value |-> x]
When(guard, x) == IF guard THEN Done(x) ELSE Fail

Largest(S) == CHOOSE n \in S : \A m \in S : m <= n
Smallest(S) == CHOOSE n \in S : \A m \in S : n <= m
Put(s, at, new) == SubSeq(s, 1, at) \o new \o SubSeq(s, at + 1, Len(s))
Cut(s, at, count) == SubSeq(s, 1, at) \o SubSeq(s, at + count + 1, Len(s))
Times(count, x) == [n \in 1 .. count |-> x]
Elements(s) == {s[i] : i \in DOMAIN s}

-----------------------------------------------------------------------------
(* Values: a text and its physical kind ("m"issing, "n"umber, "s"tring,    *)
(* "b"oolean, "e"rror or "d"ate, the tags of the file format).             *)
Kinds == {"m", "n", "s", "b", "e", "d"}

\* parsePivotValue: the kind a text without one is given.
GuessedKind(text) ==
    IF text = "" THEN "m"
    ELSE IF text \in {"true", "false"} THEN "b"
    ELSE IF SubSeq(text, 1, 1) = "#" THEN "e"
    ELSE IF text \in Numerals THEN "n" ELSE "s"

-----------------------------------------------------------------------------
(* PivotCache                                                              *)
NewField(name) == [name |-> name, caption |-> "", formula |-> "", numFmtId |-> 0,
                   databaseField |-> TRUE, group |-> <<>>]
NewGroup == [par |-> -1, base |-> -1, groupBy |-> "", autoStart |-> TRUE, autoEnd |-> TRUE,
             startNum |-> "", endNum |-> "", groupInterval |-> "", startDate |-> "", endDate |-> "",
             items |-> <<>>]
NewCache == [id |-> 1, sheet |-> "", area |-> <<>>, sourceName |-> "", key |-> <<>>,
             options |-> [refreshOnLoad |-> TRUE, saveData |-> TRUE, enableRefresh |-> TRUE,
                          missingItemsLimit |-> -1],
             fields |-> <<>>, records |-> <<>>, kinds |-> <<>>, typed |-> FALSE,
             olap |-> <<>>, members |-> <<>>]

Width(c) == Len(c.fields)
HasField(c, i) == i >= 0 /\ i < Width(c)
Field(c, i) == c.fields[i + 1]
AllOfWidth(c, rows) == \A r \in DOMAIN rows : Len(rows[r]) = Width(c)
Fits(c, row) == c.fields = <<>> \/ Len(row) = Width(c)

FieldIndex(c, name) ==
    LET at == {i \in 1 .. Width(c) : c.fields[i].name = name}
    IN  IF at = {} THEN -1 ELSE Smallest(at) - 1

HasTypedRecordKinds(c) ==
    /\ c.typed
    /\ Len(c.kinds) = Len(c.records)
    /\ \A r \in DOMAIN c.records : Len(c.kinds[r]) = Len(c.records[r])

SetFields(c, names) ==
    When(\A r \in DOMAIN c.records : Len(c.records[r]) = Len(names),
         [c EXCEPT !.fields = [i \in DOMAIN names |->
             IF i <= Width(c) THEN [c.fields[i] EXCEPT !.name = names[i]] ELSE NewField(names[i])]])

AddField(c, name) == When(c.records = <<>>, [c EXCEPT !.fields = Append(@, NewField(name))])

AddCalculatedField(c, name, formula) ==
    When(name # "" /\ formula # "" /\ FieldIndex(c, name) < 0,
         [c EXCEPT !.fields = Append(@, [NewField(name) EXCEPT !.formula = formula, !.databaseField = FALSE]),
                   !.records = [r \in DOMAIN @ |-> Append(@[r], "")],
                   !.kinds = IF HasTypedRecordKinds(c) THEN [r \in DOMAIN @ |-> Append(@[r], "m")] ELSE @])

SetFieldMember(c, i, member, v) ==              \* caption, numFmtId, databaseField
    When(HasField(c, i) /\ (member = "numFmtId" => v >= 0), [c EXCEPT !.fields[i + 1][member] = v])
SetFieldFormula(c, i, formula) ==
    When(HasField(c, i), [c EXCEPT !.fields[i + 1].formula = formula,
                                   !.fields[i + 1].databaseField = @ /\ formula = ""])
SetFieldGroup(c, i, group) == When(HasField(c, i), [c EXCEPT !.fields[i + 1].group = <<group>>])
ClearFieldGroup(c, i) == When(HasField(c, i), [c EXCEPT !.fields[i + 1].group = <<>>])

\* start, end and interval are integers, kept as the numerals the code would write.
SetNumericFieldGrouping(c, i, start, end, interval) ==
    IF interval <= 0 \/ end < start THEN Fail
    ELSE SetFieldGroup(c, i, [NewGroup EXCEPT !.base = i, !.autoStart = FALSE, !.autoEnd = FALSE,
             !.startNum = ToString(start), !.endNum = ToString(end), !.groupInterval = ToString(interval)])
SetDateFieldGrouping(c, i, unit) ==
    IF unit \notin {"seconds", "minutes", "hours", "days", "months", "quarters", "years"} THEN Fail
    ELSE SetFieldGroup(c, i, [NewGroup EXCEPT !.base = i, !.groupBy = unit])

(* Records.  Whatever loses the kinds of some values loses those of all.   *)
Untyped(c, rows) == [c EXCEPT !.records = rows, !.kinds = <<>>, !.typed = FALSE]
SetRecords(c, rows) == When(\A r \in DOMAIN rows : Fits(c, rows[r]), Untyped(c, rows))
AddRecord(c, row) == When(Fits(c, row), Untyped(c, Append(c.records, row)))
ClearRecords(c) == Done(Untyped(c, <<>>))
SetTypedRecords(c, rows, kinds) ==
    When(/\ Len(rows) = Len(kinds)
         /\ \A r \in DOMAIN rows : Fits(c, rows[r]) /\ Len(kinds[r]) = Len(rows[r]),
         [c EXCEPT !.records = rows, !.kinds = kinds, !.typed = TRUE])
AddTypedRecord(c, row, kinds) ==
    When(/\ Fits(c, row) /\ Len(kinds) = Len(row)
         /\ c.typed \/ c.records = <<>>,
         [c EXCEPT !.records = Append(@, row), !.kinds = Append(@, kinds), !.typed = TRUE])
\* records()[r][i] = text, through the mutable accessor.
ReplaceText(c, r, i, text) ==
    When(r < Len(c.records) /\ i < Len(c.records[r + 1]), [c EXCEPT !.records[r + 1][i + 1] = text, !.typed = FALSE])

AllStrings(rows) == [r \in DOMAIN rows |-> Times(Len(rows[r]), "s")]
SetRecordValue(c, r, i, text, kind) ==
    LET kinds == IF HasTypedRecordKinds(c) THEN c.kinds ELSE AllStrings(c.records)
    IN  When(r < Len(c.records) /\ i < Len(c.records[r + 1]),
             [c EXCEPT !.records[r + 1][i + 1] = text, !.typed = TRUE,
                       !.kinds = [kinds EXCEPT ![r + 1][i + 1] = kind]])

(* Structural edits of the source: the cache stays rectangular and groups  *)
(* keep the fields they are made of.                                       *)
RECURSIVE FreshNames(_, _, _)
FreshNames(taken, from, count) ==
    IF count = 0 THEN <<>>
    ELSE LET plain == "Column" \o ToString(from)
             suffix(k) == plain \o "_" \o ToString(k)
             free == {k \in 2 .. Cardinality(taken) + 2 : suffix(k) \notin taken}
             name == IF plain \in taken THEN suffix(Smallest(free)) ELSE plain
         IN  <<name>> \o FreshNames(taken \cup {name}, from + 1, count - 1)

MovedGroups(fields, Move(_)) ==
    [i \in DOMAIN fields |->
        [fields[i] EXCEPT !.group = [k \in DOMAIN @ |->
            [@[k] EXCEPT !.base = Move(@), !.par = Move(@)]]]]

InsertSourceFields(c, at, count) ==
    LET names == FreshNames({f.name : f \in Elements(c.fields)}, at + 1, count)
        Move(k) == IF k >= at THEN k + count ELSE k
    IN  When(at <= Width(c),
             [c EXCEPT !.fields = MovedGroups(Put(@, at, [n \in DOMAIN names |-> NewField(names[n])]), Move),
                       !.records = [r \in DOMAIN @ |-> Put(@[r], at, Times(count, ""))],
                       !.kinds = IF HasTypedRecordKinds(c)
                                 THEN [r \in DOMAIN @ |-> Put(@[r], at, Times(count, "m"))] ELSE @])

EraseSourceFields(c, at, count) ==
    LET Move(k) == IF k >= at + count THEN k - count ELSE IF k >= at THEN -1 ELSE k
    IN  When(at < Width(c) /\ at + count <= Width(c),
             [c EXCEPT !.fields = MovedGroups(Cut(@, at, count), Move),
                       !.records = [r \in DOMAIN @ |-> Cut(@[r], at, count)],
                       !.kinds = IF HasTypedRecordKinds(c)
                                 THEN [r \in DOMAIN @ |-> Cut(@[r], at, count)] ELSE @])

-----------------------------------------------------------------------------
(* PivotFieldItem and PivotField                                           *)
NewItem == [x |-> -1, t |-> "", n |-> "", h |-> FALSE, sd |-> TRUE, f |-> FALSE, m |-> FALSE,
            bound |-> <<>>]                     \* <<value>> once bound to a cache value

Subtotals == {"sum", "countA", "avg", "max", "min", "product", "count", "stdDev", "stdDevP", "var", "varP"}

NewAxisField(name, axis, index) ==
    [name |-> name, axis |-> axis, index |-> index, showAll |-> FALSE, sortType |-> 0,
     compact |-> TRUE, outline |-> TRUE, defaultSubtotal |-> FALSE,
     subtotals |-> {}, hidden |-> {}, items |-> <<>>]

AddSubtotal(f, s) == When(s \in Subtotals, [f EXCEPT !.subtotals = @ \cup {s}])
HideItem(f, x) ==
    Done([f EXCEPT !.hidden = @ \cup {x},
                   !.items = [i \in DOMAIN @ |-> [@[i] EXCEPT !.h = @ \/ f.items[i].x = x]]])
AddItem(f, item) ==
    When(item.x >= -1, [f EXCEPT !.hidden = IF item.h /\ item.x >= 0 THEN @ \cup {item.x} ELSE @,
                                 !.items = Append(@, item)])
AddCacheValueItem(f, value, hidden) ==          \* hideCacheValue, showCacheValue
    LET bound == {i \in DOMAIN f.items : f.items[i].bound = <<value>>}
    IN  Done(IF bound # {} THEN [f EXCEPT !.items[Smallest(bound)].h = hidden]
             ELSE [f EXCEPT !.items = Append(@, [NewItem EXCEPT !.h = hidden, !.bound = <<value>>])])
ClearItems(f) == [f EXCEPT !.items = <<>>, !.hidden = {}]

-----------------------------------------------------------------------------
(* PivotFieldReference, PivotPageField, PivotFilter                        *)
Aggregations == {"average", "count", "countNums", "max", "min", "product", "stdDev", "stdDevp",
                 "sum", "var", "varp"}
ShowModes == {"normal", "difference", "percent", "percentDiff", "runTotal", "percentOfRow",
              "percentOfCol", "percentOfTotal", "index"}
NewData(fld, source) == [fld |-> fld, source |-> source, name |-> "", subtotal |-> "sum",
                         showDataAs |-> "normal", baseField |-> 0, baseItem |-> 0, numFmtId |-> 0]
NewPage(fld) == [fld |-> fld, hier |-> -1, item |-> -1, name |-> ""]
NewFilter(fld, type) ==
    [fld |-> fld, type |-> type, id |-> 0, evalOrder |-> 0, iMeasureFld |-> -1, iMeasureHier |-> -1,
     mpFld |-> -1, name |-> "", description |-> "", stringValue1 |-> "", stringValue2 |-> "",
     autoFilter |-> ""]

-----------------------------------------------------------------------------
(* PivotTable                                                              *)
Options == [rowGrandTotals |-> TRUE, colGrandTotals |-> TRUE, compact |-> TRUE, outline |-> TRUE,
            preserveFormatting |-> TRUE, useAutoFormatting |-> TRUE, showDrill |-> TRUE,
            multipleFieldFilters |-> FALSE]
Style == [name |-> "PivotStyleLight16", showRowHeaders |-> TRUE, showColHeaders |-> TRUE,
          showRowStripes |-> FALSE, showColStripes |-> FALSE]
Axes == {"axisRow", "axisCol", "axisPage"}

NewTable(name) ==
    [name |-> name, location |-> <<>>, options |-> Options, style |-> Style, chartFormat |-> <<>>,
     cache |-> NewCache, fields |-> [a \in Axes |-> <<>>], pages |-> <<>>, data |-> <<>>,
     filters |-> <<>>, chartFormats |-> <<>>]

AddAxisField(p, axis, name) ==
    LET index == FieldIndex(p.cache, name)
    IN  [p EXCEPT !.fields[axis] = Append(@, NewAxisField(name, axis, index)),
                  !.pages = IF axis = "axisPage" THEN Append(@, NewPage(index)) ELSE @]
AddDataField(p, index) ==
    [p EXCEPT !.data = Append(@, NewData(index, IF HasField(p.cache, index) THEN Field(p.cache, index).name ELSE ""))]
AddNamedDataField(p, name, subtotal) ==
    When(subtotal \in Aggregations,
         [p EXCEPT !.data = Append(@, [NewData(FieldIndex(p.cache, name), name) EXCEPT !.subtotal = subtotal])])
AddFilter(p, filter) ==
    LET next == Largest({1} \cup {f.id + 1 : f \in Elements(p.filters)})
    IN  When(filter.fld >= 0 /\ filter.type # "",
             [p EXCEPT !.filters = Append(@, [filter EXCEPT !.id = IF @ = 0 THEN next ELSE @])])

-----------------------------------------------------------------------------
(* A call on a table that Worksheet::pivotTables() handed out, as the      *)
(* tuple of its name and arguments.                                        *)
InCache(p, r) == Then(r, LAMBDA d : Done([p EXCEPT !.cache = d.value]))
InField(p, axis, k, r) == Then(r, LAMBDA d : Done([p EXCEPT !.fields[axis][k] = d.value]))

CacheCall(c, e) ==
    CASE e[1] = "setFields"          -> SetFields(c, e[2])
      [] e[1] = "addField"           -> AddField(c, e[2])
      [] e[1] = "addCalculatedField" -> AddCalculatedField(c, e[2], e[3])
      [] e[1] = "setFieldMember"     -> SetFieldMember(c, e[2], e[3], e[4])
      [] e[1] = "setFieldFormula"    -> SetFieldFormula(c, e[2], e[3])
      [] e[1] = "groupNumbers"       -> SetNumericFieldGrouping(c, e[2], e[3], e[4], e[5])
      [] e[1] = "groupDates"         -> SetDateFieldGrouping(c, e[2], e[3])
      [] e[1] = "clearFieldGroup"    -> ClearFieldGroup(c, e[2])
      [] e[1] = "setRecords"         -> SetRecords(c, e[2])
      [] e[1] = "addRecord"          -> AddRecord(c, e[2])
      [] e[1] = "clearRecords"       -> ClearRecords(c)
      [] e[1] = "setTypedRecords"    -> SetTypedRecords(c, e[2], e[3])
      [] e[1] = "addTypedRecord"     -> AddTypedRecord(c, e[2], e[3])
      [] e[1] = "replaceText"        -> ReplaceText(c, e[2], e[3], e[4])
      [] e[1] = "setRecordValue"     -> SetRecordValue(c, e[2], e[3], e[4], e[5])
      [] e[1] = "insertSourceFields" -> InsertSourceFields(c, e[2], e[3])
      [] e[1] = "eraseSourceFields"  -> EraseSourceFields(c, e[2], e[3])
      [] e[1] = "setOption"          -> Done([c EXCEPT !.options[e[2]] = e[3]])
      [] e[1] = "setSharedCacheKey"  -> Done([c EXCEPT !.key = e[2]])

FieldCall(f, e) ==
    CASE e[1] = "addSubtotal"       -> AddSubtotal(f, e[2])
      [] e[1] = "hideItem"          -> HideItem(f, e[2])
      [] e[1] = "addItem"           -> AddItem(f, e[2])
      [] e[1] = "addCacheValueItem" -> AddCacheValueItem(f, e[2], e[3])
      [] e[1] = "clearItems"        -> Done(ClearItems(f))

TableCall(p, e) ==
    CASE e[1] = "cache"        -> InCache(p, CacheCall(p.cache, e[2]))
      [] e[1] = "field"        -> IF e[3] \in DOMAIN p.fields[e[2]]
                                  THEN InField(p, e[2], e[3], FieldCall(p.fields[e[2]][e[3]], e[4])) ELSE Fail
      [] e[1] = "addAxisField" -> Done(AddAxisField(p, e[2], e[3]))
      [] e[1] = "addDataField" -> Done(AddDataField(p, e[2]))
      [] e[1] = "addNamedDataField" -> AddNamedDataField(p, e[2], e[3])
      [] e[1] = "addFilter"    -> AddFilter(p, e[2])
      [] e[1] = "addChartFormat" -> Done([p EXCEPT !.chartFormats = Append(@, e[2])])
      [] e[1] = "setOption"    -> Done([p EXCEPT !.options[e[2]] = e[3]])
      [] e[1] = "setName"      -> Done([p EXCEPT !.name = e[2]])
=============================================================================
