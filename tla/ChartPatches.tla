---------------------------- MODULE ChartPatches ----------------------------
(***************************************************************************)
(* How one logged edit of an imported chart changes the text of its part   *)
(* (Workbook/WorkbookChartEditing.cpp).  Every operator takes a text and   *)
(* returns the patched one, or Fail where the function returns false.  A   *)
(* line or a fill is one value, "" when it is not given; rich text is the  *)
(* sequence of the texts of its runs.                                      *)
(***************************************************************************)
EXTENDS ChartText

LineIn(spPr, v) ==
  IF v = "" THEN spPr
  ELSE IF Has(spPr, "ln") THEN SetVal(spPr, "ln", v) ELSE PutAt(spPr, LastClose(spPr), Leaf("ln", v))
chartSolidFillXml(v) == Leaf("solidFill", v)
FillIn(spPr, v) ==
  IF v = "" THEN spPr ELSE InsertBefore(RemoveAll(spPr, "solidFill"), <<"ln">>, chartSolidFillXml(v))

\* The shape properties of an owner, made before the first of these tags when it has none.
InSpPr(o, spPr, before, line, fill) ==
  LET made == Node("spPr", <<>>)
      owner == IF spPr = <<>> THEN InsertBefore(o, before, made) ELSE o
  IN IF owner = Fail THEN Fail
     ELSE Within(owner, IF spPr = <<>> THEN made ELSE spPr, LAMBDA p : FillIn(LineIn(p, line), fill))
patchShapeOwnerFormat(o, line, fill) == InSpPr(o, First(o, "spPr"), <<>>, line, fill)
patchNestedLineFormat(o, line) == patchShapeOwnerFormat(o, line, "")
ShapeIfGiven(o, line, fill) == IF line = "" /\ fill = "" THEN o ELSE patchShapeOwnerFormat(o, line, fill)

--------------------------------------------------------------------------
(* Titles *)

chartRichTextTxXml(r) == Node("tx", Node("rich", FlattenSeq([i \in DOMAIN r |-> Leaf("t", r[i])])))
generatedChartTitleXml(r) == Node("title", chartRichTextTxXml(r) \o Leaf("overlay", "0"))

\* The chart's own title: one that starts before the plot area.
ChartTitle(t) ==
  LET own == SelectSeq(Starts(t, {"title"}), LAMBDA i : i < Head(Starts(t, {"plotArea"})))
  IN IF own = <<>> THEN <<>> ELSE SubSeq(t, Head(own), EndOf(t, Head(own)))
\* Mutant: the title is generated anew.
TitleAnew(title, v) == generatedChartTitleXml(<<v>>)

PlainTitle(title, v) ==
  IF Has(title, "t") THEN SetVal(title, "t", v)
  ELSE IF Has(title, "v") THEN SetVal(title, "v", v) ELSE generatedChartTitleXml(<<v>>)
TitleText(o, title, v, before) ==
  IF v = "" THEN IF title = <<>> THEN o ELSE Swap(o, title, <<>>)
  ELSE IF title = <<>> THEN InsertBeforeAny(o, before, generatedChartTitleXml(<<v>>))
  ELSE Within(o, title, LAMBDA n : PlainTitle(n, v))
TxRuns(o, r, before) ==
  IF Has(o, "tx") THEN Swap(o, First(o, "tx"), chartRichTextTxXml(r))
  ELSE InsertBefore(o, before, chartRichTextTxXml(r))
TitleRuns(o, title, r, before) ==
  IF title = <<>> THEN InsertBefore(o, before, generatedChartTitleXml(r))
  ELSE Within(o, title, LAMBDA n : TxRuns(n, r, <<>>))

patchImportedChartTitle(t, v) == TitleText(t, ChartTitle(t), v, <<"plotArea">>)
patchImportedChartTitleRichText(t, r) == TitleRuns(t, ChartTitle(t), r, <<"plotArea">>)
patchAxisTitleNode(a, v) ==
  TitleText(a, First(a, "title"), v,
            <<"numFmt", "majorTickMark", "minorTickMark", "tickLblPos", "spPr", "txPr", "crossAx">>)
patchImportedAxisTitleRichTextById(a, r) == TitleRuns(a, First(a, "title"), r, <<"crossAx">>)
patchImportedChartStyle(t, v) ==
  IF Has(t, "style") THEN SetVal(t, "style", v) ELSE InsertBefore(t, <<"chart">>, Leaf("style", v))

--------------------------------------------------------------------------
(* Axes *)

AxisNested == {"title", "majorGridlines", "minorGridlines", "txPr", "extLst"}
axisDirectSpPr(a) == Outside(a, "spPr", AxisNested)
AxesById(t, id) ==
  SelectSeq(drawingTags(t, "catAx") \o drawingTags(t, "valAx") \o drawingTags(t, "dateAx")
              \o drawingTags(t, "serAx"), LAMBDA a : Value(a, "axId") = id)
patchAxisNodeById(t, id, Patch(_)) ==
  IF AxesById(t, id) = <<>> THEN Fail ELSE Within(t, Head(AxesById(t, id)), Patch)

patchImportedAxisNumberFormat(a, v) ==
  IF Has(a, "numFmt") THEN SetVal(a, "numFmt", v) ELSE InsertBefore(a, <<"majorTickMark">>, Leaf("numFmt", v))
patchImportedAxisTicks(a, v) ==
  SetGiven(SetGiven(SetGiven(a, "majorTickMark", v[1]), "minorTickMark", v[2]), "tickLblPos", v[3])
patchImportedAxisUnits(a, v) == SetGiven(SetVal(a, "majorUnit", v[1]), "minorUnit", v[2])

\* patchScalingValChild, or the removal of a bound that is not set.
ScalingChild(s, tag, v) == IF v = "" THEN RemoveAll(s, tag) ELSE SetVal(s, tag, v)
patchImportedAxisScaling(a, v) ==
  InOrNew(a, First(a, "scaling"), Node("scaling", <<>>),
    LAMBDA s : Splice(a, Head(Starts(a, {"axId"})) + 1, 0, s),
    LAMBDA s : ScalingChild(ScalingChild(SetVal(ScalingChild(s, "logBase", v[1]), "orientation", v[2]),
                                         "max", v[3]), "min", v[4]))
\* Mutant: a value of an earlier call stays.
CrossingBeside(a, v) == SetGiven(SetGiven(a, "crosses", v[1]), "crossBetween", v[2])

patchImportedAxisCrossing(a, v) ==
  SetGiven(SetGiven(IF v[1] = "" THEN a ELSE RemoveAll(a, "crossesAt"), "crosses", v[1]), "crossBetween", v[2])
\* Mutant: crosses stays.
CrossesAtBeside(a, v) == InsertBefore(RemoveAll(a, "crossesAt"), <<"crossBetween">>, Leaf("crossesAt", v))

patchImportedAxisCrossesAt(a, v) ==
  InsertBeforeAny(RemoveAll(RemoveAll(a, "crossesAt"), "crosses"),
                  <<"crossBetween", "majorUnit", "minorUnit", "dispUnits", "extLst">>, Leaf("crossesAt", v))
ClearCrossesAt(a) == RemoveAll(a, "crossesAt")

\* <<the unit, the runs of its label>>
DisplayUnits(v) ==
  Node("dispUnits", Leaf("builtInUnit", v[1])
                      \o IF v[2] = <<>> THEN <<>> ELSE Node("dispUnitsLbl", chartRichTextTxXml(v[2])))
patchImportedAxisDisplayUnits(a, v) ==
  InOrNew(a, First(a, "dispUnits"), <<>>, LAMBDA n : InsertBefore(a, <<"extLst">>, n), LAMBDA n : DisplayUnits(v))
patchImportedAxisLineFormat(a, v) == InSpPr(a, axisDirectSpPr(a), <<>>, v, "")
patchImportedAxisGridlineFormat(a, tag, v) ==
  InOrNew(a, First(a, tag), Node(tag, <<>>), LAMBDA g : InsertBefore(a, <<"title">>, g),
          LAMBDA g : patchNestedLineFormat(g, v))
removeImportedAxisGridlines(a, tag) == RemoveAll(a, tag)

--------------------------------------------------------------------------
(* The chart, its plot area and its legend *)

AxisTags == {"catAx", "valAx", "dateAx", "serAx"}
PlotTags == {"barChart", "lineChart", "pieChart", "scatterChart", "doughnutChart", "radarChart", "areaChart",
             "bubbleChart", "stockChart", "ofPieChart"}
patchablePlotNodesInOrder(t) == AnyTags(t, PlotTags)
InPlot(t, i, Patch(_)) ==
  LET plots == patchablePlotNodesInOrder(t) IN IF i \in DOMAIN plots THEN Within(t, plots[i], Patch) ELSE Fail

chartSpaceDirectSpPr(t) == Outside(t, "spPr", {"chart"})
\* The plot of an ofPie chart is not among the owners that are looked through.
plotAreaDirectSpPr(p) == Outside(p, "spPr", (PlotTags \ {"ofPieChart"}) \cup AxisTags \cup {"dTable"})
AreaFormat(o, spPr, at, line, fill) ==
  LET made == Node("spPr", <<>>)
      owner == IF spPr = <<>> THEN PutAt(o, at, made) ELSE o
  IN IF owner = Fail THEN Fail
     ELSE Within(owner, IF spPr = <<>> THEN made ELSE spPr, LAMBDA p : FillIn(LineIn(p, line), fill))
ChartAreaFormat(t, line, fill) ==
  AreaFormat(t, chartSpaceDirectSpPr(t), EndOf(t, Head(Starts(t, {"chart"}))) + 1, line, fill)
PlotAreaFormat(t, line, fill) ==
  InFirst(t, "plotArea", LAMBDA p :
    AreaFormat(p, plotAreaDirectSpPr(p), IF Has(p, "extLst") THEN Last(Starts(p, {"extLst"})) ELSE LastClose(p),
               line, fill))

chartManualLayoutXml(v) == Node("layout", Node("manualLayout", Leaf("x", v)))
patchManualLayoutOwner(o, v) ==
  IF Has(o, "layout") THEN Swap(o, First(o, "layout"), chartManualLayoutXml(v))
  ELSE Splice(o, 2, 0, chartManualLayoutXml(v))

patchImportedPlotAreaLayout(t, v) == InFirst(t, "plotArea", LAMBDA p : patchManualLayoutOwner(p, v))
\* Each fails when the chart shows no legend.
patchImportedLegendLayout(t, v) == InFirst(t, "legend", LAMBDA l : patchManualLayoutOwner(l, v))
patchImportedLegendOverlay(t, v) == InFirst(t, "legend", LAMBDA l : SetVal(l, "overlay", v))
patchImportedLegendFormat(t, line, fill) == InFirst(t, "legend", LAMBDA l : patchShapeOwnerFormat(l, line, fill))
patchImportedChartLegend(t, v) ==
  IF v = "" THEN DropFirst(t, "legend")
  ELSE IF Has(t, "legend")
  THEN InFirst(t, "legend", LAMBDA l : IF Has(l, "legendPos") THEN SetVal(l, "legendPos", v)
                                       ELSE Splice(l, 2, 0, Leaf("legendPos", v)))
  ELSE Splice(t, EndOf(t, Head(Starts(t, {"plotArea"}))) + 1, 0,
              Node("legend", Leaf("legendPos", v) \o Leaf("layout", "") \o Leaf("overlay", "0")))

\* <<the flags, line, fill>>, generated whole.
generatedDataTableXml(v) == ShapeIfGiven(Node("dTable", Leaf("showKeys", v[1])), v[2], v[3])
patchImportedChartDataTable(t, v) ==
  IF v = <<>> THEN InFirst(t, "plotArea", LAMBDA p : DropFirst(p, "dTable"))
  ELSE InFirst(t, "plotArea", LAMBDA p :
         InOrNew(p, First(p, "dTable"), <<>>,
           LAMBDA n : IF plotAreaDirectSpPr(p) # <<>> THEN PutAt(p, Find(p, plotAreaDirectSpPr(p)), n)
                      ELSE InsertBefore(p, <<"extLst">>, n),
           LAMBDA n : generatedDataTableXml(v)))

patchImportedChartView3D(t, v) ==
  InFirst(t, "chart", LAMBDA c :
    InOrNew(c, First(c, "view3D"), <<>>,
            LAMBDA n : InsertBefore(c, <<"floor", "sideWall", "backWall", "plotArea">>, n),
            LAMBDA n : Node("view3D", Leaf("rotX", v))))

\* <<thickness, line, fill>>
LaterWalls == [floor |-> <<"sideWall", "backWall", "plotArea">>, sideWall |-> <<"backWall", "plotArea">>,
               backWall |-> <<"plotArea">>]
patchImportedChartWallFormat(t, wall, v) ==
  InFirst(t, "chart", LAMBDA c :
    InOrNew(c, First(c, wall), Node(wall, <<>>), LAMBDA n : InsertBefore(c, LaterWalls[wall], n),
            LAMBDA n : ShapeIfGiven(SetGiven(n, "thickness", v[1]), v[2], v[3])))

--------------------------------------------------------------------------
(* Plots *)

LaterInPlot == [dropLines |-> <<"hiLowLines", "upDownBars", "marker", "smooth", "axId">>,
                hiLowLines |-> <<"upDownBars", "marker", "smooth", "axId">>,
                upDownBars |-> <<"marker", "smooth", "axId">>]
plotAuxiliaryInsertion(p, tag, n) == InsertBefore(p, LaterInPlot[tag], n)

\* v is <<>> for a removal, else <<line>>.
patchImportedChartPlotLineObject(p, tag, v) ==
  IF v = <<>> THEN DropFirst(p, tag)
  ELSE InOrNew(p, First(p, tag), Node(tag, <<>>), LAMBDA n : plotAuxiliaryInsertion(p, tag, n),
               LAMBDA n : ShapeIfGiven(n, v[1], ""))
\* <<gap width, line of the up bars, fill of the down bars>>
UpDownBars(v) ==
  Node("upDownBars", Leaf("gapWidth", v[1]) \o ShapeIfGiven(Node("upBars", <<>>), v[2], "")
                                            \o ShapeIfGiven(Node("downBars", <<>>), "", v[3]))
patchImportedChartPlotUpDownBars(p, v) ==
  IF v = <<>> THEN DropFirst(p, "upDownBars")
  ELSE InOrNew(p, First(p, "upDownBars"), <<>>, LAMBDA n : plotAuxiliaryInsertion(p, "upDownBars", n),
               LAMBDA n : UpDownBars(v))
patchImportedChartPlotSimpleValue(p, tag, v, before) ==
  IF Has(p, tag) THEN SetVal(p, tag, v) ELSE InsertBefore(p, before, Leaf(tag, v))
\* <<gap width, split type, split position, series lines>>
ProjectedPieTags == <<"ofPieType", "gapWidth", "splitType", "splitPos", "custSplit", "secondPieSize", "serLines">>
patchImportedChartProjectedPie(p, v) ==
  IF p[1][2] # "ofPieChart" THEN Fail
  ELSE InsertBefore(FoldLeft(DropFirst, p, ProjectedPieTags), <<"extLst">>,
         Leaf("ofPieType", Value(p, "ofPieType")) \o Leaf("gapWidth", v[1]) \o Leaf("splitType", v[2])
           \o (IF v[3] = "" THEN <<>> ELSE Leaf("splitPos", v[3]))
           \o (IF v[4] = <<>> THEN <<>> ELSE ShapeIfGiven(Node("serLines", <<>>), v[4][1], "")))

--------------------------------------------------------------------------
(* Data labels.  An owner is <<"plot" or "ser", number>>; labels are       *)
(* [flags, pos, sep], a point is [idx, flags, pos, sep].                   *)

LabelFlags == <<"showVal", "showPercent", "showLeaderLines">>
PointFlags == <<"delete">> \o LabelFlags
InSeries(t, i, Patch(_)) == InNth(t, "ser", i, Patch)
AfterLabels == <<"trendline", "errBars", "cat", "xVal", "val", "yVal">>

plotDirectDataLabels(p) == Outside(p, "dLbls", {"ser"})
InLabels(t, owner, Patch(_)) ==
  IF owner[1] = "plot"
  THEN InPlot(t, owner[2], LAMBDA p :
         InOrNew(p, plotDirectDataLabels(p), Node("dLbls", <<>>), LAMBDA n : InsertBefore(p, <<"axId">>, n), Patch))
  ELSE InSeries(t, owner[2], LAMBDA s :
         InOrNew(s, First(s, "dLbls"), Node("dLbls", <<>>), LAMBDA n : InsertBefore(s, AfterLabels, n), Patch))

\* The labels with their points blanked out, every other tag where it was.
dataLabelsAggregateMask(d) ==
  LET points == Starts(d, {"dLbl"})
  IN [i \in DOMAIN d |-> IF \E k \in DOMAIN points : i \in points[k]..EndOf(d, points[k])
                         THEN <<"blank", "", "">> ELSE d[i]]
SetAggregate(d, tag, v) ==
  LET at == Starts(dataLabelsAggregateMask(d), {tag})
  IN IF at = <<>> THEN PutAt(d, LastClose(d), Leaf(tag, v)) ELSE [d EXCEPT ![Head(at)][3] = v]
AggregateGiven(d, tag, v) == IF v = "" THEN d ELSE SetAggregate(d, tag, v)

\* patchFlag: a flag that is off is written only over one that is there.
Bit(on) == IF on THEN "1" ELSE "0"
AggregateFlag(d, f, on) ==
  IF on \/ Starts(dataLabelsAggregateMask(d), {f}) # <<>> THEN SetAggregate(d, f, Bit(on)) ELSE d
DataLabels(d, v) ==
  AggregateGiven(FoldLeft(LAMBDA x, f : AggregateFlag(x, f, f \in v.flags),
                          AggregateGiven(d, "dLblPos", v.pos), LabelFlags),
                 "separator", v.sep)

patchImportedChartPlotDataLabels(t, k, v) == InLabels(t, <<"plot", k>>, LAMBDA d : DataLabels(d, v))
patchImportedChartSeriesDataLabels(t, k, v) == InLabels(t, <<"ser", k>>, LAMBDA d : DataLabels(d, v))

PointOf(d, tag, i) ==
  LET found == SelectSeq(drawingTags(d, tag), LAMBDA n : Value(n, "idx") = i)
  IN IF found = <<>> THEN <<>> ELSE Head(found)
dataLabelPointXml(p) ==
  Node("dLbl", Leaf("idx", p.idx)
                 \o (IF "delete" \in p.flags THEN Leaf("delete", "1") ELSE <<>>)
                 \o (IF p.pos = "" THEN <<>> ELSE Leaf("dLblPos", p.pos))
                 \o FlattenSeq([k \in DOMAIN LabelFlags |-> IF LabelFlags[k] \in p.flags THEN Leaf(LabelFlags[k], "1")
                                                            ELSE <<>>])
                 \o (IF p.sep = "" THEN <<>> ELSE Leaf("separator", p.sep)))
InsertPoint(d, new) ==
  LET tags == {"delete", "dLblPos", "showVal", "showPercent"}
      at == {Find(d, Outside(d, tag, {"dLbl"})) : tag \in tags} \ {0}
  IN PutAt(d, IF at = {} THEN LastClose(d) ELSE Min(at), new)
PointFlag(n, f, on) == IF on \/ Has(n, f) THEN SetVal(n, f, Bit(on)) ELSE n
patchDataLabelPointNode(d, p) ==
  InOrNew(d, PointOf(d, "dLbl", p.idx), <<>>, LAMBDA n : InsertPoint(d, n),
    LAMBDA n : IF n = <<>> THEN dataLabelPointXml(p)
               ELSE SetGiven(SetGiven(FoldLeft(LAMBDA x, f : PointFlag(x, f, f \in p.flags), n, PointFlags),
                                      "dLblPos", p.pos), "separator", p.sep))

patchImportedChartPlotDataLabelPoint(t, k, p) == InLabels(t, <<"plot", k>>, LAMBDA d : patchDataLabelPointNode(d, p))
patchImportedChartSeriesDataLabelPoint(t, k, p) == InLabels(t, <<"ser", k>>, LAMBDA d : patchDataLabelPointNode(d, p))

\* A removal fails when there are no labels, or no such point.
Removed(d, n) == IF n = <<>> THEN Fail ELSE Swap(d, n, <<>>)
RemoveLabelPoint(t, owner, i) ==
  InLabels(t, owner, LAMBDA d : Removed(d, PointOf(d, "dLbl", i)))
patchImportedChartSeriesDataLabelPointRichText(d, i, r) ==
  LET blank == [idx |-> i, flags |-> {}, pos |-> "", sep |-> ""]
      made == IF PointOf(d, "dLbl", i) = <<>> THEN InsertPoint(d, dataLabelPointXml(blank)) ELSE d
  IN Within(made, PointOf(made, "dLbl", i), LAMBDA n : TxRuns(n, r, <<"dLblPos">>))

patchLeaderLinesInDataLabels(d, line) ==
  LET shown == SetAggregate(d, "showLeaderLines", "1")
  IN InOrNew(shown, First(shown, "leaderLines"), Node("leaderLines", <<>>),
             LAMBDA n : InsertBefore(shown, <<"extLst">>, n), LAMBDA n : patchNestedLineFormat(n, line))
NoLeaderLines(d) == AggregateFlag(DropFirst(d, "leaderLines"), "showLeaderLines", FALSE)
HasLabels(t, owner) ==
  IF owner[1] = "plot" THEN plotDirectDataLabels(patchablePlotNodesInOrder(t)[owner[2]]) # <<>>
  ELSE Has(drawingTags(t, "ser")[owner[2]], "dLbls")
patchImportedChartLeaderLines(t, owner, line) ==
  IF line # "" THEN InLabels(t, owner, LAMBDA d : patchLeaderLinesInDataLabels(d, line))
  ELSE IF HasLabels(t, owner) THEN InLabels(t, owner, NoLeaderLines) ELSE t

--------------------------------------------------------------------------
(* Series *)

patchImportedChartSeriesTitle(s, v) ==
  LET tx == Node("tx", Leaf("v", v))
  IN IF v = "" THEN DropFirst(s, "tx")
     ELSE IF Has(s, "tx") THEN Swap(s, First(s, "tx"), tx)
     ELSE Splice(s, Head(Starts(s, IF Has(s, "order") THEN {"order"} ELSE {"idx"})) + 1, 0, tx)

eraseChartCacheBlocks(o) == RemoveAll(RemoveAll(o, "strCache"), "numCache")
patchSeriesReferenceContainer(s, tag, ref) ==
  InFirst(s, tag, LAMBDA c : IF Has(c, "f") THEN eraseChartCacheBlocks(SetVal(c, "f", ref)) ELSE Fail)
EitherContainer(s, tag, alternative, ref) ==
  LET p == patchSeriesReferenceContainer(s, tag, ref)
  IN IF p # Fail THEN p ELSE patchSeriesReferenceContainer(s, alternative, ref)
\* <<categories, values>>
patchImportedChartSeriesReferences(s, v) ==
  EitherContainer(EitherContainer(s, "cat", "xVal", v[1]), "val", "yVal", v[2])

\* <<"numCache" or "strCache", points>>: the kind of a cache has to match its reference.
patchCacheInReferenceOwner(o, v) ==
  LET ref == IF Has(o, "numRef") THEN "numRef" ELSE "strRef"
  IN IF ~Has(o, ref) \/ ((v[1] = "numCache") # (ref = "numRef")) THEN Fail
     ELSE InFirst(o, ref, LAMBDA r :
            LET old == IF Has(r, "numCache") THEN "numCache" ELSE "strCache"
            IN IF Has(r, old) THEN Swap(r, First(r, old), Leaf(v[1], v[2])) ELSE PutAt(r, LastClose(r), Leaf(v[1], v[2])))
\* Mutant: a scatter series is not looked at.
CacheOfCategories(s, tag, alternative, v) == InFirst(s, tag, LAMBDA o : patchCacheInReferenceOwner(o, v))

patchImportedChartSeriesCache(s, tag, alternative, v) ==
  InFirst(s, IF Has(s, tag) THEN tag ELSE alternative, LAMBDA o : patchCacheInReferenceOwner(o, v))

SeriesNested == {"marker", "dPt", "dLbls", "trendline", "errBars"}
seriesDirectSpPr(s) == Outside(s, "spPr", SeriesNested)
patchSeriesLineOrFill(s, line, fill) ==
  InSpPr(s, seriesDirectSpPr(s), <<"marker", "dLbls", "trendline">>, line, fill)

\* <<symbol, line>>: the shape properties of a marker, of a point, are patched when they or a new format are there.
MarkerFormat(m, v) == ShapeIfGiven(SetGiven(m, "symbol", v[1]), v[2], "")
patchSeriesMarkerFormat(s, v) ==
  InOrNew(s, First(s, "marker"), Node("marker", <<>>),
          LAMBDA m : InsertBefore(s, <<"dLbls", "trendline", "errBars">>, m), LAMBDA m : MarkerFormat(m, v))
patchMarkerFormatInOwner(o, v) ==
  InOrNew(o, First(o, "marker"), Node("marker", <<>>), LAMBDA m : PutAt(o, LastClose(o), m),
          LAMBDA m : MarkerFormat(m, v))

\* [idx, line, fill, marker]
DataPoint(n, p) ==
  LET shaped == IF p.line = "" /\ p.fill = "" THEN n
                ELSE InSpPr(n, First(n, "spPr"), <<"marker">>, p.line, p.fill)
  IN IF p.marker = <<>> THEN shaped ELSE patchMarkerFormatInOwner(shaped, p.marker)
patchImportedChartSeriesDataPointFormat(s, p) ==
  InOrNew(s, PointOf(s, "dPt", p.idx), Node("dPt", Leaf("idx", p.idx)),
          LAMBDA n : InsertBeforeAny(s, <<"dLbls">> \o AfterLabels, n), LAMBDA n : DataPoint(n, p))

\* [type, order, line]
patchTrendlineNode(n, tr) ==
  ShapeIfGiven(ScalingChild(SetVal(n, "trendlineType", tr.type), "order", tr.order), tr.line, "")
makeTrendlineXml(tr) ==
  ShapeIfGiven(Node("trendline", Leaf("trendlineType", tr.type) \o IF tr.order = "" THEN <<>> ELSE Leaf("order", tr.order)),
               tr.line, "")
AddTrendline(s, tr) == InsertBefore(s, <<"errBars", "cat", "xVal", "val", "yVal">>, makeTrendlineXml(tr))
patchImportedChartSeriesTrendlineLineFormat(s, k, line) ==
  InNth(s, "trendline", k, LAMBDA n : patchNestedLineFormat(n, line))
RemoveTrendline(s, k) ==
  IF k \in DOMAIN drawingTags(s, "trendline") THEN Swap(s, drawingTags(s, "trendline")[k], <<>>) ELSE Fail

\* [dir, type, val, minus, plus, line]; the bars of a series have one direction each.
BarsOf(s, dir) ==
  LET found == SelectSeq(drawingTags(s, "errBars"),
                         LAMBDA n : (IF Has(n, "errDir") THEN Value(n, "errDir") ELSE "y") = dir)
  IN IF found = <<>> THEN <<>> ELSE Head(found)
patchErrorBarReference(n, tag, ref) ==
  LET new == Node(tag, Node("numRef", Leaf("f", ref)))
  IN IF ~Has(n, tag) THEN InsertBefore(n, <<"spPr">>, new)
     ELSE IF Has(First(n, tag), "numRef") THEN InFirst(n, tag, LAMBDA m : InFirst(m, "numRef", LAMBDA r : SetVal(r, "f", ref)))
     ELSE Swap(n, First(n, tag), new)
patchErrorBarsNode(n, b) ==
  LET typed == SetVal(SetVal(n, "errDir", b.dir), "errValType", b.type)
      valued == IF b.type # "cust" THEN SetVal(RemoveAll(RemoveAll(typed, "plus"), "minus"), "val", b.val)
                ELSE patchErrorBarReference(patchErrorBarReference(RemoveAll(typed, "val"), "minus", b.minus), "plus", b.plus)
  IN ShapeIfGiven(valued, b.line, "")
makeErrorBarsXml(b) ==
  LET reference(tag, f) == Node(tag, Node("numRef", Leaf("f", f)))
      amount == IF b.type # "cust" THEN Leaf("val", b.val) ELSE reference("minus", b.minus) \o reference("plus", b.plus)
  IN ShapeIfGiven(Node("errBars", Leaf("errDir", b.dir) \o Leaf("errValType", b.type) \o amount), b.line, "")
patchImportedChartSeriesErrorBars(s, b) ==
  InOrNew(s, BarsOf(s, b.dir), <<>>, LAMBDA n : InsertBefore(s, <<"cat", "xVal", "val", "yVal">>, n),
          LAMBDA n : IF n = <<>> THEN makeErrorBarsXml(b) ELSE patchErrorBarsNode(n, b))
patchImportedChartSeriesErrorBarsLineFormat(s, dir, line) ==
  Within(s, BarsOf(s, dir), LAMBDA n : patchNestedLineFormat(n, line))
=============================================================================
