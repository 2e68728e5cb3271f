---------------------------- MODULE ChartEditing ----------------------------
(***************************************************************************)
(* Edits of a chart that was loaded (Worksheet::setChart..., Worksheet.cpp *)
(* 742 to 1653).  Every call changes the member of the Chart and logs an   *)
(* edit in the ImportedChartEdit of its chart.  Save patches the text the  *)
(* chart was loaded from with every logged edit, vector after vector in    *)
(* the order of its passes, which is not the order of the calls            *)
(* (patchImportedAndAppendedCharts, WorkbookChartEditing.cpp).             *)
(***************************************************************************)
EXTENDS ChartReading

CONSTANTS
  Cases,     \* pairs of a text a chart part may hold when the workbook is loaded, and the passes to make calls of
  Given,     \* the arguments of the calls, a record of finite sets
  MaxCalls   \* how many edits are logged at most

VARIABLES
  source,    \* the text that was loaded, which the workbook preserves
  group,     \* the passes this behaviour makes calls of
  chart,     \* the Chart: Read(source) as the calls changed it
  log,       \* the vectors of ImportedChartEdit, a sequence of edits for each pass
  file,      \* the chart part of the last save, <<>> when calls followed it or it failed
  outcome,   \* "edited", "saved" or "failed"
  exact      \* every call so far is one whose value the text can hold, made in the order of the passes

vars == <<source, group, chart, log, file, outcome, exact>>

\* The vectors in the order a save goes through them.
Passes ==
  <<"title", "style", "titleRich", "axisTitle", "axisRich", "axisFormat", "area", "layout", "dataTable", "view3D",
    "wall", "auxiliary", "typeSpecific", "leader", "legend", "overlay", "legendLine", "legendFill", "seriesTitle",
    "references", "cache", "plotLabels", "seriesLabels", "labelPoint", "pointRich", "dataPoint", "seriesFormat",
    "trendline", "errorBars", "trendlineFormat", "errorBarsFormat">>
\* One entry per owner: a call overwrites the entry of an earlier one.
Keyed == {"title", "style", "titleRich", "axisTitle", "axisRich", "legend", "overlay", "legendLine", "legendFill",
          "seriesTitle", "references", "plotLabels", "seriesLabels"}
\* Passes whose edits of one owner change the same elements.
Shared == {{"title", "titleRich"}, {"axisTitle", "axisRich"},
           {"layout", "legend", "overlay", "legendLine", "legendFill"}, {"seriesTitle", "references", "cache"},
           {"leader", "plotLabels", "seriesLabels", "labelPoint", "pointRich"},
           {"trendline", "trendlineFormat"}, {"errorBars", "errorBarsFormat"}}

PassOf(p) == CHOOSE i \in DOMAIN Passes : Passes[i] = p
Logged == FlattenSeq([i \in DOMAIN Passes |-> log[Passes[i]]])

\* No edit that a later pass makes of the same elements is logged already.
InOrder(pass, owner) ==
  \A s \in Shared : pass \in s =>
    \A p \in s : PassOf(p) > PassOf(pass) => \A i \in DOMAIN log[p] : log[p][i].owner # owner

AddTo(entries, e) ==
  LET old == SelectSeq(Indices(entries), LAMBDA i : entries[i].owner = e.owner)
  IN IF e.pass \in Keyed /\ old # <<>> THEN [entries EXCEPT ![Head(old)] = e] ELSE Append(entries, e)

\* Log an edit, change members of the chart; the text can hold the value when `holds`.
Call(pass, op, owner, v, changed, holds) ==
  /\ pass \in group
  /\ Len(Logged) < MaxCalls
  /\ log' = [log EXCEPT ![pass] = AddTo(@, [pass |-> pass, op |-> op, owner |-> owner, v |-> v])]
  /\ chart' = changed
  /\ exact' = (exact /\ holds /\ InOrder(pass, owner))
  /\ file' = <<>>
  /\ outcome' = "edited"
  /\ UNCHANGED <<source, group>>

Set(m, owner, v) == [chart EXCEPT ![<<m, owner>>] = v]
Axes == AxisOwners(source)
Plots == PlotOwners(source)
Series == SeriesOwners(source)
plainText(r) == FoldLeft(LAMBDA x, y : x \o y, "", r)
\* A blank text is not written over one that is there.
Written(v, old) == \A i \in DOMAIN v : v[i] # "" \/ old[i] = ""
--------------------------------------------------------------------------
(* Titles, style and legend *)

setChartTitle ==
  \E v \in Given.title :
    Call("title", "title", TheChart, v, Set("title", TheChart, v), Len(chart[<<"titleRich", TheChart>>]) < 2)
setChartStyle == \E v \in Given.style : Call("style", "style", TheChart, v, Set("style", TheChart, v), TRUE)
setChartTitleRichText ==
  \E r \in Given.rich :
    Call("titleRich", "titleRich", TheChart, r,
         [chart EXCEPT ![<<"titleRich", TheChart>>] = r, ![<<"title", TheChart>>] = plainText(r)], Len(r) = 1)

\* setChartXAxisTitle and setChartYAxisTitle come here with the id of their axis.
setChartAxisTitle ==
  \E a \in Axes, v \in Given.title :
    Call("axisTitle", "axisTitle", a, v, Set("title", a, v), Len(chart[<<"titleRich", a>>]) < 2)
setChartAxisTitleRichText ==
  \E a \in Axes, r \in Given.rich :
    Call("axisRich", "axisRich", a, r,
         [chart EXCEPT ![<<"titleRich", a>>] = r, ![<<"title", a>>] = plainText(r)], Len(r) = 1)

\* A legend that is hidden keeps its position in the Chart.
setChartLegend ==
  \E v \in Given.legendPos \cup {""} :
    Call("legend", "legend", TheChart, v,
         [chart EXCEPT ![<<"legend", TheChart>>] = v # "", ![<<"legendPos", TheChart>>] = IF v = "" THEN @ ELSE v],
         v = "" \/ Has(source, "legend"))
\* Nothing asks whether there is a legend; with none in the text its pass fails.
LegendShown == Has(source, "legend") /\ chart[<<"legend", TheChart>>]
setChartLegendLayout ==
  \E v \in Given.layout :
    Call("layout", "legendLayout", TheChart, v, Set("legendLayout", TheChart, v), LegendShown)
setChartLegendOverlay ==
  \E on \in BOOLEAN : Call("overlay", "overlay", TheChart, Bit(on), Set("overlay", TheChart, on), LegendShown)
setChartLegendLineFormat ==
  \E v \in Given.line["legendLine"] :
    Call("legendLine", "legendLine", TheChart, v, Set("legendLine", TheChart, v), LegendShown)
setChartLegendFillFormat ==
  \E v \in Given.fill["legendFill"] :
    Call("legendFill", "legendFill", TheChart, v, Set("legendFill", TheChart, v), LegendShown)

--------------------------------------------------------------------------
(* Axes *)

AxisCall(op, a, v, changed, holds) == Call("axisFormat", op, a, v, changed, holds)
setChartAxisNumberFormat ==
  \E a \in Axes, v \in Given.numFmt : AxisCall("numFmt", a, v, Set("numFmt", a, v), TRUE)
setChartAxisTicks ==
  \E a \in Axes, v \in Given.ticks :
    AxisCall("ticks", a, v, Set("ticks", a, v), Written(v, chart[<<"ticks", a>>]))
setChartAxisUnits ==
  \E a \in Axes, v \in Given.units :
    AxisCall("units", a, v, Set("units", a, v), Written(v, chart[<<"units", a>>]))
setChartAxisScaling ==
  \E a \in Axes, v \in Given.scaling : AxisCall("scaling", a, v, Set("scaling", a, v), TRUE)
setChartAxisCrossing ==
  \E a \in Axes, v \in Given.crossing :
    AxisCall("crossing", a, v,
             [chart EXCEPT ![<<"crosses", a>>] = v[1], ![<<"between", a>>] = v[2], ![<<"crossesAt", a>>] = ""],
             v[1] # "" /\ Written(v, <<"", chart[<<"between", a>>]>>))
setChartAxisCrossesAt ==
  \E a \in Axes, v \in Given.crossesAt :
    AxisCall("crossesAt", a, v, [chart EXCEPT ![<<"crossesAt", a>>] = v, ![<<"crosses", a>>] = ""], TRUE)
clearChartAxisCrossesAt ==
  \E a \in Axes : AxisCall("noCrossesAt", a, "", Set("crossesAt", a, ""), TRUE)
\* Only an axis of values has display units.
setChartAxisDisplayUnits ==
  \E a \in Axes, v \in Given.dispUnits :
    /\ AxisNode(source, a[2])[1][2] = "valAx"
    /\ AxisCall("dispUnits", a, v, Set("dispUnits", a, v), TRUE)
clearChartAxisDisplayUnits ==
  \E a \in Axes : AxisCall("noDispUnits", a, <<>>, Set("dispUnits", a, <<>>), TRUE)
setChartAxisLineFormat ==
  \E a \in Axes, v \in Given.line["axisLine"] : AxisCall("axisLine", a, v, Set("line", a, v), TRUE)
setChartAxisGridlineFormat ==
  \E a \in Axes, g \in {"majorGridlines", "minorGridlines"} : \E v \in Given.line[g] :
    AxisCall(g, a, v, Set(g, a, <<v>>), TRUE)
removeChartAxisGridlines ==
  \E a \in Axes, g \in {"majorGridlines", "minorGridlines"} : AxisCall(g, a, "", Set(g, a, <<>>), TRUE)

--------------------------------------------------------------------------
(* Areas, layout, data table, 3-D view and walls *)

\* The shapes inside a projected pie are taken for those of the plot area.
ProjectedPie == plots(source)[1][1][2] = "ofPieChart"
setChartAreaFormat ==
  \E area \in {"area", "plot"} :
    LET holds == area = "plot" => ~ProjectedPie
    IN \/ \E v \in Given.line[area \o "Line"] :
            Call("area", area \o "Line", TheChart, v, Set(area \o "Line", TheChart, v), holds)
       \/ \E v \in Given.fill[area \o "Fill"] :
            Call("area", area \o "Fill", TheChart, v, Set(area \o "Fill", TheChart, v), holds)
setChartPlotAreaLayout ==
  \E v \in Given.layout : Call("layout", "plotLayout", TheChart, v, Set("plotLayout", TheChart, v), TRUE)
setChartView3D == \E v \in Given.view3D : Call("view3D", "view3D", TheChart, v, Set("view3D", TheChart, v), TRUE)
\* A line, a fill or a thickness that is not given stays in the text.
setChartWallFormat ==
  \E w \in {"floor", "sideWall", "backWall"}, v \in Given.wall :
    LET old == chart[<<w, TheChart>>]
    IN Call("wall", w, TheChart, v, Set(w, TheChart, v), old = <<>> \/ Written(v, old))
setOrRemoveChartDataTable ==
  \E v \in Given.dataTable \cup {<<>>} :
    Call("dataTable", "dataTable", TheChart, v, Set("dataTable", TheChart, v), TRUE)

--------------------------------------------------------------------------
(* Plots *)

\* A new element goes before the first marker found in the plot, which may be that of a series.
Markers(p) == Has(plots(source)[p[2]], "marker")
\* setChartPlotDropLines, setChartPlotHighLowLines and their removals.
ChartPlotLines ==
  \E p \in Plots, m \in {"dropLines", "hiLowLines"} : \E v \in {<<l>> : l \in Given.line[m] \cup {""}} \cup {<<>>} :
    LET old == chart[<<m, p>>]
    IN Call("auxiliary", m, p, v, Set(m, p, v), v = <<>> \/ (old = <<>> /\ ~Markers(p)) \/ (old # <<>> /\ Written(v, old)))
\* Their gap width is read from, and written to, the first one in the plot.
ChartPlotUpDownBars ==
  \E p \in Plots, v \in Given.upDownBars \cup {<<>>} :
    Call("auxiliary", "upDownBars", p, v, Set("upDownBars", p, v),
         v = <<>> \/ (~Markers(p) /\ ~Has(plots(source)[p[2]], "gapWidth")))

\* Which kinds of plot each option is for; v is checked against its range.
ChartPlotTypeSpecific ==
  \E p \in Plots, v \in Given.plotValue, m \in {"firstSliceAng", "holeSize", "radarStyle"} :
    /\ plots(source)[p[2]][1][2] \in (CASE m = "firstSliceAng" -> {"pieChart", "doughnutChart"}
                                        [] m = "holeSize" -> {"doughnutChart"}
                                        [] m = "radarStyle" -> {"radarChart"})
    /\ Call("typeSpecific", m, p, v, Set(m, p, v), TRUE)
setChartPlotProjectedPieOptions ==
  \E p \in Plots, v \in Given.projectedPie :
    /\ plots(source)[p[2]][1][2] = "ofPieChart"
    /\ Call("typeSpecific", "projectedPie", p, v, Set("projectedPie", p, v), TRUE)

--------------------------------------------------------------------------
(* Data labels of a plot or a series *)

Labels(o) == chart[<<"labels", o>>]
SetLabels(o, v) == Set("labels", o, v)
PointAt(points, i) == SelectSeq(Indices(points), LAMBDA k : points[k].idx = i)
PutPoint(points, p) ==
  LET at == PointAt(points, p.idx) IN IF at = <<>> THEN Append(points, p) ELSE [points EXCEPT ![Head(at)] = p]
Plain(p) == [idx |-> p.idx, flags |-> p.flags, pos |-> p.pos, sep |-> p.sep]

setChartLeaderLineFormat ==
  \E o \in Plots \cup Series : \E v \in Given.line[o[1]] :
    Call("leader", "leader", o, v,
         SetLabels(o, [Labels(o) EXCEPT !.present = TRUE, !.flags = @ \cup {"showLeaderLines"}, !.leader = <<v>>]), TRUE)
removeChartLeaderLines ==
  \E o \in Plots \cup Series :
    Call("leader", "leader", o, "",
         SetLabels(o, [Labels(o) EXCEPT !.flags = @ \ {"showLeaderLines"}, !.leader = <<>>]), TRUE)
\* The labels are replaced with their points and leader lines; the text keeps both.
setChartDataLabels ==
  \E o \in Plots \cup Series : \E v \in Given.labels[o[1]] :
    Call(IF o[1] = "plot" THEN "plotLabels" ELSE "seriesLabels", "labels", o, v,
         SetLabels(o, [present |-> TRUE, flags |-> v.flags, pos |-> v.pos, sep |-> v.sep, leader |-> <<>>, points |-> <<>>]),
         /\ Labels(o).points = <<>> /\ Labels(o).leader = <<>>
         /\ Written(<<v.pos, v.sep>>, <<Labels(o).pos, Labels(o).sep>>))
setChartDataLabelPoint ==
  \E o \in Plots \cup Series : \E v \in Given.labelPoint[o[1]] :
    LET at == PointAt(Labels(o).points, v.idx)
        old == IF at = <<>> THEN v ELSE Plain(Labels(o).points[Head(at)])
    IN Call("labelPoint", "point", o, v,
            SetLabels(o, [Labels(o) EXCEPT !.present = TRUE, !.points = PutPoint(@, v @@ [rich |-> <<>>])]),
            /\ Written(<<v.pos, v.sep>>, <<old.pos, old.sep>>)
            /\ at # <<>> => Labels(o).points[Head(at)].rich = <<>>)
removeChartDataLabelPoint ==
  \E o \in Plots \cup Series : \E i \in {Labels(o).points[k].idx : k \in DOMAIN Labels(o).points} :
    Call("labelPoint", "noPoint", o, i,
         SetLabels(o, [Labels(o) EXCEPT !.points = RemoveAt(@, Head(PointAt(@, i)))]), TRUE)
setChartSeriesDataLabelPointRichText ==
  \E o \in Series, i \in Given.pointIndex, r \in Given.rich :
    LET at == PointAt(Labels(o).points, i)
        new == IF at = <<>> THEN [idx |-> i, flags |-> {}, pos |-> "", sep |-> "", rich |-> r]
               ELSE [Labels(o).points[Head(at)] EXCEPT !.rich = r]
    IN Call("pointRich", "pointRich", o, <<i, r>>,
            SetLabels(o, [Labels(o) EXCEPT !.present = TRUE, !.points = PutPoint(@, new)]), TRUE)

--------------------------------------------------------------------------
(* Series *)

HasCategories(s) == Has(series(source)[s[2]], "cat") \/ Has(series(source)[s[2]], "xVal")
\* The reference of the title stays in the Chart.
setChartSeriesTitle ==
  \E s \in Series, v \in Given.title :
    Call("seriesTitle", "seriesTitle", s, v, Set("title", s, v), chart[<<"titleRef", s>>] = "")
setChartSeriesReferences ==
  \E s \in Series, v \in Given.references :
    Call("references", "references", s, v,
         [chart EXCEPT ![<<"cat", s>>] = v[1], ![<<"val", s>>] = v[2], ![<<"catCache", s>>] = <<>>, ![<<"valCache", s>>] = <<>>],
         HasCategories(s))
\* The reference a new cache is put under has a kind of its own, which nothing compares.
KindOf(o) == IF Has(o, "numRef") THEN "numCache" ELSE "strCache"
setChartSeriesCache ==
  \E s \in Series, v \in Given.cache :
    \/ Call("cache", "catCache", s, v, Set("catCache", s, v), 
            HasCategories(s) /\ v[1] = KindOf(Either(series(source)[s[2]], "cat", "xVal")))
    \/ /\ v[1] = "numCache"
       /\ Call("cache", "valCache", s, v, Set("valCache", s, v), TRUE)
    \/ /\ v[1] = "strCache" /\ chart[<<"titleRef", s>>] # ""
       /\ Call("cache", "titleCache", s, v, Set("titleCache", s, v), TRUE)
clearChartSeriesCaches ==
  \E s \in Series :
    Call("cache", "noCaches", s, <<>>,
         [chart EXCEPT ![<<"titleCache", s>>] = <<>>, ![<<"catCache", s>>] = <<>>, ![<<"valCache", s>>] = <<>>], TRUE)

setChartSeriesFormat ==
  \E s \in Series :
    \/ \E v \in Given.line["line"] : Call("seriesFormat", "line", s, v, Set("line", s, v), TRUE)
    \/ \E v \in Given.fill["fill"] : Call("seriesFormat", "fill", s, v, Set("fill", s, v), TRUE)
    \/ \E v \in Given.marker :
         Call("seriesFormat", "marker", s, v, Set("marker", s, v),
              chart[<<"marker", s>>] = <<>> \/ Written(v, chart[<<"marker", s>>]))
\* The first marker of a series that has none is that of a point.
setChartSeriesDataPointFormat ==
  \E s \in Series, v \in Given.dataPoint :
    LET points == chart[<<"points", s>>]
        at == PointAt(points, v.idx)
        old == IF at = <<>> THEN v ELSE points[Head(at)]
    IN Call("dataPoint", "dataPoint", s, v, Set("points", s, PutPoint(points, v)),
            /\ v.marker = <<>> \/ Outside(series(source)[s[2]], "marker", {"dPt"}) # <<>>
            /\ Written(<<v.line, v.fill>>, <<old.line, old.fill>>)
            /\ old.marker = <<>> \/ (v.marker # <<>> /\ Written(v.marker, old.marker)))
removeChartSeriesDataPointFormat ==
  \E s \in Series : \E k \in DOMAIN chart[<<"points", s>>] :
    LET points == chart[<<"points", s>>]
    IN Call("dataPoint", "noDataPoint", s, points[k].idx, Set("points", s, RemoveAt(points, k)), TRUE)

Trendlines(s) == chart[<<"trendlines", s>>]
setChartSeriesTrendlineLineFormat ==
  \E s \in Series : \E k \in DOMAIN Trendlines(s), v \in Given.line["trendlineLine"] :
    Call("trendlineFormat", "trendlineLine", s, <<k, v>>, Set("trendlines", s, [Trendlines(s) EXCEPT ![k].line = v]), TRUE)
\* Of two equal trend lines the first is edited whichever was meant.
setChartSeriesTrendline ==
  \E s \in Series : \E k \in DOMAIN Trendlines(s), v \in Given.trendline :
    Call("trendline", "setTrendline", s, <<k, v>>, Set("trendlines", s, [Trendlines(s) EXCEPT ![k] = v]),
         /\ Written(<<v.line>>, <<Trendlines(s)[k].line>>)
         /\ \A j \in 1..(k - 1) : Trendlines(s)[j] # Trendlines(s)[k])
addChartSeriesTrendline ==
  \E s \in Series, v \in Given.trendline :
    Call("trendline", "addTrendline", s, v, Set("trendlines", s, Append(Trendlines(s), v)), TRUE)
removeChartSeriesTrendline ==
  \E s \in Series : \E k \in DOMAIN Trendlines(s) :
    Call("trendline", "noTrendline", s, k, Set("trendlines", s, RemoveAt(Trendlines(s), k)), TRUE)

Bars(s) == chart[<<"errBars", s>>]
BarsAt(s, dir) == SelectSeq(Indices(Bars(s)), LAMBDA k : Bars(s)[k].dir = dir)
\* Bars with a value of their own put a c:val before that of the series.
setChartSeriesErrorBars ==
  \E s \in Series, v \in Given.errorBars :
    LET at == BarsAt(s, v.dir)
    IN Call("errorBars", "errorBars", s, v,
            Set("errBars", s, IF at = <<>> THEN Append(Bars(s), v) ELSE [Bars(s) EXCEPT ![Head(at)] = v]),
            v.type = "cust" /\ (at = <<>> \/ Written(<<v.line>>, <<Bars(s)[Head(at)].line>>)))
removeChartSeriesErrorBars ==
  \E s \in Series : \E k \in DOMAIN Bars(s) :
    Call("errorBars", "noErrorBars", s, Bars(s)[k].dir, Set("errBars", s, RemoveAt(Bars(s), k)), TRUE)
setChartSeriesErrorBarsLineFormat ==
  \E s \in Series : \E k \in DOMAIN Bars(s), v \in Given.line["errorBarsLine"] :
    Call("errorBarsFormat", "errorBarsLine", s, <<Bars(s)[k].dir, v>>, Set("errBars", s, [Bars(s) EXCEPT ![k].line = v]), TRUE)

--------------------------------------------------------------------------
(* Saving *)

\* The edits of an axis, found by its id.
AxisPatch(a, e) ==
  CASE e.op = "axisTitle" -> patchAxisTitleNode(a, e.v)
    [] e.op = "axisRich" -> patchImportedAxisTitleRichTextById(a, e.v)
    [] e.op = "numFmt" -> patchImportedAxisNumberFormat(a, e.v)
    [] e.op = "ticks" -> patchImportedAxisTicks(a, e.v)
    [] e.op = "units" -> patchImportedAxisUnits(a, e.v)
    [] e.op = "scaling" -> patchImportedAxisScaling(a, e.v)
    [] e.op = "crossing" -> patchImportedAxisCrossing(a, e.v)
    [] e.op = "crossesAt" -> patchImportedAxisCrossesAt(a, e.v)
    [] e.op = "noCrossesAt" -> ClearCrossesAt(a)
    [] e.op = "dispUnits" -> patchImportedAxisDisplayUnits(a, e.v)
    [] e.op = "noDispUnits" -> RemoveAll(a, "dispUnits")
    [] e.op = "axisLine" -> patchImportedAxisLineFormat(a, e.v)
    [] OTHER -> IF e.v = "" THEN removeImportedAxisGridlines(a, e.op) ELSE patchImportedAxisGridlineFormat(a, e.op, e.v)

PlotPatch(p, e) ==
  CASE e.op \in {"dropLines", "hiLowLines"} -> patchImportedChartPlotLineObject(p, e.op, e.v)
    [] e.op = "upDownBars" -> patchImportedChartPlotUpDownBars(p, e.v)
    [] e.op = "radarStyle" -> patchImportedChartPlotSimpleValue(p, e.op, e.v, <<"ser">>)
    [] e.op = "projectedPie" -> patchImportedChartProjectedPie(p, e.v)
    [] OTHER -> patchImportedChartPlotSimpleValue(p, e.op, e.v, <<"extLst">>)

SeriesPatch(s, e) ==
  CASE e.op = "seriesTitle" -> patchImportedChartSeriesTitle(s, e.v)
    [] e.op = "references" -> patchImportedChartSeriesReferences(s, e.v)
    [] e.op = "catCache" -> patchImportedChartSeriesCache(s, "cat", "xVal", e.v)
    [] e.op = "valCache" -> patchImportedChartSeriesCache(s, "val", "yVal", e.v)
    [] e.op = "titleCache" -> patchImportedChartSeriesCache(s, "tx", "tx", e.v)
    [] e.op = "noCaches" -> eraseChartCacheBlocks(s)
    [] e.op = "line" -> patchSeriesLineOrFill(s, e.v, "")
    [] e.op = "fill" -> patchSeriesLineOrFill(s, "", e.v)
    [] e.op = "marker" -> patchSeriesMarkerFormat(s, e.v)
    [] e.op = "dataPoint" -> patchImportedChartSeriesDataPointFormat(s, e.v)
    [] e.op = "noDataPoint" -> Removed(s, PointOf(s, "dPt", e.v))
    [] e.op = "addTrendline" -> AddTrendline(s, e.v)
    [] e.op = "setTrendline" -> InNth(s, "trendline", e.v[1], LAMBDA n : patchTrendlineNode(n, e.v[2]))
    [] e.op = "noTrendline" -> RemoveTrendline(s, e.v)
    [] e.op = "trendlineLine" -> patchImportedChartSeriesTrendlineLineFormat(s, e.v[1], e.v[2])
    [] e.op = "errorBars" -> patchImportedChartSeriesErrorBars(s, e.v)
    [] e.op = "noErrorBars" -> Removed(s, BarsOf(s, e.v))
    [] e.op = "errorBarsLine" -> patchImportedChartSeriesErrorBarsLineFormat(s, e.v[1], e.v[2])

ChartPatch(t, e) ==
  CASE e.op = "title" -> patchImportedChartTitle(t, e.v)
    [] e.op = "style" -> patchImportedChartStyle(t, e.v)
    [] e.op = "titleRich" -> patchImportedChartTitleRichText(t, e.v)
    [] e.op = "areaLine" -> ChartAreaFormat(t, e.v, "")
    [] e.op = "areaFill" -> ChartAreaFormat(t, "", e.v)
    [] e.op = "plotLine" -> PlotAreaFormat(t, e.v, "")
    [] e.op = "plotFill" -> PlotAreaFormat(t, "", e.v)
    [] e.op = "plotLayout" -> patchImportedPlotAreaLayout(t, e.v)
    [] e.op = "legendLayout" -> patchImportedLegendLayout(t, e.v)
    [] e.op = "dataTable" -> patchImportedChartDataTable(t, e.v)
    [] e.op = "view3D" -> patchImportedChartView3D(t, e.v)
    [] e.op \in {"floor", "sideWall", "backWall"} -> patchImportedChartWallFormat(t, e.op, e.v)
    [] e.op = "legend" -> patchImportedChartLegend(t, e.v)
    [] e.op = "overlay" -> patchImportedLegendOverlay(t, e.v)
    [] e.op = "legendLine" -> patchImportedLegendFormat(t, e.v, "")
    [] e.op = "legendFill" -> patchImportedLegendFormat(t, "", e.v)

LabelsPatch(t, e) ==
  CASE e.op = "leader" -> patchImportedChartLeaderLines(t, e.owner, e.v)
    [] e.op = "labels" -> IF e.owner[1] = "plot" THEN patchImportedChartPlotDataLabels(t, e.owner[2], e.v)
                          ELSE patchImportedChartSeriesDataLabels(t, e.owner[2], e.v)
    [] e.op = "point" -> IF e.owner[1] = "plot" THEN patchImportedChartPlotDataLabelPoint(t, e.owner[2], e.v)
                         ELSE patchImportedChartSeriesDataLabelPoint(t, e.owner[2], e.v)
    [] e.op = "noPoint" -> RemoveLabelPoint(t, e.owner, e.v)
    [] e.op = "pointRich" ->
         InLabels(t, e.owner, LAMBDA d : patchImportedChartSeriesDataLabelPointRichText(d, e.v[1], e.v[2]))

LabelPasses == {"leader", "plotLabels", "seriesLabels", "labelPoint", "pointRich"}
Patch(t, e) ==
  IF t = Fail THEN Fail
  ELSE IF e.pass \in LabelPasses THEN LabelsPatch(t, e)
  ELSE CASE e.owner[1] = "chart" -> ChartPatch(t, e)
         [] e.owner[1] = "axis" -> patchAxisNodeById(t, e.owner[2], LAMBDA a : AxisPatch(a, e))
         [] e.owner[1] = "plot" -> InPlot(t, e.owner[2], LAMBDA p : PlotPatch(p, e))
         [] e.owner[1] = "ser" -> InSeries(t, e.owner[2], LAMBDA s : SeriesPatch(s, e))

\* Every edit is applied to the text that was loaded, at each save; one that fails fails the save.
Save ==
  /\ outcome = "edited" /\ Logged # <<>>
  /\ file' = FoldLeft(Patch, source, Logged)
  /\ outcome' = IF file' = Fail THEN "failed" ELSE "saved"
  /\ UNCHANGED <<source, group, chart, log, exact>>

Init ==
  /\ \E c \in Cases : source = c[1] /\ group = c[2]
  /\ chart = Read(source)
  /\ log = [p \in ToSet(Passes) |-> <<>>]
  /\ file = <<>> /\ outcome = "edited" /\ exact = TRUE

TextCalls == setChartTitle \/ setChartStyle \/ setChartTitleRichText \/ setChartAxisTitle \/ setChartAxisTitleRichText
LegendCalls == setChartLegend \/ setChartLegendLayout \/ setChartLegendOverlay \/ setChartLegendLineFormat
                 \/ setChartLegendFillFormat
AxisCalls == setChartAxisNumberFormat \/ setChartAxisTicks \/ setChartAxisUnits \/ setChartAxisScaling
               \/ setChartAxisCrossing \/ setChartAxisCrossesAt \/ clearChartAxisCrossesAt \/ setChartAxisDisplayUnits
               \/ clearChartAxisDisplayUnits \/ setChartAxisLineFormat \/ setChartAxisGridlineFormat
               \/ removeChartAxisGridlines
AreaCalls == setChartAreaFormat \/ setChartPlotAreaLayout \/ setChartView3D \/ setChartWallFormat
               \/ setOrRemoveChartDataTable
PlotCalls == ChartPlotLines \/ ChartPlotUpDownBars \/ ChartPlotTypeSpecific \/ setChartPlotProjectedPieOptions
LabelCalls == setChartLeaderLineFormat \/ removeChartLeaderLines \/ setChartDataLabels \/ setChartDataLabelPoint
                \/ removeChartDataLabelPoint \/ setChartSeriesDataLabelPointRichText
SeriesCalls == setChartSeriesTitle \/ setChartSeriesReferences \/ setChartSeriesCache \/ clearChartSeriesCaches
                 \/ setChartSeriesFormat \/ setChartSeriesDataPointFormat \/ removeChartSeriesDataPointFormat
                 \/ setChartSeriesTrendlineLineFormat \/ setChartSeriesTrendline \/ addChartSeriesTrendline
                 \/ removeChartSeriesTrendline \/ setChartSeriesErrorBars \/ removeChartSeriesErrorBars
                 \/ setChartSeriesErrorBarsLineFormat
Next == TextCalls \/ LegendCalls \/ AxisCalls \/ AreaCalls \/ PlotCalls \/ LabelCalls \/ SeriesCalls \/ Save
Spec == Init /\ [][Next]_vars

--------------------------------------------------------------------------
(* Properties *)

\* The members a saved part is to show again.  Rich text is compared where a call set it (a plain title keeps
\* the old runs in the Chart), the details of a legend where there is one, the title of a series where it is not that of a cache.
RichOwners == {Logged[i].owner : i \in {j \in DOMAIN Logged : Logged[j].op \in {"titleRich", "axisRich"}}}
LegendDetails == {"legendPos", "overlay", "legendLine", "legendFill", "legendLayout"}
Compared ==
  {k \in DOMAIN chart : /\ k[1] = "titleRich" => k[2] \in RichOwners
                        /\ k[1] = "title" /\ k[2][1] = "ser" => chart[<<"titleRef", k[2]>>] = ""
                        /\ k[1] \in {"plotLine", "plotFill"} => ~ProjectedPie
                        /\ k[1] \in LegendDetails => chart[<<"legend", TheChart>>]}
Shown == LET again == Read(file) IN \A k \in Compared : again[k] = chart[k]

\* Loading the saved part gives the chart the calls made: no pass undoes, captures or misplaces what another
\* one wrote, for calls in the order of the passes whose values the text can hold; and such calls are never
\* refused by the save, which a call that returned true has promised.
SavedShowsCalls == exact => outcome # "failed" /\ (outcome = "saved" => Shown)

\* An element that no edit is about, with the tags of the elements around it; `ends` tells where they are closed.
OpaqueIn(t, ends) ==
  LET kept == Starts(t, {"ext"})
      path(holders) == SelectSeq(Indices(t), LAMBDA j : j \in holders)
      tags(in) == [d \in DOMAIN in |-> t[in[d]][2]]
  IN [k \in DOMAIN kept |-> <<tags(path(Holders(ends, kept[k]))), t[kept[k]][3]>>]
Opaque(t) == OpaqueIn(t, Ends(t))
\* What the model of XL++ does not know is saved where it was, in the same elements and in the same order,
\* unless it was part of a title or a legend that a call removed.
Gone == {n \in {"title", "legend"} : \E i \in DOMAIN log[n] : log[n][i].v = ""}
UntouchedKept ==
  outcome = "saved" => Opaque(file) = SelectSeq(Opaque(source), LAMBDA x : ToSet(x[1]) \cap Gone = {})

\* Elements of which an element may hold more than one.
Repeated == PlotTags \cup AxisTags \cup {"ser", "axId", "dPt", "dLbl", "trendline", "errBars", "t"}
\* `ends` tells where each element of t is closed.
WellFormed(t, ends) ==
  LET once == Starts(t, {t[i][2] : i \in DOMAIN t} \ Repeated)
      places == {<<Holders(ends, once[k]), t[once[k]][2]>> : k \in DOMAIN once}
  IN /\ Nests(t, ends)
     /\ Cardinality(places) = Len(once)
     /\ \A a \in places : a[2] = "crosses" => <<a[1], "crossesAt">> \notin places
\* A saved part is well formed: elements nest, no element holds a second one of a kind it may have once, and an
\* axis does not say both where it crosses and at which value
\* (src/API_REFERENCE.md:748).
SavedWellFormed == outcome = "saved" /\ exact => WellFormed(file, Ends(file))
=============================================================================
