---------------------------- MODULE ChartReading ----------------------------
(***************************************************************************)
(* What XL++ reads back from the text of a chart part                      *)
(* (Workbook/WorkbookChartReader.cpp, the chart loop of loadImpl): the     *)
(* members of Chart, as a function of <<member, owner>>, where the owner   *)
(* is <<"axis", id>>, <<"plot", i>>, <<"ser", i>> or TheChart.              *)
(* "" and <<>> are what a member holds when the element is missing.        *)
(***************************************************************************)
EXTENDS ChartPatches

LineOf(o) == Value(First(o, "spPr"), "ln")
FillOf(o) == Value(First(o, "spPr"), "solidFill")

\* chartTitleText: a text, else a cached value, else a reference; RichOf: the runs of a rich text.
TitleOf(n) == IF Value(n, "t") # "" THEN Value(n, "t")
              ELSE IF Value(n, "v") # "" THEN Value(n, "v") ELSE Value(n, "f")
RichOf(o) ==
  LET runs == drawingTags(First(o, "rich"), "t") IN [i \in DOMAIN runs |-> runs[i][1][3]]

\* The marker of whichever owner comes first: a series takes that of a point when it has none.
parseChartMarkerFormat(o) ==
  IF Has(o, "marker") THEN <<Value(First(o, "marker"), "symbol"), LineOf(First(o, "marker"))>> ELSE <<>>
parseChartDataPoints(s) ==
  LET n == drawingTags(s, "dPt")
  IN [i \in DOMAIN n |-> [idx |-> Value(n[i], "idx"), line |-> LineOf(n[i]), fill |-> FillOf(n[i]),
                          marker |-> parseChartMarkerFormat(n[i])]]

Flags(o, names) == {f \in names : Value(o, f) = "1"}
parseChartDataLabelPoint(n) ==
  [idx |-> Value(n, "idx"), flags |-> Flags(n, ToSet(PointFlags)), pos |-> Value(n, "dLblPos"),
   sep |-> Value(n, "separator"), rich |-> RichOf(n)]
\* <<>> where an object is missing, else its line.
parsePlotLineObject(o, tag) == IF Has(o, tag) THEN <<LineOf(First(o, tag))>> ELSE <<>>
parseChartDataLabels(d) ==
  LET points == drawingTags(d, "dLbl")
      aggregate == FoldLeft(LAMBDA x, n : Swap(x, n, <<>>), d, points)
  IN [present |-> d # <<>>, flags |-> Flags(aggregate, ToSet(LabelFlags)), pos |-> Value(aggregate, "dLblPos"),
      sep |-> Value(aggregate, "separator"), leader |-> parsePlotLineObject(aggregate, "leaderLines"),
      points |-> [i \in DOMAIN points |-> parseChartDataLabelPoint(points[i])]]

parseChartTrendlines(s) ==
  LET n == drawingTags(s, "trendline")
  IN [i \in DOMAIN n |-> [type |-> Value(n[i], "trendlineType"), order |-> Value(n[i], "order"), line |-> LineOf(n[i])]]
parseChartErrorBars(s) ==
  LET n == drawingTags(s, "errBars")
  IN [i \in DOMAIN n |-> [dir |-> IF Value(n[i], "errDir") = "x" THEN "x" ELSE "y", type |-> Value(n[i], "errValType"),
                          val |-> Value(n[i], "val"), minus |-> Value(First(n[i], "minus"), "f"),
                          plus |-> Value(First(n[i], "plus"), "f"), line |-> LineOf(n[i])]]
parseChartDataTable(p) ==
  IF Has(p, "dTable") THEN <<Value(First(p, "dTable"), "showKeys"), LineOf(First(p, "dTable")), FillOf(First(p, "dTable"))>>
  ELSE <<>>
parseChartUpDownBars(p) ==
  LET n == First(p, "upDownBars")
  IN IF n = <<>> THEN <<>>
     ELSE <<Value(n, "gapWidth"), LineOf(First(n, "upBars")), FillOf(First(n, "downBars"))>>
parseProjectedPie(p) ==
  IF p[1][2] # "ofPieChart" THEN <<>>
  ELSE <<Value(p, "gapWidth"), Value(p, "splitType"), Value(p, "splitPos"), parsePlotLineObject(p, "serLines")>>
parseChartManualLayout(o) == Value(First(o, "layout"), "x")
parseChartWallFormat(t, wall) ==
  IF Has(t, wall) THEN <<Value(First(t, wall), "thickness"), LineOf(First(t, wall)), FillOf(First(t, wall))>> ELSE <<>>
parseChartSeriesCache(o) ==
  IF Has(o, "numCache") THEN <<"numCache", Value(o, "numCache")>>
  ELSE IF Has(o, "strCache") THEN <<"strCache", Value(o, "strCache")>> ELSE <<>>

--------------------------------------------------------------------------
(* The members of an axis, a plot, a series and the chart *)

AxisMembers == {"title", "titleRich", "numFmt", "ticks", "units", "scaling", "crosses", "between", "crossesAt",
                "dispUnits", "line", "majorGridlines", "minorGridlines"}
AxisMember(a, m) ==
  CASE m = "title" -> TitleOf(First(a, "title"))
    [] m = "titleRich" -> RichOf(First(a, "title"))
    [] m = "numFmt" -> Value(a, "numFmt")
    [] m = "ticks" -> <<Value(a, "majorTickMark"), Value(a, "minorTickMark"), Value(a, "tickLblPos")>>
    [] m = "units" -> <<Value(a, "majorUnit"), Value(a, "minorUnit")>>
    [] m = "scaling" -> <<Value(First(a, "scaling"), "logBase"),
                          IF Value(First(a, "scaling"), "orientation") = "maxMin" THEN "maxMin" ELSE "minMax",
                          Value(First(a, "scaling"), "max"), Value(First(a, "scaling"), "min")>>
    [] m = "crosses" -> Value(a, "crosses")
    [] m = "between" -> Value(a, "crossBetween")
    [] m = "crossesAt" -> Value(a, "crossesAt")
    [] m = "dispUnits" -> LET n == First(a, "dispUnits") IN IF n = <<>> THEN <<>> ELSE <<Value(n, "builtInUnit"), RichOf(n)>>
    [] m = "line" -> Value(axisDirectSpPr(a), "ln")
    [] OTHER -> parsePlotLineObject(a, m)

PlotMembers == {"dropLines", "hiLowLines", "upDownBars", "firstSliceAng", "holeSize", "radarStyle", "projectedPie", "labels"}
PlotMember(p, m) ==
  CASE m \in {"dropLines", "hiLowLines"} -> parsePlotLineObject(p, m)
    [] m = "upDownBars" -> parseChartUpDownBars(p)
    [] m = "projectedPie" -> parseProjectedPie(p)
    [] m = "labels" -> parseChartDataLabels(plotDirectDataLabels(p))
    [] OTHER -> Value(p, m)

SeriesMembers == {"title", "titleRef", "titleCache", "cat", "val", "catCache", "valCache", "labels", "line", "fill",
                  "marker", "points", "trendlines", "errBars"}
Either(s, tag, alternative) == IF Has(s, tag) THEN First(s, tag) ELSE First(s, alternative)
SeriesTitle(tx) ==
  IF Value(tx, "v") # "" THEN Value(tx, "v")
  ELSE IF parseChartSeriesCache(tx) # <<>> THEN parseChartSeriesCache(tx)[2] ELSE Value(tx, "f")
SeriesMember(s, m) ==
  CASE m = "title" -> SeriesTitle(First(s, "tx"))
    [] m = "titleRef" -> Value(First(s, "tx"), "f")
    [] m = "titleCache" -> parseChartSeriesCache(First(s, "tx"))
    [] m = "cat" -> Value(Either(s, "cat", "xVal"), "f")
    [] m = "val" -> Value(Either(s, "val", "yVal"), "f")
    [] m = "catCache" -> parseChartSeriesCache(Either(s, "cat", "xVal"))
    [] m = "valCache" -> parseChartSeriesCache(Either(s, "val", "yVal"))
    [] m = "labels" -> parseChartDataLabels(First(s, "dLbls"))
    [] m = "line" -> Value(seriesDirectSpPr(s), "ln")
    [] m = "fill" -> Value(seriesDirectSpPr(s), "solidFill")
    [] m = "marker" -> parseChartMarkerFormat(s)
    [] m = "points" -> parseChartDataPoints(s)
    [] m = "trendlines" -> parseChartTrendlines(s)
    [] OTHER -> parseChartErrorBars(s)

ChartMembers == {"title", "titleRich", "style", "legend", "legendPos", "overlay", "legendLine", "legendFill",
                 "legendLayout", "areaLine", "areaFill", "plotLine", "plotFill", "plotLayout", "dataTable", "view3D",
                 "floor", "sideWall", "backWall"}
ChartMember(t, m) ==
  LET legend == First(t, "legend") plotArea == First(t, "plotArea") IN
  CASE m = "title" -> TitleOf(ChartTitle(t))
    [] m = "titleRich" -> RichOf(First(t, "title"))
    [] m = "style" -> Value(t, "style")
    [] m = "legend" -> legend # <<>>
    [] m = "legendPos" -> Value(legend, "legendPos")
    [] m = "overlay" -> Value(legend, "overlay") = "1"
    [] m = "legendLine" -> LineOf(legend)
    [] m = "legendFill" -> FillOf(legend)
    [] m = "legendLayout" -> parseChartManualLayout(legend)
    [] m = "areaLine" -> Value(chartSpaceDirectSpPr(t), "ln")
    [] m = "areaFill" -> Value(chartSpaceDirectSpPr(t), "solidFill")
    [] m = "plotLine" -> Value(plotAreaDirectSpPr(plotArea), "ln")
    [] m = "plotFill" -> Value(plotAreaDirectSpPr(plotArea), "solidFill")
    [] m = "plotLayout" -> parseChartManualLayout(plotArea)
    [] m = "dataTable" -> parseChartDataTable(plotArea)
    [] m = "view3D" -> Value(First(t, "view3D"), "rotX")
    [] OTHER -> parseChartWallFormat(t, m)

axes(t) == AnyTags(t, AxisTags)
AxisIds(t) == {Value(axes(t)[i], "axId") : i \in DOMAIN axes(t)}
AxisNode(t, id) == SelectSeq(axes(t), LAMBDA a : Value(a, "axId") = id)[1]
plots(t) == patchablePlotNodesInOrder(t)
series(t) == drawingTags(t, "ser")
AxisOwners(t) == {"axis"} \X AxisIds(t)
PlotOwners(t) == {"plot"} \X DOMAIN plots(t)
SeriesOwners(t) == {"ser"} \X DOMAIN series(t)
TheChart == <<"chart", 0>>
Member(t, m, o) ==
  CASE o[1] = "chart" -> ChartMember(t, m)
    [] o[1] = "axis" -> AxisMember(AxisNode(t, o[2]), m)
    [] o[1] = "plot" -> PlotMember(plots(t)[o[2]], m)
    [] o[1] = "ser" -> SeriesMember(series(t)[o[2]], m)
Members(t) == (ChartMembers \X {TheChart}) \cup (AxisMembers \X AxisOwners(t))
                \cup (PlotMembers \X PlotOwners(t)) \cup (SeriesMembers \X SeriesOwners(t))
Read(t) == [k \in Members(t) |-> Member(t, k[1], k[2])]
=============================================================================
