--------------------------- MODULE MCChartEditing ---------------------------
(***************************************************************************)
(* ChartEditing on the text of a combined bar and line chart, with and     *)
(* without most of its optional elements, and of the four kinds of plot    *)
(* that have options of their own.                                         *)
(***************************************************************************)
EXTENDS ChartEditing

Ext(v) == Node("extLst", Leaf("ext", v))
StrRef(f, cache) == Node("strRef", Leaf("f", f) \o Leaf("strCache", cache))
NumRef(f, cache) == Node("numRef", Leaf("f", f) \o Leaf("numCache", cache))
Shape(line) == Node("spPr", Leaf("ln", line))
Axis(tag, id, other, body) ==
  Node(tag, Leaf("axId", id) \o Node("scaling", Leaf("orientation", "minMax")) \o body \o Leaf("crossAx", other))
AxIds == Leaf("axId", "1") \o Leaf("axId", "2")
Custom == Node("errBars", Leaf("errDir", "y") \o Leaf("errValType", "cust") \o Node("plus", NumRef("E", "e"))
                            \o Node("minus", NumRef("E", "e")) \o Shape("S0"))

BarSeries ==
  Node("ser", Leaf("idx", "0") \o Leaf("order", "0") \o Node("tx", StrRef("T", "t")) \o Shape("S1")
    \o Node("dPt", Leaf("idx", "7") \o Shape("S2"))
    \o Node("dLbls", Node("dLbl", Leaf("idx", "0") \o Leaf("showVal", "1") \o Leaf("separator", ";"))
                       \o Leaf("dLblPos", "ctr") \o Leaf("showVal", "0"))
    \o Node("trendline", Leaf("trendlineType", "linear")) \o Custom
    \o Node("cat", StrRef("C", "c")) \o Node("val", NumRef("V", "v")) \o Ext("s1"))
LineSeries ==
  Node("ser", Leaf("idx", "1") \o Leaf("order", "1") \o Node("tx", Leaf("v", "s"))
    \o Node("marker", Leaf("symbol", "dot"))
    \o Node("cat", StrRef("C", "c")) \o Node("val", NumRef("W", "w")))

\* Everything an edit may find, inside what no edit is about.
Combined ==
  Node("chartSpace", Leaf("style", "2") \o Node("chart",
    Node("title", chartRichTextTxXml(<<"A">>) \o Leaf("overlay", "0") \o Ext("t"))
      \o Node("plotArea", Node("layout", Node("manualLayout", Leaf("x", "1")))
           \o Node("barChart", BarSeries \o Node("dLbls", Leaf("showVal", "1")) \o Leaf("gapWidth", "150") \o AxIds)
           \o Node("lineChart", LineSeries \o Node("dropLines", Shape("S3")) \o AxIds \o Ext("p"))
           \o Axis("catAx", "1", "2", Node("title", chartRichTextTxXml(<<"X">>)) \o Leaf("numFmt", "0")
                \o Leaf("majorTickMark", "out") \o Leaf("tickLblPos", "low"))
           \o Node("valAx", Leaf("axId", "2") \o Node("scaling", Leaf("orientation", "minMax") \o Leaf("max", "9"))
                \o Node("majorGridlines", Shape("S4")) \o Leaf("majorTickMark", "out") \o Shape("S5")
                \o Leaf("crossAx", "1") \o Leaf("crosses", "autoZero") \o Leaf("crossBetween", "between")
                \o Leaf("majorUnit", "5") \o Ext("a"))
           \o Shape("S6"))
      \o Node("legend", Leaf("legendPos", "r") \o Leaf("overlay", "0") \o Ext("l")))
    \o Shape("S7") \o Ext("c"))

Bare ==
  LET s == Node("ser", Leaf("idx", "0") \o Leaf("order", "0") \o Node("xVal", NumRef("C", "c")) \o Node("yVal", NumRef("V", "v")))
  IN Node("chartSpace", Node("chart", Node("plotArea",
       Node("lineChart", s \o AxIds) \o Axis("catAx", "1", "2", Leaf("majorTickMark", "out"))
         \o Axis("valAx", "2", "1", Leaf("majorTickMark", "out"))))
       \o Ext("c"))

Special(tag, options) ==
  Node("chartSpace", Node("chart", Node("plotArea",
    Node(tag, Node("ser", Leaf("idx", "0") \o Leaf("order", "0") \o Node("val", NumRef("V", "v"))) \o options))))
Specials == {Special("pieChart", <<>>), Special("doughnutChart", Leaf("firstSliceAng", "0") \o Leaf("holeSize", "50")),
             Special("radarChart", <<>>),
             Special("ofPieChart", Leaf("ofPieType", "pie") \o Leaf("gapWidth", "100") \o Node("serLines", <<>>))}

\* Every call has lines and fills of its own: no text it writes occurs elsewhere.
LineCalls == {"legendLine", "axisLine", "majorGridlines", "minorGridlines", "areaLine", "plotLine", "dropLines",
              "hiLowLines", "plot", "ser", "line", "trendlineLine", "errorBarsLine"}
FillCalls == {"legendFill", "areaFill", "plotFill", "fill"}
Arguments ==
  [title |-> {"", "B"}, rich |-> {<<"R">>, <<"R", "S">>}, style |-> {"3"}, legendPos |-> {"l"}, layout |-> {"5"},
   line |-> [op \in LineCalls |-> {op}], fill |-> [op \in FillCalls |-> {op}], numFmt |-> {"%"}, ticks |-> {<<"in", "in", "high">>},
   units |-> {<<"2", "1">>}, scaling |-> {<<"10", "minMax", "", "">>, <<"", "maxMin", "8", "1">>},
   crossing |-> {<<"max", "midCat">>}, crossesAt |-> {"4"},
   dispUnits |-> {<<"thousands", <<"R">>>>, <<"millions", <<>>>>}, view3D |-> {"30"},
   wall |-> {<<"1", "LW", "FW">>, <<"", "LW", "">>}, dataTable |-> {<<"1", "LT", "">>},
   upDownBars |-> {<<"100", "LB", "FB">>}, plotValue |-> {"60"},
   projectedPie |-> {<<"80", "pos", "3", <<"L2">>>>, <<"90", "auto", "", <<>>>>},
   labels |-> [plot |-> {[flags |-> {"showPercent"}, pos |-> "", sep |-> ""]},
               ser |-> {[flags |-> {"showVal"}, pos |-> "inEnd", sep |-> ","]}],
   labelPoint |-> [plot |-> {[idx |-> "9", flags |-> {"delete"}, pos |-> "", sep |-> ""]},
                   ser |-> {[idx |-> "0", flags |-> {"delete"}, pos |-> "", sep |-> ""],
                            [idx |-> "1", flags |-> {"showVal"}, pos |-> "ctr", sep |-> ","]}],
   pointIndex |-> {"0", "1"}, references |-> {<<"C2", "V2">>}, cache |-> {<<"numCache", "n">>, <<"strCache", "s">>},
   marker |-> {<<"x", "LM">>}, dataPoint |-> {[idx |-> "7", line |-> "LP", fill |-> "FP", marker |-> <<>>],
                                              [idx |-> "8", line |-> "LQ", fill |-> "", marker |-> <<"y", "LN">>]},
   trendline |-> {[type |-> "linear", order |-> "", line |-> "LR"], [type |-> "poly", order |-> "3", line |-> ""]},
   errorBars |-> {[dir |-> "y", type |-> "cust", val |-> "", minus |-> "M", plus |-> "P", line |-> ""],
                  [dir |-> "x", type |-> "cust", val |-> "", minus |-> "M", plus |-> "P", line |-> "LE"],
                  [dir |-> "y", type |-> "fixedVal", val |-> "1", minus |-> "", plus |-> "", line |-> ""]}]

\* Passes that change the same elements, or elements one of another's searches may find.
RelatedPasses ==
  {{"title", "titleRich", "style", "axisTitle", "axisRich"},
   {"axisFormat"},
   {"layout", "legend", "overlay", "legendLine", "legendFill", "title"},
   {"area", "layout", "dataTable", "wall", "view3D", "seriesFormat"},
   {"auxiliary", "typeSpecific"},
   {"leader", "plotLabels", "seriesLabels", "labelPoint", "pointRich"},
   {"seriesTitle", "references", "cache", "errorBars", "errorBarsFormat"},
   {"dataPoint", "seriesFormat", "trendline", "trendlineFormat"}}
AllCases ==
  ({Combined} \X RelatedPasses) \cup {<<Bare, ToSet(Passes)>>}
    \cup (Specials \X {{"auxiliary", "typeSpecific", "area"}})
ErrorBarsOnly == {Combined} \X {{"errorBars", "references"}}
TitlesOnly == {Combined} \X {{"seriesTitle", "cache"}}
=============================================================================
