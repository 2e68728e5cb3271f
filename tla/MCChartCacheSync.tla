-------------------------- MODULE MCChartCacheSync --------------------------
(* Three cells: chains of two formulas, shared precedents and cycles; a    *)
(* series may refer to one cell, to two, or to a reference no parser takes.*)
EXTENDS ChartCacheSync

MCCells    == 1 .. 3
MCFormulas == {{2}, {3}, {1, 3}}
MCLoaded   == [MCCells -> MCFormulas \cup {{}}]
MCSeries   == {[categories |-> {1, 2}, values |-> {1}],
               [categories |-> Unsupported, values |-> {2, 3}]}

(* Cell 1 refers to 2 and 3, 2 to 3, 3 to 4 and 4 to 5: the search reaches *)
(* 3 through 2 first.                                                      *)
MCFive     == 1 .. 5
MCLadder   == {<<{2, 3}, {3}, {4}, {5}, {}>>}
MCOneCell  == {[categories |-> Unsupported, values |-> {1}]}
=============================================================================
