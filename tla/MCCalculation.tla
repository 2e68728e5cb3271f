--------------------------- MODULE MCCalculation ---------------------------
(* Three cells on two worksheets; 3 is a second spelling of the name of    *)
(* worksheet 1 and 4 the name of none.  MCFormulas has chains, shared      *)
(* precedents, cycles of one to three cells, one cell under two spellings, *)
(* a cell that does not exist and a worksheet that does not; MCUnqualified *)
(* adds references that name no worksheet.                                 *)
EXTENDS Calculation

MCGrid  == <<2, 1>>
MCNames == <<1, 2, 1>>

On(s, c) == [sheet |-> s, cell |-> c]
F(shape, refs) == [shape |-> shape, refs |-> refs]

MCFormulas == {F("plus", <<On(1, 2)>>), F("plus", <<On(2, 1), On(1, 1)>>),
               F("sum", <<On(1, 1), On(3, 1)>>), F("sum", <<On(3, 2), On(2, 1)>>),
               F("plus", <<On(4, 1)>>), F("iferror", <<On(2, 1), On(1, 2)>>),
               F("sum", <<On(2, 2)>>)}

MCUnqualified == {F("plus", <<On(Here, 2)>>), F("plus", <<On(1, 1)>>),
                  F("sum", <<On(2, 1), On(1, 2)>>)}

MCStored == {Number(2), Error("#N/A")}
===========================================================================
