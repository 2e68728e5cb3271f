--------------------------- MODULE MCWorkbookTabs ---------------------------
(* WorkbookTabs for TLC. *)
EXTENDS WorkbookTabs, TLC

CONSTANT MaxKeyed  \* bound: names, slicers, print settings and mixed spellings

PrintSettings ==
  {<<i, field>> \in (DOMAIN sheets) \X {"area", "titles"} : sheets[i][field] # None}
NamesOfTabs == {sheets[i].name : i \in DOMAIN sheets} \cup {chartsheets[i] : i \in DOMAIN chartsheets}
Mixed == IF \E m, n \in NamesOfTabs : m.spelling # n.spelling THEN 1 ELSE 0
Tabless == {k \in DOMAIN chartsheets : TabOf("chartsheet", k) \notin DOMAIN order}
Keyed == Cardinality(definedNames) + Len(slicers) + Cardinality(PrintSettings) + Mixed
           + Cardinality(Tabless)

\* Keyed things that two tabs are enough for: what another spelling, a slicer or
\* a title range says concerns one worksheet.
Aside == \/ Mixed = 1
         \/ slicers # <<>>
         \/ \E i \in DOMAIN sheets : sheets[i].titles # None

\* Bound of MCTabsEditing: at most MaxKeyed keyed things (names of two spellings
\* and chartsheets without a tab count as such), those of Aside with no more than
\* two tabs, and scoped names only while the tabs are in order; where they are
\* not, scopes go astray.
KeyedInOrder ==
  /\ Keyed' <= MaxKeyed
  /\ ScopedInOrder'
  /\ Aside' => Len(order') <= 2

\* The words and spellings are interchangeable: nothing orders them.
Symmetry == Permutations(Words) \cup Permutations(Spellings)
=============================================================================
