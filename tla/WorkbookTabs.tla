---------------------------- MODULE WorkbookTabs ----------------------------
(***************************************************************************)
(* The sheet model of xlpp::Workbook: the worksheets (sheets_), the        *)
(* chartsheets (chartsheets_), the mixed tab order (sheetOrder_), the      *)
(* active and the first visible tab, and what is keyed by a sheet's name   *)
(* or index: scoped defined names, slicers, print settings and the parts   *)
(* of the source package.  One action per public operation; save() and the *)
(* load() of what it wrote are one action, Reload.                         *)
(*                                                                         *)
(* An index here is the code's index plus one: 1..Len(order) where the     *)
(* code has 0..sheetOrder_.size()-1, so that Len(order) + 1 stands for     *)
(* sheetOrder_.size(), the code's "no such tab".                           *)
(*                                                                         *)
(* The operators marked "Seeded fault" are wrong on purpose: put in place  *)
(* of the definition after them, each breaks a property below.             *)
(***************************************************************************)
EXTENDS Naturals, Sequences, FiniteSets

CONSTANTS
  Words,          \* the sheet names up to upper and lower case
  Spellings,      \* the ways to write one word in upper and lower case
  HiddenStates,   \* the invisible visibilities: Hidden, VeryHidden
  DefNames,       \* identifiers of defined names
  Ranges,         \* print areas and print titles
  Ids,            \* identities of worksheets (a ghost: no code state)
  None,           \* no range, no owner
  MaxTabs,        \* bound on the tabs of the workbook
  MaxChartsheets, \* bound on its chartsheets
  MaxNames,       \* bound on its defined names
  MaxSlicers      \* bound on its slicers

ASSUME BoundsAssumption ==
  /\ MaxTabs \in Nat /\ MaxChartsheets \in Nat
  /\ MaxNames \in Nat /\ MaxSlicers \in Nat
ASSUME VisibleAssumption == "visible" \notin HiddenStates
ASSUME NoneAssumption == None \notin Ids /\ None \notin Ranges

VARIABLES
  sheets,        \* sheets_: [name, id, area, titles] in worksheet order
  chartsheets,   \* chartsheets_: the names, in chartsheet order
  order,         \* sheetOrder_: [kind, kindIndex, visibility] in tab order
  active,        \* activeWorkbookSheetIndex_
  firstVisible,  \* firstVisibleWorkbookSheetIndex_
  definedNames,  \* definedNames_: [name, scope, owner]; scope 0: no localSheetId
  slicers,       \* slicers_: the worksheetName of each
  source         \* sourceSheetNames_ and sourceSheetParts_: [name, part]

tabs == <<sheets, chartsheets, order, active, firstVisible>>
vars == <<sheets, chartsheets, order, active, firstVisible,
          definedNames, slicers, source>>

SheetNames   == [word : Words, spelling : Spellings]
Visibilities == {"visible"} \cup HiddenStates
Kinds        == {"worksheet", "chartsheet"}

\* internal::worksheetNamesEquivalent: names are equal up to case.
Equivalent(a, b) == a.word = b.word

-----------------------------------------------------------------------------
(* Lookups *)

\* The first of some indices, as a set of at most one element: std::find_if.
FirstOf(S) == {i \in S : \A j \in S : i <= j}

\* Seeded fault: only the worksheets' names are looked at.
NameTakenByWorksheet(n) == \E i \in DOMAIN sheets : Equivalent(sheets[i].name, n)

NameTaken(n) == \/ \E i \in DOMAIN sheets : Equivalent(sheets[i].name, n)
                \/ \E i \in DOMAIN chartsheets : Equivalent(chartsheets[i], n)

\* Workbook::worksheet(name) and chartsheet(name) return the first match: an
\* operation named by a sheet's own name reaches it iff no earlier one has it.
ReachableSheet(i) ==
  \A j \in 1..(i - 1) : ~Equivalent(sheets[j].name, sheets[i].name)
ReachableChartsheet(i) ==
  \A j \in 1..(i - 1) : ~Equivalent(chartsheets[j], chartsheets[i])

VisibleTabs(o) == {p \in DOMAIN o : o[p].visibility = "visible"}

\* Workbook::firstVisibleWorkbookSheetIndex(), as a set of one index.
FirstVisible(o) ==
  IF VisibleTabs(o) = {} THEN {Len(o) + 1} ELSE FirstOf(VisibleTabs(o))

TabName(p) == IF order[p].kind = "worksheet"
              THEN sheets[order[p].kindIndex].name
              ELSE chartsheets[order[p].kindIndex]

\* A sheet's tab.  Only a chartsheet can be without one, after a lenient load:
\* then Len(order) + 1.
TabOf(kind, k) ==
  LET at == {p \in DOMAIN order : order[p].kind = kind /\ order[p].kindIndex = k}
  IN  IF at = {} THEN Len(order) + 1 ELSE CHOOSE p \in at : TRUE

UsedIds == {sheets[i].id : i \in DOMAIN sheets}
             \cup {d.owner : d \in definedNames}
             \cup {source[i].part : i \in DOMAIN source}
FreshId == CHOOSE id \in Ids : id \notin UsedIds

-----------------------------------------------------------------------------
(* Adding, renaming *)

ListTab(kind, k) ==
  order' = Append(order, [kind |-> kind, kindIndex |-> k,
                          visibility |-> "visible"])

\* Workbook::addWorksheet
AddWorksheet(n) ==
  /\ Len(order) < MaxTabs
  /\ Ids \ UsedIds # {}
  /\ ~NameTaken(n)
  /\ sheets' = Append(sheets, [name |-> n, id |-> FreshId,
                               area |-> None, titles |-> None])
  /\ ListTab("worksheet", Len(sheets) + 1)
  /\ UNCHANGED <<chartsheets, active, firstVisible, definedNames, slicers,
                 source>>

\* Workbook::copyWorksheet: the copy takes the print settings along.
CopyWorksheet(i, n) ==
  /\ Len(order) < MaxTabs
  /\ Ids \ UsedIds # {}
  /\ ~NameTaken(n)
  /\ sheets' = Append(sheets, [sheets[i] EXCEPT !.name = n, !.id = FreshId])
  /\ ListTab("worksheet", Len(sheets) + 1)
  /\ UNCHANGED <<chartsheets, active, firstVisible, definedNames, slicers,
                 source>>

\* Workbook::addChartsheet
AddChartsheet(n) ==
  /\ Len(order) < MaxTabs
  /\ Len(chartsheets) < MaxChartsheets
  /\ ~NameTaken(n)
  /\ chartsheets' = Append(chartsheets, n)
  /\ ListTab("chartsheet", Len(chartsheets) + 1)
  /\ UNCHANGED <<sheets, active, firstVisible, definedNames, slicers, source>>

\* Seeded fault: the names of the source parts stay.
RenameSheetOnly(i, n) ==
  /\ ReachableSheet(i)
  /\ sheets[i].name # n
  /\ \A j \in DOMAIN sheets \ {i} : ~Equivalent(sheets[j].name, n)
  /\ \A j \in DOMAIN chartsheets : ~Equivalent(chartsheets[j], n)
  /\ sheets' = [sheets EXCEPT ![i].name = n]
  /\ UNCHANGED <<chartsheets, order, active, firstVisible, definedNames,
                 slicers, source>>

\* Workbook::renameWorksheet: a change of case only is a rename too, and the
\* names of the source parts follow.
RenameWorksheet(i, n) ==
  /\ ReachableSheet(i)
  /\ sheets[i].name # n
  /\ \A j \in DOMAIN sheets \ {i} : ~Equivalent(sheets[j].name, n)
  /\ \A j \in DOMAIN chartsheets : ~Equivalent(chartsheets[j], n)
  /\ source' = [j \in DOMAIN source |->
                  IF Equivalent(source[j].name, sheets[i].name)
                  THEN [source[j] EXCEPT !.name = n] ELSE source[j]]
  /\ sheets' = [sheets EXCEPT ![i].name = n]
  /\ UNCHANGED <<chartsheets, order, active, firstVisible, definedNames,
                 slicers>>

\* Workbook::renameChartsheet
RenameChartsheet(i, n) ==
  /\ ReachableChartsheet(i)
  /\ chartsheets[i] # n
  /\ \A j \in DOMAIN sheets : ~Equivalent(sheets[j].name, n)
  /\ \A j \in DOMAIN chartsheets \ {i} : ~Equivalent(chartsheets[j], n)
  /\ chartsheets' = [chartsheets EXCEPT ![i] = n]
  /\ UNCHANGED <<sheets, order, active, firstVisible, definedNames, slicers,
                 source>>

-----------------------------------------------------------------------------
(* Removal *)

Without(s, i) == [j \in 1..(Len(s) - 1) |-> IF j < i THEN s[j] ELSE s[j + 1]]

\* Seeded fault: the indices of the other kind shift too.
OrderShiftedForAll(t, kind, k) ==
  LET rest == IF t \in DOMAIN order THEN Without(order, t) ELSE order
  IN  [p \in DOMAIN rest |->
         IF rest[p].kindIndex > k
         THEN [rest[p] EXCEPT !.kindIndex = @ - 1] ELSE rest[p]]

\* The tab order without tab t, the kind indices after k shifted down.
OrderWithout(t, kind, k) ==
  LET rest == IF t \in DOMAIN order THEN Without(order, t) ELSE order
  IN  [p \in DOMAIN rest |->
         IF rest[p].kind = kind /\ rest[p].kindIndex > k
         THEN [rest[p] EXCEPT !.kindIndex = @ - 1] ELSE rest[p]]

\* Seeded faults: an index that is not shifted, one that may be left on a
\* hidden tab.
ActiveUnshifted(t, rest) ==
  IF active \in DOMAIN rest /\ rest[active].visibility = "visible"
  THEN {active} ELSE FirstVisible(rest)
ActiveUnrepaired(t, rest) ==
  {IF active > t THEN active - 1
   ELSE IF active = t /\ t > Len(rest) THEN Len(rest) ELSE active}

\* The active tab after the removal of tab t.  When no tab is left visible
\* the code reads sheetOrder_[activeWorkbookSheetIndex_] past the end in a
\* later removal: either branch may follow.
ActiveAfter(t, rest) ==
  LET moved == IF active > t THEN active - 1
               ELSE IF active = t /\ t > Len(rest) THEN Len(rest) ELSE active
  IN  IF moved \notin DOMAIN rest THEN {moved} \cup FirstVisible(rest)
      ELSE IF rest[moved].visibility = "visible" THEN {moved}
      ELSE FirstVisible(rest)

ForgetTab(t, kind, k) ==
  /\ order' = OrderWithout(t, kind, k)
  /\ IF OrderWithout(t, kind, k) = <<>> THEN UNCHANGED <<active, firstVisible>>
     ELSE /\ active' \in ActiveAfter(t, OrderWithout(t, kind, k))
          /\ firstVisible' \in FirstVisible(OrderWithout(t, kind, k))

\* Seeded fault: the later scopes are not shifted.
ScopesUnshifted(t) == {d \in definedNames : d.scope # t}

\* The scopes as removeWorksheet and removeChartsheet repair them: both treat
\* localSheetId as an index of the mixed tab order.
ScopesWithout(t) ==
  {[d EXCEPT !.scope = IF @ > t THEN @ - 1 ELSE @] :
     d \in {e \in definedNames : e.scope # t}}

\* retireRemovedSourceSheet: the first source sheet of exactly that name goes.
RetireSource(n) ==
  LET at == {j \in DOMAIN source : source[j].name = n}
  IN  IF at = {} THEN UNCHANGED source
      ELSE \E j \in FirstOf(at) : source' = Without(source, j)

\* Workbook::removeWorksheet
RemoveWorksheet(i) ==
  /\ ReachableSheet(i)
  /\ Len(order) # 1
  /\ definedNames' = ScopesWithout(TabOf("worksheet", i))
  /\ RetireSource(sheets[i].name)
  /\ ForgetTab(TabOf("worksheet", i), "worksheet", i)
  /\ sheets' = Without(sheets, i)
  /\ UNCHANGED <<chartsheets, slicers>>

\* Workbook::removeChartsheet
RemoveChartsheet(i) ==
  /\ ReachableChartsheet(i)
  /\ Len(order) # 1
  /\ definedNames' = ScopesWithout(TabOf("chartsheet", i))
  /\ ForgetTab(TabOf("chartsheet", i), "chartsheet", i)
  /\ chartsheets' = Without(chartsheets, i)
  /\ UNCHANGED <<sheets, slicers, source>>

-----------------------------------------------------------------------------
(* Visibility, activation, order *)

\* Seeded fault: the first visible tab is not computed anew.
SetVisibilityOnly(p, v) ==
  /\ order[p].visibility # v
  /\ \/ v = "visible"
     \/ order[p].visibility # "visible"
     \/ VisibleTabs(order) # {p}
  /\ order' = [order EXCEPT ![p].visibility = v]
  /\ active' \in IF p = active /\ v # "visible"
                 THEN FirstVisible(order') ELSE {active}
  /\ UNCHANGED <<sheets, chartsheets, firstVisible, definedNames, slicers,
                 source>>

\* Workbook::setWorkbookSheetVisibility
SetVisibility(p, v) ==
  /\ order[p].visibility # v
  /\ \/ v = "visible"
     \/ order[p].visibility # "visible"
     \/ VisibleTabs(order) # {p}
  /\ order' = [order EXCEPT ![p].visibility = v]
  /\ active' \in IF p = active /\ v # "visible"
                 THEN FirstVisible(order') ELSE {active}
  /\ firstVisible' \in FirstVisible(order')
  /\ UNCHANGED <<sheets, chartsheets, definedNames, slicers, source>>

\* Workbook::setActiveWorkbookSheetIndex and setActiveWorkbookSheet
SetActive(p) ==
  /\ order[p].visibility = "visible"
  /\ active' = p
  /\ firstVisible' \in FirstVisible(order)
  /\ UNCHANGED <<sheets, chartsheets, order, definedNames, slicers, source>>

\* Erase at `from`, insert at `to`: where the tab at place p came from.
CameFrom(from, to, p) ==
  IF p = to THEN from
  ELSE IF from < to /\ from <= p /\ p < to THEN p + 1
  ELSE IF to < from /\ to < p /\ p <= from THEN p - 1
  ELSE p

\* Workbook::moveWorkbookSheet
MoveSheet(from, to) ==
  /\ from # to
  /\ order' = [p \in DOMAIN order |-> order[CameFrom(from, to, p)]]
  /\ active' = IF active = from THEN to
               ELSE IF from < active /\ active <= to THEN active - 1
               ELSE IF to <= active /\ active < from THEN active + 1
               ELSE active
  /\ firstVisible' \in FirstVisible(order')
  /\ UNCHANGED <<sheets, chartsheets, definedNames, slicers, source>>

-----------------------------------------------------------------------------
(* What hangs on a sheet *)

\* Workbook::addDefinedName: the scope is bounded by the worksheets, so it is
\* an index of sheets_; owner remembers the sheet it denotes.
AddDefinedName(n, scope) ==
  /\ Cardinality(definedNames) < MaxNames
  /\ ~\E d \in definedNames : d.scope = scope /\ d.name = n
  /\ definedNames' = definedNames \cup
       {[name |-> n, scope |-> scope,
         owner |-> IF scope = 0 THEN None ELSE sheets[scope].id]}
  /\ UNCHANGED <<tabs, slicers, source>>

\* Workbook::addSlicer keeps the caller's spelling of the sheet's name.
AddSlicer(n) ==
  /\ Len(slicers) < MaxSlicers
  /\ \E i \in DOMAIN sheets : Equivalent(sheets[i].name, n)
  /\ slicers' = Append(slicers, n)
  /\ UNCHANGED <<tabs, definedNames, source>>

\* Worksheet::setPrintArea, setPrintTitlesRows and setPrintTitlesCols
SetPrintArea(i, r) ==
  /\ sheets' = [sheets EXCEPT ![i].area = r]
  /\ UNCHANGED <<chartsheets, order, active, firstVisible, definedNames,
                 slicers, source>>
SetPrintTitles(i, r) ==
  /\ sheets' = [sheets EXCEPT ![i].titles = r]
  /\ UNCHANGED <<chartsheets, order, active, firstVisible, definedNames,
                 slicers, source>>

-----------------------------------------------------------------------------
(* The package *)

TabRecord(p) ==
  [kind |-> order[p].kind, name |-> TabName(p),
   visibility |-> order[p].visibility,
   id |-> IF order[p].kind = "worksheet"
          THEN sheets[order[p].kindIndex].id ELSE None]

\* The activeTab save() writes, as a set of one index.
EffectiveActive ==
  IF active \in DOMAIN order /\ order[active].visibility = "visible"
  THEN {active} ELSE FirstVisible(order)

\* Print areas are written under the tab's index ...
PrintAreas ==
  [p \in {q \in DOMAIN order : /\ order[q].kind = "worksheet"
                               /\ sheets[order[q].kindIndex].area # None}
     |-> sheets[order[p].kindIndex].area]

\* ... and print titles under the index among the worksheets.
PrintTitles ==
  [i \in {j \in DOMAIN sheets : sheets[j].titles # None} |-> sheets[i].titles]

\* Relationships to a cache part are written for every slicer; the part only
\* while some worksheet of exactly its name is written.
SlicerRelationships == DOMAIN slicers
SlicerParts == {s \in DOMAIN slicers :
                  \E i \in DOMAIN sheets : sheets[i].name = slicers[s]}

\* Workbook::save (the OOXML branch) writes this; it throws when there is no
\* tab or no visible one.
CanSave == VisibleTabs(order) # {}
Package(a) == [tabs   |-> [p \in DOMAIN order |-> TabRecord(p)],
               active |-> a,
               names  |-> definedNames,
               areas  |-> PrintAreas,
               titles |-> PrintTitles]

\* The ascending enumerations of a set of tab indices (there is one).
Ascending(S) ==
  {e \in [1..Cardinality(S) -> S] :
     /\ \A j \in DOMAIN e : \A i \in 1..(j - 1) : e[i] < e[j]
     /\ \A p \in S : \E i \in DOMAIN e : e[i] = p}
PlaceIn(e, p) == CHOOSE i \in DOMAIN e : e[i] = p

OfKind(S, kind) == {p \in S : order[p].kind = kind}
SettingAt(f, p) == IF p \in DOMAIN f THEN f[p] ELSE None

\* The lenient loader shows the first tab when the file hides all of them.
ShowSome(o) == IF o # <<>> /\ VisibleTabs(o) = {}
               THEN [o EXCEPT ![1].visibility = "visible"] ELSE o

\* Seeded fault: the tabs are read as visible.
ReadOrderVisible(pkg, tabAt, sheetAt, chartAt, stateless) ==
  [q \in DOMAIN tabAt |->
     LET t == pkg.tabs[tabAt[q]]
     IN  [kind |-> t.kind,
          kindIndex |-> PlaceIn(IF t.kind = "worksheet" THEN sheetAt ELSE chartAt,
                                tabAt[q]),
          visibility |-> "visible"]]

\* What Workbook::loadInPlace builds from the package pkg, given the tabs it
\* read, the worksheets among them and the chartsheets, each in tab order.  A
\* worksheet whose state it could not read stays as addWorksheet lists it.
ReadOrder(pkg, tabAt, sheetAt, chartAt, stateless) ==
  [q \in DOMAIN tabAt |->
     LET t == pkg.tabs[tabAt[q]]
     IN  [kind |-> t.kind,
          kindIndex |-> PlaceIn(IF t.kind = "worksheet" THEN sheetAt ELSE chartAt,
                                tabAt[q]),
          visibility |-> IF tabAt[q] \in stateless THEN "visible"
                         ELSE t.visibility]]

\* A setting is found under the worksheet's place among the tabs read.
ReadSheets(pkg, tabAt, sheetAt) ==
  [k \in DOMAIN sheetAt |->
     LET t == pkg.tabs[sheetAt[k]]
     IN  [name   |-> t.name,
          id     |-> t.id,
          area   |-> SettingAt(pkg.areas, PlaceIn(tabAt, sheetAt[k])),
          titles |-> SettingAt(pkg.titles, PlaceIn(tabAt, sheetAt[k]))]]

\* The visible tabs that have the name of the file's activeTab.
AskedTabs(pkg, tabAt, o) ==
  {q \in VisibleTabs(o) :
     Equivalent(pkg.tabs[tabAt[q]].name, pkg.tabs[pkg.active].name)}

\* Seeded fault: the source parts of worksheets that failed are listed too, in
\* the place of the next ones.
SourcesMisplaced(pkg, sheetAt, sourceAt) ==
  [k \in DOMAIN sourceAt |->
     [name |-> pkg.tabs[sheetAt[k]].name, part |-> pkg.tabs[sourceAt[k]].id]]

\* The source parts, by the names of their worksheets.
ReadSources(pkg, sheetAt, sourceAt) ==
  [k \in DOMAIN sourceAt |->
     [name |-> pkg.tabs[sourceAt[k]].name, part |-> pkg.tabs[sourceAt[k]].id]]

\* Workbook::loadInPlace on the package pkg: the tabs `kept` in tab order, the
\* worksheets `stateless` among them, which fail after addWorksheet, when their
\* state is read, and the chartsheets `orphans`, which are not among them and
\* fail after chartsheets_.emplace_back.
ReadTabs(pkg, kept, stateless, orphans) ==
  \E tabAt    \in Ascending(kept),
     sheetAt  \in Ascending(OfKind(kept, "worksheet")),
     sourceAt \in Ascending(OfKind(kept, "worksheet") \ stateless),
     chartAt  \in Ascending(OfKind(kept \cup orphans, "chartsheet")) :
    LET shown == ShowSome(ReadOrder(pkg, tabAt, sheetAt, chartAt, stateless))
        asked == AskedTabs(pkg, tabAt, shown)
    IN  /\ sheets' = ReadSheets(pkg, tabAt, sheetAt)
        /\ chartsheets' = [k \in DOMAIN chartAt |-> pkg.tabs[chartAt[k]].name]
        /\ order' = shown
        /\ firstVisible' \in FirstVisible(shown)
        /\ active' \in IF asked = {} THEN FirstVisible(shown) ELSE FirstOf(asked)
        /\ source' = ReadSources(pkg, sheetAt, sourceAt)
        /\ definedNames' = pkg.names
        /\ slicers' = <<>>

\* Workbook::save, then Workbook::load of what it wrote.  One action for both:
\* a load starts from an empty workbook, so what is done between the two leaves
\* no trace.  The names of the tabs are distinct, so the strict load succeeds.
Reload ==
  /\ CanSave
  /\ \E a \in EffectiveActive : ReadTabs(Package(a), DOMAIN order, {}, {})

\* The same with a package damaged in between and LoadOptions::lenient, which
\* goes on past the tabs it cannot read: `lost` get no tab, the chartsheets
\* `orphans` among them because they fail late, and the worksheets `stateless`
\* get a tab and nothing else.
ReloadLenient(lost, stateless, orphans) ==
  /\ CanSave
  /\ \E a \in EffectiveActive :
       ReadTabs(Package(a), DOMAIN order \ lost, stateless, orphans)

-----------------------------------------------------------------------------
Init ==
  /\ sheets = <<>> /\ chartsheets = <<>> /\ order = <<>>
  /\ active = 1 /\ firstVisible = 1
  /\ definedNames = {} /\ slicers = <<>> /\ source = <<>>

Rename ==
  \E n \in SheetNames :
    \/ \E i \in DOMAIN sheets : RenameWorksheet(i, n)
    \/ \E i \in DOMAIN chartsheets : RenameChartsheet(i, n)

Next ==
  \/ \E n \in SheetNames : AddWorksheet(n)
  \/ \E i \in DOMAIN sheets, n \in SheetNames : CopyWorksheet(i, n)
  \/ \E n \in SheetNames : AddChartsheet(n)
  \/ Rename
  \/ \E i \in DOMAIN sheets : RemoveWorksheet(i)
  \/ \E i \in DOMAIN chartsheets : RemoveChartsheet(i)
  \/ \E p \in DOMAIN order, v \in Visibilities : SetVisibility(p, v)
  \/ \E p \in DOMAIN order : SetActive(p)
  \/ \E n \in DefNames, scope \in 0..Len(sheets) : AddDefinedName(n, scope)
  \/ \E n \in SheetNames : AddSlicer(n)
  \/ \E i \in DOMAIN sheets, r \in Ranges \cup {None} : SetPrintArea(i, r)
  \/ \E i \in DOMAIN sheets, r \in Ranges \cup {None} : SetPrintTitles(i, r)
  \/ \E from, to \in DOMAIN order : MoveSheet(from, to)
  \/ Reload

Spec        == Init /\ [][Next]_vars

\* Lenient loads, of packages with any damage to their sheets but with no
\* defined name: a scoped name keeps the number its worksheet had in the file.
LoadLenient ==
  /\ definedNames = {}
  /\ \E lost \in SUBSET DOMAIN order :
       \E stateless \in SUBSET OfKind(DOMAIN order \ lost, "worksheet"),
          orphans \in SUBSET OfKind(lost, "chartsheet") :
         ReloadLenient(lost, stateless, orphans)
NextLenient == Next \/ LoadLenient
SpecLenient == Init /\ [][NextLenient]_vars

-----------------------------------------------------------------------------
(* Properties *)

Sheet     == [name : SheetNames, id : Ids, area : Ranges \cup {None},
              titles : Ranges \cup {None}]
Tab       == [kind : Kinds, kindIndex : Nat \ {0}, visibility : Visibilities]
ScopedName == [name : DefNames, scope : Nat, owner : Ids \cup {None}]

\* The type invariant.
TypeOK ==
  /\ sheets \in Seq(Sheet)
  /\ chartsheets \in Seq(SheetNames)
  /\ order \in Seq(Tab)
  /\ active \in Nat \ {0}
  /\ firstVisible \in Nat \ {0}
  /\ definedNames \in SUBSET ScopedName
  /\ slicers \in Seq(SheetNames)
  /\ source \in Seq([name : SheetNames, part : Ids])

KindCount(kind) == IF kind = "worksheet" THEN Len(sheets) ELSE Len(chartsheets)

\* sheetOrder_ only names sheets that exist: workbookSheetNames() and
\* workbookSheets() index the collections with at().
OrderInRange ==
  \A p \in DOMAIN order : order[p].kindIndex <= KindCount(order[p].kind)

\* No sheet has two tabs.
OrderOnce ==
  \A p, q \in DOMAIN order :
    (order[p].kind = order[q].kind /\ order[p].kindIndex = order[q].kindIndex)
      => p = q

\* Every sheet of a kind has a tab.
HaveTabs(kind) ==
  \A k \in 1..KindCount(kind) :
    \E p \in DOMAIN order : order[p].kind = kind /\ order[p].kindIndex = k

\* Every worksheet and every chartsheet has a tab ("Chart-only sheets
\* participate in the workbook sheet order", Workbook.h:232).
EverySheetHasTab == \A kind \in Kinds : HaveTabs(kind)

\* A chartsheet fails in a lenient load after it was added, before its tab is.
FailsLate ==
  \E lost \in SUBSET DOMAIN order :
    \E stateless \in SUBSET OfKind(DOMAIN order \ lost, "worksheet"),
       orphans \in (SUBSET OfKind(lost, "chartsheet")) \ {{}} :
      ReloadLenient(lost, stateless, orphans)

\* The tab order lists each worksheet exactly once and each chartsheet at most
\* once, over every sequence of additions, removals, moves, reloads and lenient
\* loads of damaged packages; and nothing but a lenient load in which one fails
\* late leaves a chartsheet without a tab.
OrderComplete ==
  [][/\ OrderInRange' /\ OrderOnce' /\ HaveTabs("worksheet")'
     /\ HaveTabs("chartsheet") => HaveTabs("chartsheet")' \/ FailsLate]_vars

\* The active tab is never a hidden one: no sequence of removals, moves and
\* hidings leaves activeWorkbookSheetIndex_ on an invisible tab.  It may be one
\* past the end, after the removal of the last visible tab.
ActiveNeverHidden ==
  /\ active \in 1..(Len(order) + 1)
  /\ active \in DOMAIN order => order[active].visibility = "visible"

\* firstVisibleWorkbookSheetIndex_ is what firstVisibleWorkbookSheetIndex()
\* computes, though addWorksheet, copyWorksheet and addChartsheet never
\* refresh it.
FirstVisibleFresh == firstVisible \in FirstVisible(order)

\* No two sheets of a workbook, of whatever kind, have equivalent names.
NamesUnique ==
  /\ \A i, j \in DOMAIN sheets :
       Equivalent(sheets[i].name, sheets[j].name) => i = j
  /\ \A i, j \in DOMAIN chartsheets :
       Equivalent(chartsheets[i], chartsheets[j]) => i = j
  /\ \A i \in DOMAIN sheets, j \in DOMAIN chartsheets :
       ~Equivalent(sheets[i].name, chartsheets[j])

\* Names tell sheets apart, whatever was renamed, removed and added again under
\* an old name: they are distinct, and each source part belongs to the worksheet
\* that was read from it, under the name save() looks it up by, so that no sheet
\* is ever given another's drawings.
SourceTracksSheet ==
  /\ NamesUnique
  /\ \A j \in DOMAIN source :
       \E i \in DOMAIN sheets : /\ sheets[i].name = source[j].name
                                /\ sheets[i].id = source[j].part

\* The worksheets are the tabs, in order: worksheet and tab indices agree.
InOrder ==
  \A p \in DOMAIN order : order[p].kind = "worksheet" /\ order[p].kindIndex = p
ScopedInOrder == definedNames # {} => InOrder

\* A localSheetId names the worksheet the name was given to.
ScopeDenotesOwner ==
  \A d \in definedNames :
    d.scope # 0 => /\ d.scope \in DOMAIN sheets
                   /\ sheets[d.scope].id = d.owner

\* The worksheet a name was given to is still there; the name is.
OwnerAlive(d) == d.owner = None \/ \E i \in DOMAIN sheets : sheets[i].id = d.owner
NameSurvives(d) == \E e \in definedNames' : e.name = d.name /\ e.owner = d.owner

\* While the tabs are the worksheets in order, a scoped defined name stays
\* with the worksheet it was given to, through removals and reloads, and only
\* the removal of that worksheet, or a reload, takes the name away.
ScopesFollowOwners ==
  [][/\ ScopeDenotesOwner'
     /\ \A d \in definedNames : OwnerAlive(d)' => NameSurvives(d) \/ Reload]_vars

ActiveName == TabName(active)

EditsOtherTabs ==
  \/ \E n \in SheetNames : AddWorksheet(n) \/ AddChartsheet(n)
  \/ \E i \in DOMAIN sheets, n \in SheetNames : CopyWorksheet(i, n)
  \/ \E i \in DOMAIN sheets :
       TabOf("worksheet", i) # active /\ RemoveWorksheet(i)
  \/ \E i \in DOMAIN chartsheets :
       TabOf("chartsheet", i) # active /\ RemoveChartsheet(i)
  \/ \E p, q \in DOMAIN order : MoveSheet(p, q)

RemovesTab ==
  \/ \E i \in DOMAIN sheets : RemoveWorksheet(i)
  \/ \E i \in DOMAIN chartsheets : RemoveChartsheet(i)

\* Adding, moving and removing other tabs never changes which tab is active:
\* activeWorkbookSheetIndex_ follows the tab ("Active tab follows mixed-sheet
\* move", p1u_template_chartsheet.cpp).  The removal of the active one leaves
\* the index on a visible tab whenever one is left ("Active tab repairs to a
\* surviving visible sheet after removal").
ActiveFollowsTab ==
  [][(active \in DOMAIN order) =>
       /\ \/ active' \in DOMAIN order' /\ ActiveName' = ActiveName
          \/ ~EditsOtherTabs
       /\ \/ active' \in VisibleTabs(order') \/ VisibleTabs(order') = {}
          \/ ~RemovesTab]_vars

\* A reload shows the tabs that were saved: kinds, names, visibilities, order,
\* the active tab and each tab's print area, though the worksheets and the
\* chartsheets are numbered anew.
ReloadRestoresTabs ==
  [][\/ /\ Len(order') = Len(order)
        /\ \A p \in DOMAIN order : TabRecord(p)' = TabRecord(p)
        /\ active' \in EffectiveActive
        /\ PrintAreas' = PrintAreas
     \/ ~Reload]_vars

-----------------------------------------------------------------------------
(* Claims of the repository that the code does not keep *)

\* A workbook with tabs shows at least one of them ("Workbook must contain at
\* least one visible sheet": the error of setWorkbookSheetVisibility and save).
SomeTabVisible == order # <<>> => VisibleTabs(order) # {}

\* The comment in removeWorksheet: names scoped to the removed sheet cease to
\* exist, the surviving local scopes shift with the worksheet index.
ScopesShiftWithWorksheet ==
  [][\A i \in DOMAIN sheets : RemoveWorksheet(i) =>
       definedNames' = {[d EXCEPT !.scope = IF @ > i THEN @ - 1 ELSE @] :
                          d \in {e \in definedNames : e.scope # i}}]_vars

TitlesById == {<<sheets[i].id, sheets[i].titles>> : i \in DOMAIN sheets}

\* Print titles reload into the worksheet they were set on ("Print title rows
\* reload", tests/XLPP.UnitTests/main.cpp).
ReloadRestoresPrintTitles == [][Reload => TitlesById' = TitlesById]_vars

\* addSlicer: "Creates the slicer cache and slicer parts on save."
SlicerPartsSaved == CanSave => SlicerParts = SlicerRelationships

=============================================================================
