--------------------------- MODULE StructuralEdit ---------------------------
(***************************************************************************)
(* Workbook::insertRows, deleteRows, insertColumns and deleteColumns       *)
(* (src/src/XLPP/Workbook/WorkbookStructuralEdit.cpp), with the pass over   *)
(* the edited worksheet (Worksheet/WorksheetStructuralEdit.cpp) and the     *)
(* repair of pivot caches (Pivot/PivotStructuralEdit.cpp).                  *)
(*                                                                         *)
(* The edit is a sequence of passes with a cancellation point between any  *)
(* two; an exception or a cancellation restores a snapshot taken first.    *)
(* One axis is modelled at a time (every behaviour picks rows or columns): *)
(* a sheet is the sequence of its lines, each with an identity, and a      *)
(* reference is the interval of lines it spans.                            *)
(***************************************************************************)
EXTENDS ReferenceShift, Sequences, FiniteSets, SequencesExt

CONSTANTS RollbackOnFailure,    \* StructuralEditOptions::rollbackOnFailure
          Spellings,            \* how callers spell the name of the edited sheet
          MaxEdits,             \* bound: edits of a behaviour
          MaxAmount             \* bound: lines of one edit

ASSUME BoundsAssumption == MaxEdits \in Nat /\ MaxAmount \in Nat

(* Where references to the edited sheet are kept.  "rule" stands for the   *)
(* areas of conditional formats, data validations and print settings; the  *)
(* two charts are one on the edited sheet and one on another worksheet.  A *)
(* chart has one reference, for its categories, values and title.  Those   *)
(* of error bars are left out: on another worksheet the code rewrites them *)
(* only in a series whose categories, values or title change with them.    *)
FormulaPlaces == {"localFormula", "otherFormula", "name"}
ChartPlaces   == {"localChart", "otherChart"}
AreaPlaces    == {"rule", "merge", "table", "filter"}
PivotPlaces   == {"localPivot", "otherPivot"}
Places        == FormulaPlaces \cup ChartPlaces \cup AreaPlaces \cup PivotPlaces \cup {"localLink"}
CellPlaces    == {"localFormula", "localLink"}    \* in the cell at home: its formula, its hyperlink
LocalPlaces   == AreaPlaces \cup CellPlaces \cup {"localChart", "localPivot"}

VARIABLES axis,         \* "row" or "column", fixed
          book,         \* the part of the workbook an edit may change
          home,         \* the line of the cell that holds the local formula and hyperlink
          populated,    \* the lines that hold cells
          pc, edit,     \* the pass the edit has reached, and the edit itself
          spelling,     \* how its caller spelled the sheet
          snapshot,     \* the copies made before the edit
          counted,      \* what the report has counted as rewritten
          edits, fresh  \* edits so far, and the next identity of a line

vars == <<axis, book, home, populated, pc, edit, spelling, snapshot, counted, edits, fresh>>

-----------------------------------------------------------------------------
(* Sequences of things that stand for consecutive lines.                   *)
Cut(s, from, to) == SubSeq(s, 1, from - 1) \o SubSeq(s, to + 1, Len(s))
Put(s, at, new)  == SubSeq(s, 1, at - 1) \o new \o SubSeq(s, at, Len(s))

NewLines == [n \in 1 .. edit.amount |-> fresh + n - 1]

(* The lines a deletion really takes off the sheet.                        *)
LastCut == IF CutEnd(edit) > Limit THEN Limit ELSE CutEnd(edit) - 1

ShiftedGrid(g) ==
    IF edit.action = "insert"
    THEN SubSeq(Put(g, edit.index, NewLines), 1, Limit)
    ELSE Cut(g, edit.index, LastCut) \o SubSeq(NewLines, 1, LastCut - edit.index + 1)

Covered(b, p) == {b.grid[k] : k \in {n \in Coordinates : Spans(b.refs[p], n)}}

(* The lines of an interval in order, as a cache or a list of columns.     *)
Listed(b, i) == IF i = Gone THEN <<>> ELSE SubSeq(b.grid, i.first, i.last)

-----------------------------------------------------------------------------
(* tables_: the names of the columns follow the range.                     *)
TableColumns(columns, range) ==
    IF axis = "row" \/ Rewrite(range, edit) = Gone \/ columns = <<>> THEN columns
    ELSE IF edit.action = "insert"
         THEN IF edit.index > range.first /\ edit.index <= range.last
              THEN Put(columns, edit.index - range.first + 1, NewLines)
              ELSE columns
         ELSE LET kept == {n \in 1 .. Len(columns) :
                             Survives(range.first + n - 1, edit)}
                  names == [n \in 1 .. Cardinality(kept) |->
                               columns[CHOOSE k \in kept :
                                         Cardinality({j \in kept : j <= k}) = n]]
              IN  IF names = <<>> THEN columns ELSE names

(* autoFilter_: a filtered column keeps its criteria under a new id, its   *)
(* offset in the new range.                                                *)
FilterColumns(criteria, range) ==
    LET new == Rewrite(range, edit)
        id(n) == MapCoordinate(range.first + n, edit) - new.first
        kept == {n \in DOMAIN criteria : /\ MapCoordinate(range.first + n, edit) # 0
                                         /\ id(n) >= 0}
    IN  IF new = Gone THEN <<>>
        ELSE IF axis = "row" THEN criteria
        ELSE [m \in {id(n) : n \in kept} |-> criteria[CHOOSE n \in kept : id(n) = m]]

(* The part of an interval that a deletion takes.                          *)
CutFrom(i) == IF edit.index > i.first THEN edit.index ELSE i.first
CutTo(i)   == IF CutEnd(edit) - 1 < i.last THEN CutEnd(edit) - 1 ELSE i.last

Splits(i) == edit.action = "insert" /\ edit.index > i.first /\ edit.index <= i.last

(* repairColumns: the fields of the cache follow the source.               *)
Fields(pivot, source) ==
    LET offset == CutFrom(source) - source.first
    IN  IF Splits(source) THEN Put(pivot.items, offset + 1, NewLines)
        ELSE IF \/ edit.action = "insert"
                \/ CutFrom(source) > CutTo(source)
                \/ offset >= Len(pivot.items)
        THEN pivot.items
        ELSE Cut(pivot.items, offset + 1, CutTo(source) - source.first + 1)

(* insertSourceFields throws when the cache has fewer fields than that.    *)
FieldsThrow(pivot, source) ==
    /\ axis = "column"
    /\ source # Gone
    /\ Rewrite(source, edit) # Gone
    /\ Splits(source)
    /\ edit.index - source.first > Len(pivot.items)

(* Seeded fault: fields after a deleted one keep their index.              *)
UsedFieldsUnmoved(pivot, source) ==
    IF Splits(source)
    THEN {IF n >= CutFrom(source) - source.first THEN n + edit.amount ELSE n : n \in pivot.used}
    ELSE {n \in pivot.used : n < Len(Fields(pivot, source))}

(* mapFieldIndex on the fields the pivot table uses; one whose column is   *)
(* deleted is dropped.  Indexes count from 0 as in the file.               *)
UsedFields(pivot, source) ==
    LET offset == CutFrom(source) - source.first
        lost   == Len(pivot.items) - Len(Fields(pivot, source))
        mapped(n) == IF Splits(source) /\ n >= offset THEN n + edit.amount
                     ELSE IF lost <= 0 \/ n < offset THEN n
                     ELSE IF n >= offset + lost THEN n - lost
                     ELSE -1
    IN  {mapped(n) : n \in pivot.used} \ {-1}

(* Seeded fault: the record of the row that becomes the header stays.      *)
RecordsKeepHeader(pivot, source) ==
    IF \/ pivot.items = <<>>
       \/ Len(pivot.items) # source.last - source.first
    THEN pivot.items
    ELSE IF Splits(source) THEN Put(pivot.items, edit.index - source.first, NewLines)
    ELSE LET from == IF edit.index > source.first THEN edit.index ELSE source.first + 1
         IN  IF edit.action = "insert" \/ from > CutTo(source) THEN pivot.items
             ELSE Cut(pivot.items, from - source.first, CutTo(source) - source.first)

(* repairRows: the records are the rows of the source below its first one. *)
(* When that header goes, so does the record of the row that replaces it.  *)
Records(pivot, source) ==
    LET headerGoes == edit.index <= source.first /\ source.first < CutEnd(edit)
        from == IF edit.index > source.first THEN edit.index ELSE source.first + 1
        to   == IF headerGoes /\ CutEnd(edit) <= source.last THEN CutEnd(edit)
                ELSE CutTo(source)
    IN  IF \/ pivot.items = <<>>
           \/ Len(pivot.items) # source.last - source.first
        THEN pivot.items
        ELSE IF Splits(source) THEN Put(pivot.items, edit.index - source.first, NewLines)
        ELSE IF edit.action = "insert" \/ from > to THEN pivot.items
        ELSE Cut(pivot.items, from - source.first, to - source.first)

(* rewritePivotSourceForStructuralEdit.  Fields and records are repaired   *)
(* only if the source spells the sheet as the caller of the edit did.      *)
RepairedPivot(pivot, source, exact) ==
    IF ~Touches(edit, source) \/ Rewrite(source, edit) = Gone \/ ~exact THEN pivot
    ELSE IF axis = "row"
         THEN [pivot EXCEPT !.items = Records(pivot, source)]
         ELSE [items |-> Fields(pivot, source), used |-> UsedFields(pivot, source)]

-----------------------------------------------------------------------------
NoEdit == [action |-> "insert", index |-> 0, amount |-> 0]

(* The references of some places rewritten, in book b.                     *)
Rewritten(b, places) ==
    [p \in Places |-> IF p \in places THEN Rewrite(b.refs[p], edit) ELSE b.refs[p]]

Touched(b, places) == \E p \in places : Touches(edit, b.refs[p])

(* What each pass adds to the counters of the report.                      *)
Count(kind, happened) == counted' = IF happened THEN counted \cup {kind} ELSE counted

(* A merge that is left with one cell is dropped.                          *)
MergeLeft(i) == IF i.first = i.last THEN Gone ELSE i

Running(p) == pc = p
Goto(p) == pc' = p

Constant == UNCHANGED <<axis, home, populated>>
Same     == Constant /\ UNCHANGED <<edit, spelling, snapshot, edits, fresh>>

-----------------------------------------------------------------------------
(* applyStructuralEdit: the snapshot, the checks of the arguments, and the *)
(* errors the model already has.                                           *)
Begin(e, s) ==
    /\ Running("idle")
    /\ edits < MaxEdits
    /\ e.amount <= MaxAmount
    /\ pc' = "shift"
    /\ edit' = e
    /\ spelling' = s
    /\ snapshot' = book
    /\ counted' = {}
    /\ edits' = edits + 1
    /\ Constant /\ UNCHANGED <<book, fresh>>

(* The check of shiftStructure before it changes anything: no cell and no  *)
(* dimension of a line may leave the grid.                                 *)
PushesCellsOut ==
    /\ edit.action = "insert"
    /\ \E k \in edit.index .. Limit :
          k > Limit - edit.amount /\ (book.grid[k] \in populated \/ k \in DOMAIN book.dimensions)

(* What a surviving cell refers to is rewritten; the rest went with its    *)
(* cell.                                                                   *)
CellReferences(b, grid) ==
    [p \in CellPlaces |-> IF home \in Range(grid) THEN Rewrite(b.refs[p], edit) ELSE Gone]

(* Seeded fault: a dimension on the last deleted line survives.            *)
DimensionsOffByOne(dimensions) ==
    LET kept == {n \in DOMAIN dimensions : MapCoordinate(n, edit) # 0 \/ n = CutEnd(edit) - 1}
        new(n) == IF MapCoordinate(n, edit) # 0 THEN MapCoordinate(n, edit) ELSE edit.index
    IN  [m \in {new(n) : n \in kept} |-> dimensions[CHOOSE n \in kept : new(n) = m]]

(* Heights of rows and widths of columns, by their line.                   *)
MovedDimensions(dimensions) ==
    LET kept == {n \in DOMAIN dimensions : MapCoordinate(n, edit) # 0}
    IN  [m \in {MapCoordinate(n, edit) : n \in kept} |->
            dimensions[CHOOSE n \in kept : MapCoordinate(n, edit) = m]]

(* The top left cell below the frozen panes.                               *)
MovedPane(pane) == TransformPosition(pane, edit)

(* Worksheet::shiftStructure.                                              *)
ShiftedBook(b) ==
    LET grid == ShiftedGrid(b.grid)
        refs == Rewritten(b, LocalPlaces)
        cell == CellReferences(b, grid)
    IN  [b EXCEPT
          !.grid = grid,
          !.refs = [p \in Places |-> IF p \in CellPlaces THEN cell[p]
                                     ELSE IF p = "merge" THEN MergeLeft(refs[p]) ELSE refs[p]],
          !.dimensions = MovedDimensions(@),
          !.pane = MovedPane(@),
          !.columns = TableColumns(@, b.refs.table),
          !.criteria = FilterColumns(@, b.refs.filter),
          !.anchor = [from |-> TransformPosition(@.from, edit),
                      to   |-> TransformPosition(@.to, edit)],
          !.pivots.localPivot = RepairedPivot(@, b.refs.localPivot, TRUE)]

ShiftStructure ==
    /\ Running("shift")
    /\ ~PushesCellsOut
    /\ ~FieldsThrow(book.pivots.localPivot, book.refs.localPivot)
    /\ book' = ShiftedBook(book)
    /\ counted' =
         (IF home \in Range(book'.grid) /\ Touched(book, {"localFormula"}) THEN {"formula"} ELSE {})
         \cup (IF Touched(book, {"localChart"}) THEN {"chart"} ELSE {})
         \cup (IF Touched(book, {"localPivot"}) THEN {"pivot"} ELSE {})
    /\ Goto("formulas") /\ Same

(* The formulas of the other worksheets.                                   *)
RewriteFormulas ==
    /\ Running("formulas")
    /\ book' = [book EXCEPT !.refs = Rewritten(book, {"otherFormula"})]
    /\ Count("formula", Touched(book, {"otherFormula"}))
    /\ Goto("names") /\ Same

RewriteNames ==
    /\ Running("names")
    /\ book' = [book EXCEPT !.refs = Rewritten(book, {"name"})]
    /\ Count("name", Touched(book, {"name"}))
    /\ Goto("charts") /\ Same

(* Seeded fault: charts of other sheets are rewritten and not counted.     *)
RewriteChartsUncounted ==
    /\ Running("charts")
    /\ book' = [book EXCEPT !.refs = Rewritten(book, {"otherChart"})]
    /\ counted' = counted \ {"chart"}
    /\ Goto("pivots") /\ Same

RewriteCharts ==
    /\ Running("charts")
    /\ book' = [book EXCEPT !.refs = Rewritten(book, {"otherChart"})]
    /\ Count("chart", Touched(book, {"otherChart"}))
    /\ Goto("pivots") /\ Same

RewritePivots ==
    /\ Running("pivots")
    /\ LET source == book.refs.otherPivot
           exact  == spelling = "exact"
       IN  /\ ~(exact /\ FieldsThrow(book.pivots.otherPivot, source))
           /\ book' = [book EXCEPT !.refs = Rewritten(book, {"otherPivot"}),
                                   !.pivots.otherPivot = RepairedPivot(@, source, exact)]
    /\ Count("pivot", Touched(book, {"otherPivot"}))
    /\ Goto("caches") /\ Same

(* synchronizeChartCaches, asked for when a chart reference was rewritten. *)
(* A reference that cannot be parsed keeps its points.                     *)
SynchronizeCaches ==
    /\ Running("caches")
    /\ book' = [book EXCEPT !.caches = [p \in ChartPlaces |->
                    IF "chart" \in counted /\ book.refs[p] # Gone
                    THEN Listed(book, book.refs[p]) ELSE @[p]]]
    /\ Goto("calculation") /\ UNCHANGED counted /\ Same

RequestRecalculation ==
    /\ Running("calculation")
    /\ book' = [book EXCEPT !.recalculate = @ \/ counted # {}]
    /\ Goto("validation") /\ UNCHANGED counted /\ Same

Width(i) == i.last - i.first + 1

(* The errors of validateModelIntegrity an edit can make: a table or a     *)
(* pivot cache that is not as wide as its range, a field that is not there. *)
WrongWidth(items, range) == range # Gone /\ items # <<>> /\ Len(items) # Width(range)
PivotErrors(b) ==
    {p \in PivotPlaces : LET pivot == b.pivots[p]
                         IN  \/ WrongWidth(pivot.items, b.refs[p])
                             \/ \E n \in pivot.used : n >= Len(pivot.items)}
ModelErrors(b) ==
    IF axis = "row" THEN {}
    ELSE PivotErrors(b) \cup (IF WrongWidth(b.columns, b.refs.table) THEN {"table"} ELSE {})

Rejected == ModelErrors(book) \ ModelErrors(snapshot) # {}

(* The call returns: its arguments, its copies and its report go.          *)
Done ==
    /\ edit' = NoEdit
    /\ spelling' = "exact"
    /\ snapshot' = book'
    /\ counted' = {}

Commit ==
    /\ Running("validation")
    /\ ~Rejected
    /\ Goto("idle")
    /\ fresh' = fresh + edit.amount
    /\ Constant /\ UNCHANGED <<book, edits>>
    /\ Done

(* Seeded fault: the defined names are left out of the snapshot.           *)
AbortKeepsNames ==
    /\ ~Running("idle")
    /\ book' = [snapshot EXCEPT !.refs.name = book.refs.name]
    /\ Goto("idle")
    /\ Done
    /\ Constant /\ UNCHANGED <<edits, fresh>>

(* Every other way out: a callback that cancels at one of the points, a     *)
(* check that throws, an allocation that fails in any pass.                *)
Abort ==
    /\ ~Running("idle")
    /\ book' = IF RollbackOnFailure THEN snapshot ELSE book
    /\ Goto("idle")
    /\ Done
    /\ Constant /\ UNCHANGED <<edits, fresh>>

Next ==
    \/ \E e \in Edits, s \in Spellings : Begin(e, s)
    \/ ShiftStructure
    \/ RewriteFormulas
    \/ RewriteNames
    \/ RewriteCharts
    \/ RewritePivots
    \/ SynchronizeCaches
    \/ RequestRecalculation
    \/ Commit
    \/ Abort

(* A workbook in which everything refers to the same lines of the sheet,   *)
(* with one formula cell there, and cells and dimensions in all those      *)
(* lines, or at most one dimension.                                        *)
Book(i, filled) ==
    LET ids == [n \in Coordinates |-> n]
        span == SubSeq(ids, i.first, i.last)
        items == IF ~filled THEN <<>> ELSE IF axis = "row" THEN Tail(span) ELSE span
        own == IF filled THEN i.first .. i.last ELSE IF home = 1 THEN {i.first} ELSE {}
    IN  [grid |-> ids,
         dimensions |-> [n \in own |-> n],
         pane |-> i.first,
         refs |-> [p \in Places |-> IF p = "merge" THEN MergeLeft(i) ELSE i],
         columns |-> IF axis = "column" THEN span ELSE <<>>,
         criteria |-> IF axis = "column" THEN [n \in 0 .. Len(span) - 1 |-> span[n + 1]]
                      ELSE <<>>,
         pivots |-> [p \in PivotPlaces |->
                       [items |-> items,
                        used |-> IF axis = "column" /\ filled THEN {0, Len(span) - 1} ELSE {}]],
         caches |-> [p \in ChartPlaces |-> span],
         anchor |-> [from |-> i.first, to |-> i.last],
         recalculate |-> FALSE]

Init ==
    /\ axis \in {"row", "column"}
    /\ home \in {1, Limit}
    /\ \E i \in Intervals, filled \in BOOLEAN :
         /\ book = Book(i, filled)
         /\ populated = {home} \cup (IF filled THEN i.first .. i.last ELSE {})
    /\ pc = "idle"
    /\ edit = NoEdit
    /\ spelling = "exact"
    /\ snapshot = book
    /\ counted = {}
    /\ edits = 0
    /\ fresh = Limit + 1

Spec == Init /\ [][Next]_vars

-----------------------------------------------------------------------------
(* What a caller sees: the workbook before the call until it returns.      *)
Seen == IF Running("idle") THEN book ELSE snapshot

Atomic == INSTANCE AtomicEdit WITH
              grid <- Seen.grid,
              covers <- [p \in Places |-> Covered(Seen, p)],
              InCell <- CellPlaces

(* A structural edit is all or nothing, whichever pass is cancelled or      *)
(* fails, and when it is all, every reference in every place covers the    *)
(* lines it covered that are still on the sheet and the new ones between   *)
(* them (StructuralEdit.h: "any exception/cancellation restores").         *)
AllOrNothing == Atomic!Spec

(* Between edits the table has a column for each line of its range, the    *)
(* filter criteria sit on the column and a height or width on the line     *)
(* they were set for, and the cache of a pivot table has the fields of the *)
(* columns of its source, in order.                                        *)
HeaderOff(s) == IF s = <<>> \/ axis = "column" THEN s ELSE Tail(s)

ColumnsFollow(b) ==
    axis = "column" =>
        /\ b.refs.table # Gone => b.columns = Listed(b, b.refs.table)
        /\ \A n \in DOMAIN b.criteria : b.criteria[n] = b.grid[b.refs.filter.first + n]

(* What a pivot cache holds, if anything, is of the lines of its source.   *)
InStep(b, p) ==
    (b.refs[p] # Gone /\ b.pivots[p].items # <<>>)
        => b.pivots[p].items = HeaderOff(Listed(b, b.refs[p]))

ItemsFollowLines ==
    Running("idle") =>
        /\ ColumnsFollow(book)
        /\ \A n \in DOMAIN book.dimensions : book.dimensions[n] = book.grid[n]
        /\ axis = "column" => \A p \in PivotPlaces : InStep(book, p)

UsedLines(pivot) == {pivot.items[n + 1] : n \in pivot.used}

SelectionsKept(before, after) ==
    /\ \A p \in PivotPlaces : after.refs[p] # Gone =>
         UsedLines(after.pivots[p]) = UsedLines(before.pivots[p]) \cap Range(after.pivots[p].items)
    /\ after.refs.filter # Gone =>
         Range(after.criteria) = Range(before.criteria) \cap Range(after.grid)

Follows(before, after, a, b) ==
    before.grid[a] \in Range(after.grid) => after.grid[b] = before.grid[a]

(* Rows put into or above an interval that reaches to the end of the sheet *)
(* take its last ones off it.                                              *)
PushedOff(i) == edit.action = "insert" /\ Touches(edit, i) /\ i.last > Limit - edit.amount

(* An edit that goes through keeps every use of a field on the column it   *)
(* was about, and loses only the uses of deleted columns; no criteria of   *)
(* the filter is lost but with its column, no height or width but with its *)
(* line.  Records stay those of the rows of their source, unless empty     *)
(* rows of it are pushed off the sheet.  An anchor and the frozen pane are *)
(* on the line they were on while that line is still on the sheet, and an  *)
(* anchor never turns inside out or leaves the sheet.                      *)
UsesAndAnchorsFollow ==
    [][(pc = "validation" /\ pc' = "idle") =>
         /\ axis = "column" => SelectionsKept(snapshot, book')
         /\ Range(book'.dimensions) = Range(snapshot.dimensions) \cap Range(book'.grid)
         /\ \A p \in PivotPlaces :
              InStep(snapshot, p) /\ ~PushedOff(snapshot.refs[p]) => InStep(book', p)
         /\ Follows(snapshot, book', snapshot.pane, book'.pane)
         /\ Follows(snapshot, book', snapshot.anchor.from, book'.anchor.from)
         /\ Follows(snapshot, book', snapshot.anchor.to, book'.anchor.to)
         /\ 1 <= book'.anchor.from /\ book'.anchor.from <= book'.anchor.to
         /\ book'.anchor.to <= Limit]_vars

(* Between edits the points cached in a chart are the cells of the lines   *)
(* its reference spans, on the edited sheet and on the others.             *)
CachesFresh ==
    Running("idle") => \A p \in ChartPlaces : book.refs[p] # Gone =>
        book.caches[p] = Listed(book, book.refs[p])

(* If the lines of a formula, a name, a chart or a pivot source are not    *)
(* what they were, the host is asked to recalculate: no cached result of   *)
(* other lines is trusted (WorkbookStructuralEdit.cpp, "rather than        *)
(* trusting stale cached formula values").                                 *)
StaleIsRecalculated ==
    [][/\ pc = "validation"
       /\ pc' = "idle"
       /\ (\E p \in Places \ (AreaPlaces \cup {"localLink"}) :
              /\ Covered(snapshot, p) # Covered(book', p)
              /\ (p = "localFormula" => home \in Range(book'.grid)))
       => book'.recalculate]_vars

(* The same of a formula over whole lines of the other axis, SUM(A:A) when *)
(* a row with cells goes: its result changes, its text does not.           *)
WholeLinesRecalculated ==
    [][/\ pc = "validation"
       /\ pc' = "idle"
       /\ (\E x \in populated : x \in Range(snapshot.grid) /\ x \notin Range(book'.grid))
       => book'.recalculate]_vars

(* The type invariant.  Its last part is what the rest of the model needs   *)
(* of an edit under way: no pass ever leaves a reference or an anchor that *)
(* is inside out or outside the sheet, nor does a rollback bring one back. *)
ReferencesOnSheet(b) ==
    /\ DOMAIN b = {"grid", "refs", "columns", "criteria", "pivots", "caches", "anchor",
                   "dimensions", "pane", "recalculate"}
    /\ b.pane \in Coordinates
    /\ b.refs \in [Places -> Intervals \cup {Gone}]
    /\ b.anchor \in [from : Coordinates, to : Coordinates]
    /\ b.anchor.from <= b.anchor.to

TypeOK ==
    /\ axis \in {"row", "column"}
    /\ pc \in {"idle", "shift", "formulas", "names", "charts", "pivots", "caches",
               "calculation", "validation"}
    /\ edit \in IF pc = "idle" THEN {NoEdit} ELSE Edits
    /\ counted \subseteq {"formula", "name", "chart", "pivot"}
    /\ edits \in 0 .. MaxEdits
    /\ ReferencesOnSheet(book)
    /\ ReferencesOnSheet(snapshot)
=============================================================================
