--------------------------- MODULE ReferenceShift ---------------------------
(***************************************************************************)
(* How an insertion or a deletion of rows or columns moves coordinates:    *)
(* the arithmetic of src/src/XLPP/Formula/ReferenceTransformer.cpp and of  *)
(* Worksheet::shiftStructure.  The axis is abstracted away: a reference is *)
(* the interval of lines it spans on the edited axis (a reference to whole *)
(* lines of the other axis is never touched, transformParsed).             *)
(***************************************************************************)
EXTENDS Integers

CONSTANT Limit              \* kMaxExcelRow or kMaxExcelColumn

ASSUME LimitAssumption == Limit \in Nat \ {0}

Coordinates == 1 .. Limit

(* An edit that shiftStructure lets through: both numbers within bounds.   *)
Edits == [action : {"insert", "delete"}, index : Coordinates, amount : Coordinates]

Intervals == {i \in [first : Coordinates, last : Coordinates] : i.first <= i.last}

(* What a reference becomes when nothing of it is left: #REF!, or an area  *)
(* that is dropped from its list.                                          *)
Gone == [first |-> 0, last |-> 0]

CutEnd(e) == e.index + e.amount

(* Seeded fault: the last line of an interval is forgotten.                *)
TouchesInside(e, i) == i # Gone /\ e.index < i.last

(* transformInterval's "changed": also an edit that leaves the text alone,  *)
(* as when lines are inserted into an interval that already ends at Limit. *)
Touches(e, i) == i # Gone /\ e.index <= i.last

Spans(i, c) == i.first <= c /\ c <= i.last

-----------------------------------------------------------------------------
(* mapCoordinate, with 0 for a line that is deleted.  A line an insertion  *)
(* pushes out of the grid gets a coordinate past Limit.                    *)
MapCoordinate(c, e) ==
    IF e.action = "insert"
    THEN IF c >= e.index THEN c + e.amount ELSE c
    ELSE IF c < e.index THEN c
         ELSE IF c < CutEnd(e) THEN 0
         ELSE c - e.amount

Survives(c, e) == MapCoordinate(c, e) \in Coordinates

(* Seeded fault: the end of an interval leaves the grid.                   *)
GrownUnclipped(c, e) == c + e.amount

(* The clipped growth of the end of an interval.                           *)
Grown(c, e) == IF c > Limit - e.amount THEN Limit ELSE c + e.amount

InsertedInto(i, e) ==
    IF e.index <= i.first
    THEN IF i.first > Limit - e.amount
         THEN Gone
         ELSE [first |-> i.first + e.amount, last |-> Grown(i.last, e)]
    ELSE IF e.index <= i.last
         THEN [i EXCEPT !.last = Grown(i.last, e)]
         ELSE i

DeletedFrom(i, e) ==
    LET hasBefore == i.first < e.index
        hasAfter  == i.last >= CutEnd(e)
    IN  IF CutEnd(e) <= i.first
        THEN [first |-> i.first - e.amount, last |-> i.last - e.amount]
        ELSE IF e.index > i.last THEN i
        ELSE IF ~hasBefore /\ ~hasAfter THEN Gone
        ELSE [first |-> IF hasBefore THEN i.first ELSE e.index,
              last  |-> IF hasAfter THEN i.last - e.amount ELSE e.index - 1]

TransformInterval(i, e) ==
    IF e.action = "insert" THEN InsertedInto(i, e) ELSE DeletedFrom(i, e)

(* A reference that is already #REF! is no reference any more.             *)
Rewrite(i, e) == IF i = Gone THEN Gone ELSE TransformInterval(i, e)

(* Anchors and freeze panes keep a position instead: a deleted one falls on *)
(* the line that takes its place, one pushed out stays on the last line.   *)
TransformPosition(c, e) ==
    IF e.action = "insert"
    THEN IF c < e.index THEN c ELSE Grown(c, e)
    ELSE IF c >= CutEnd(e) THEN c - e.amount
         ELSE IF c >= e.index THEN e.index
         ELSE c

=============================================================================
