------------------------ MODULE StructuralEditProofs ------------------------
(***************************************************************************)
(* StructuralEdit for every size of the sheet and every number of edits.   *)
(* References and anchors stay on the sheet in every pass, through commits *)
(* and rollbacks; an edit is all or nothing, with everything that refers   *)
(* to the sheet following its lines (the refinement of AtomicEdit); chart  *)
(* points are never stale between edits; and no line moves under a formula *)
(* without a recalculation.                                                *)
(*                                                                         *)
(* Table columns, pivot fields, filter criteria, heights, widths, frozen   *)
(* panes and drawing anchors follow the lines they belong to.              *)
(*                                                                         *)
(* EditInv says what the passes so far have done to the copy of the        *)
(* workbook in the snapshot, ReportInv what the report has counted, and    *)
(* ItemsInv where the items of tables, pivots and lines are; the lemmas    *)
(* before them say what an edit makes of a sheet, line by line.            *)
(***************************************************************************)
EXTENDS StructuralEdit, SequenceTheorems, FiniteSetTheorems, TLAPS

-----------------------------------------------------------------------------
(* The coordinate arithmetic is right for every size of the sheet, every    *)
(* interval and every edit that shiftStructure lets through.                *)

(* A rewritten reference is #REF! or an interval of the sheet, with its    *)
(* ends in order (transformInterval never returns an empty or an            *)
(* overflowing range).                                                     *)
THEOREM IntervalStaysOnSheet ==
    ASSUME NEW e \in Edits, NEW i \in Intervals
    PROVE  TransformInterval(i, e) \in Intervals \cup {Gone}
<1>1. CASE e.action = "insert"
  BY <1>1, LimitAssumption DEF Edits, Intervals, Coordinates, TransformInterval, InsertedInto, Grown
<1>2. CASE e.action = "delete"
  <2> DEFINE t == DeletedFrom(i, e)
  <2>1. CASE CutEnd(e) <= i.first \/ e.index > i.last
    BY <1>2, <2>1, LimitAssumption DEF Edits, Intervals, Coordinates, TransformInterval, DeletedFrom, CutEnd
  <2>2. CASE ~(CutEnd(e) <= i.first) /\ ~(e.index > i.last)
    BY <1>2, <2>2, LimitAssumption DEF Edits, Intervals, Coordinates, TransformInterval, DeletedFrom, CutEnd
  <2> QED BY <2>1, <2>2
<1> QED BY <1>1, <1>2 DEF Edits

(* A line that is still on the sheet after the edit is in the rewritten     *)
(* reference exactly if it was in the reference before: nothing that was   *)
(* referred to is lost, nothing else is taken in.                          *)
THEOREM SurvivorsFollow ==
    ASSUME NEW e \in Edits, NEW i \in Intervals, NEW c \in Coordinates, Survives(c, e)
    PROVE  Spans(i, c) <=> Spans(TransformInterval(i, e), MapCoordinate(c, e))
<1>1. CASE e.action = "insert"
  BY <1>1, LimitAssumption DEF Edits, Intervals, Coordinates, TransformInterval, InsertedInto, Grown,
     Survives, MapCoordinate, Spans, Gone
<1>2. CASE e.action = "delete"
  <2>1. CASE CutEnd(e) <= i.first \/ e.index > i.last
    BY <1>2, <2>1, LimitAssumption DEF Edits, Intervals, Coordinates, TransformInterval, DeletedFrom,
       CutEnd, Survives, MapCoordinate, Spans, Gone
  <2>2. CASE ~(CutEnd(e) <= i.first) /\ ~(e.index > i.last)
    BY <1>2, <2>2, LimitAssumption DEF Edits, Intervals, Coordinates, TransformInterval, DeletedFrom,
       CutEnd, Survives, MapCoordinate, Spans, Gone
  <2> QED BY <2>1, <2>2
<1> QED BY <1>1, <1>2 DEF Edits

(* A reference becomes #REF! only if none of its lines is left.            *)
THEOREM BrokenOnlyWhenNothingIsLeft ==
    ASSUME NEW e \in Edits, NEW i \in Intervals, TransformInterval(i, e) = Gone,
           NEW c \in Coordinates, Spans(i, c)
    PROVE  ~Survives(c, e)
<1>1. SUFFICES ASSUME Survives(c, e) PROVE FALSE
  OBVIOUS
<1>2. Spans(Gone, MapCoordinate(c, e))
  BY <1>1, SurvivorsFollow
<1>3. MapCoordinate(c, e) \in Coordinates
  BY <1>1 DEF Survives
<1> QED BY <1>2, <1>3, LimitAssumption DEF Gone, Spans, Coordinates

(* Surviving lines keep their order, so no two of them meet: shiftStructure *)
(* never drops a cell because its new place is taken.                      *)
THEOREM LinesKeepOrder ==
    ASSUME NEW e \in Edits, NEW c \in Coordinates, NEW d \in Coordinates, c < d,
           Survives(c, e), Survives(d, e)
    PROVE  MapCoordinate(c, e) < MapCoordinate(d, e)
BY LimitAssumption DEF Edits, Coordinates, Survives, MapCoordinate, CutEnd

(* An anchor or a freeze pane stays on the sheet, and on its line as long   *)
(* as that line is there.                                                  *)
THEOREM PositionFollows ==
    ASSUME NEW e \in Edits, NEW c \in Coordinates
    PROVE  /\ TransformPosition(c, e) \in Coordinates
           /\ Survives(c, e) => TransformPosition(c, e) = MapCoordinate(c, e)
BY LimitAssumption DEF Edits, Coordinates, Survives, MapCoordinate, CutEnd, TransformPosition, Grown

(* An anchor never turns inside out.                                       *)
THEOREM PositionsKeepOrder ==
    ASSUME NEW e \in Edits, NEW c \in Coordinates, NEW d \in Coordinates, c <= d
    PROVE  TransformPosition(c, e) <= TransformPosition(d, e)
BY LimitAssumption DEF Edits, Coordinates, CutEnd, TransformPosition, Grown

(* Deleting the lines just inserted gives back every reference that the     *)
(* insertion did not push against the end of the sheet.                    *)
THEOREM DeletionUndoesInsertion ==
    ASSUME NEW i \in Intervals, NEW index \in Coordinates, NEW amount \in Coordinates,
           i.last + amount <= Limit
    PROVE  LET e(action) == [action |-> action, index |-> index, amount |-> amount]
           IN  TransformInterval(TransformInterval(i, e("insert")), e("delete")) = i
<1> DEFINE e(action) == [action |-> action, index |-> index, amount |-> amount]
           j == TransformInterval(i, e("insert"))
<1>0. /\ i.first \in Coordinates /\ i.last \in Coordinates /\ i.first <= i.last
      /\ i = [first |-> i.first, last |-> i.last]
  BY DEF Intervals
<1>1. CASE index <= i.first
  <2>1. j = [first |-> i.first + amount, last |-> i.last + amount]
    BY <1>0, <1>1, LimitAssumption DEF Coordinates, TransformInterval, InsertedInto, Grown
  <2> QED BY <1>0, <1>1, <2>1, LimitAssumption DEF Coordinates, TransformInterval, DeletedFrom, CutEnd
<1>2. CASE i.first < index /\ index <= i.last
  <2>1. j = [first |-> i.first, last |-> i.last + amount]
    BY <1>0, <1>2, LimitAssumption DEF Coordinates, TransformInterval, InsertedInto, Grown
  <2> QED BY <1>0, <1>2, <2>1, LimitAssumption DEF Coordinates, TransformInterval, DeletedFrom, CutEnd
<1>3. CASE i.last < index
  <2>1. j = i
    BY <1>0, <1>3, LimitAssumption DEF Coordinates, TransformInterval, InsertedInto
  <2> QED BY <1>0, <1>3, <2>1, LimitAssumption DEF Coordinates, TransformInterval, DeletedFrom, CutEnd
<1> QED BY <1>0, <1>1, <1>2, <1>3 DEF Coordinates

-----------------------------------------------------------------------------
(* Sheets, passes and edits *)

LEMMA RewriteStays ==
    ASSUME NEW e \in Edits, NEW i \in Intervals \cup {Gone}
    PROVE  Rewrite(i, e) \in Intervals \cup {Gone}
BY IntervalStaysOnSheet DEF Rewrite

LEMMA MergeStays ==
    ASSUME NEW i \in Intervals \cup {Gone}
    PROVE  MergeLeft(i) \in Intervals \cup {Gone}
BY DEF MergeLeft

LEMMA RewrittenStays ==
    ASSUME NEW b, ReferencesOnSheet(b), edit \in Edits, NEW S
    PROVE  Rewritten(b, S) \in [Places -> Intervals \cup {Gone}]
<1>1. ASSUME NEW p \in Places
      PROVE  (IF p \in S THEN Rewrite(b.refs[p], edit) ELSE b.refs[p]) \in Intervals \cup {Gone}
  <2>1. b.refs[p] \in Intervals \cup {Gone}
    BY DEF ReferencesOnSheet
  <2> QED BY <2>1, RewriteStays
<1> QED BY <1>1 DEF Rewritten

(* A pass that only rewrites references keeps them on the sheet.           *)
LEMMA PassStays ==
    ASSUME NEW b, NEW r, ReferencesOnSheet(b), r \in [Places -> Intervals \cup {Gone}]
    PROVE  ReferencesOnSheet([b EXCEPT !.refs = r])
BY DEF ReferencesOnSheet

LEMMA ShiftStays ==
    ASSUME NEW b, ReferencesOnSheet(b), edit \in Edits
    PROVE  ReferencesOnSheet(ShiftedBook(b))
<1> DEFINE grid == ShiftedGrid(b.grid)
           refs == Rewritten(b, LocalPlaces)
           newRefs == [p \in Places |-> IF p \in CellPlaces THEN CellReferences(b, grid)[p]
                                        ELSE IF p = "merge" THEN MergeLeft(refs[p]) ELSE refs[p]]
           anchor == [from |-> TransformPosition(b.anchor.from, edit),
                      to   |-> TransformPosition(b.anchor.to, edit)]
<1>1. refs \in [Places -> Intervals \cup {Gone}]
  BY RewrittenStays
<1>2. newRefs \in [Places -> Intervals \cup {Gone}]
  <2>1. ASSUME NEW p \in CellPlaces
        PROVE  CellReferences(b, grid)[p] \in Intervals \cup {Gone}
    <3>1. b.refs[p] \in Intervals \cup {Gone}
      BY DEF ReferencesOnSheet, CellPlaces, Places, FormulaPlaces
    <3> QED BY <3>1, RewriteStays DEF CellReferences
  <2>2. ASSUME NEW p \in Places
        PROVE  /\ refs[p] \in Intervals \cup {Gone}
               /\ MergeLeft(refs[p]) \in Intervals \cup {Gone}
    BY <1>1, MergeStays
  <2> HIDE DEF refs, grid
  <2> QED BY <2>1, <2>2
<1>3. /\ anchor \in [from : Coordinates, to : Coordinates]
      /\ anchor.from <= anchor.to
  <2>1. /\ b.anchor.from \in Coordinates /\ b.anchor.to \in Coordinates
        /\ b.anchor.from <= b.anchor.to
    BY DEF ReferencesOnSheet
  <2> QED BY <2>1, PositionFollows, PositionsKeepOrder
<1>4. /\ DOMAIN ShiftedBook(b) = DOMAIN b
      /\ ShiftedBook(b).refs = newRefs
      /\ ShiftedBook(b).anchor = anchor
      /\ ShiftedBook(b).pane = MovedPane(b.pane)
  BY DEF ShiftedBook, ReferencesOnSheet
<1>5. MovedPane(b.pane) \in Coordinates
  BY PositionFollows DEF MovedPane, ReferencesOnSheet
<1> HIDE DEF newRefs, anchor
<1> QED BY <1>2, <1>3, <1>4, <1>5 DEF ReferencesOnSheet

LEMMA InitTyped == Init => TypeOK
<1> SUFFICES ASSUME Init PROVE TypeOK
  OBVIOUS
<1>1. PICK i \in Intervals, filled \in BOOLEAN : book = Book(i, filled)
  BY DEF Init
<1>2. ReferencesOnSheet(Book(i, filled))
  <2>1. MergeLeft(i) \in Intervals \cup {Gone}
    BY MergeStays
  <2>2. /\ i.first \in Coordinates /\ i.last \in Coordinates /\ i.first <= i.last
    BY DEF Intervals
  <2> QED BY <2>1, <2>2 DEF Book, ReferencesOnSheet
<1> QED BY <1>1, <1>2, BoundsAssumption DEF Init, TypeOK

LEMMA StepTyped == TypeOK /\ [Next]_vars => TypeOK'
<1> SUFFICES ASSUME TypeOK, [Next]_vars PROVE TypeOK'
  OBVIOUS
<1> USE DEF Running, Goto, Same, Constant
<1>1. ASSUME NEW e \in Edits, NEW s \in Spellings, Begin(e, s) PROVE TypeOK'
  BY <1>1, BoundsAssumption DEF Begin, TypeOK, ReferencesOnSheet
<1>2. CASE ShiftStructure
  <2>1. ReferencesOnSheet(book')
    BY <1>2, ShiftStays DEF ShiftStructure, TypeOK
  <2>2. counted' \subseteq {"formula", "name", "chart", "pivot"}
    BY <1>2 DEF ShiftStructure
  <2> QED BY <1>2, <2>1, <2>2 DEF ShiftStructure, TypeOK, ReferencesOnSheet
<1>3. CASE RewriteFormulas
  <2>1. ReferencesOnSheet(book')
    BY <1>3, PassStays, RewrittenStays DEF RewriteFormulas, TypeOK
  <2> QED BY <1>3, <2>1 DEF RewriteFormulas, Count, TypeOK, ReferencesOnSheet
<1>4. CASE RewriteNames
  <2>1. ReferencesOnSheet(book')
    BY <1>4, PassStays, RewrittenStays DEF RewriteNames, TypeOK
  <2> QED BY <1>4, <2>1 DEF RewriteNames, Count, TypeOK, ReferencesOnSheet
<1>5. CASE RewriteCharts
  <2>1. ReferencesOnSheet(book')
    BY <1>5, PassStays, RewrittenStays DEF RewriteCharts, TypeOK
  <2> QED BY <1>5, <2>1 DEF RewriteCharts, Count, TypeOK, ReferencesOnSheet
<1>6. CASE RewritePivots
  <2>1. ReferencesOnSheet(book')
    <3> DEFINE r == Rewritten(book, {"otherPivot"})
    <3>1. r \in [Places -> Intervals \cup {Gone}]
      BY <1>6, RewrittenStays DEF RewritePivots, TypeOK
    <3>2. /\ DOMAIN book' = DOMAIN book
          /\ book'.refs = r
          /\ book'.anchor = book.anchor
          /\ book'.pane = book.pane
      BY <1>6 DEF RewritePivots, TypeOK, ReferencesOnSheet
    <3> HIDE DEF r
    <3> QED BY <3>1, <3>2 DEF TypeOK, ReferencesOnSheet
  <2> QED BY <1>6, <2>1 DEF RewritePivots, Count, TypeOK, ReferencesOnSheet
<1>7. CASE SynchronizeCaches
  BY <1>7 DEF SynchronizeCaches, TypeOK, ReferencesOnSheet
<1>8. CASE RequestRecalculation
  BY <1>8 DEF RequestRecalculation, TypeOK, ReferencesOnSheet
<1>9. CASE Commit
  BY <1>9 DEF Commit, Done, TypeOK, ReferencesOnSheet
<1>10. CASE Abort
  BY <1>10 DEF Abort, Done, TypeOK, ReferencesOnSheet
<1>11. CASE UNCHANGED vars
  BY <1>11 DEF vars, TypeOK, ReferencesOnSheet
<1> QED BY <1>1, <1>2, <1>3, <1>4, <1>5, <1>6, <1>7, <1>8, <1>9, <1>10, <1>11 DEF Next

(* References and anchors are on the sheet in every state of every          *)
(* structural edit, committed, cancelled or rolled back.                   *)
THEOREM ReferencesStayOnSheet == Spec => []TypeOK
BY InitTyped, StepTyped, PTL DEF Spec

-----------------------------------------------------------------------------
(* The lines of a sheet have identities of their own, all used before.     *)
Grid(g, bound) ==
    /\ g \in [Coordinates -> Nat]
    /\ \A k \in Coordinates : g[k] < bound
    /\ \A k, n \in Coordinates : g[k] = g[n] => k = n

LEMMA CoordinatesAreNumbers ==
    /\ Limit \in Nat /\ Limit >= 1
    /\ \A c \in Coordinates : c \in Nat /\ 1 <= c /\ c <= Limit
    /\ \A e \in Edits : e.index \in Coordinates /\ e.amount \in Coordinates
                        /\ e.action \in {"insert", "delete"}
BY LimitAssumption DEF Coordinates, Edits

LEMMA GridIsSequence ==
    ASSUME NEW g \in [Coordinates -> Nat]
    PROVE  g \in Seq(Nat) /\ Len(g) = Limit
BY LimitAssumption DEF Coordinates

(* Three sequences in one, element by element.                             *)
LEMMA Concatenated ==
    ASSUME NEW s \in Seq(Nat), NEW t \in Seq(Nat), NEW u \in Seq(Nat)
    PROVE  /\ s \o t \o u \in Seq(Nat) /\ Len(s \o t \o u) = Len(s) + Len(t) + Len(u)
           /\ \A k \in 1 .. Len(s) + Len(t) + Len(u) :
                (s \o t \o u)[k] = IF k <= Len(s) THEN s[k]
                                   ELSE IF k <= Len(s) + Len(t) THEN t[k - Len(s)]
                                   ELSE u[k - (Len(s) + Len(t))]
<1> DEFINE v == s \o t
<1>1. /\ v \in Seq(Nat) /\ Len(v) = Len(s) + Len(t)
      /\ \A k \in 1 .. Len(s) + Len(t) : v[k] = IF k <= Len(s) THEN s[k] ELSE t[k - Len(s)]
  BY ConcatProperties
<1> HIDE DEF v
<1> DEFINE w == v \o u
<1>3. /\ w \in Seq(Nat) /\ Len(w) = Len(v) + Len(u)
      /\ \A k \in 1 .. Len(v) + Len(u) : w[k] = IF k <= Len(v) THEN v[k] ELSE u[k - Len(v)]
  <2>1. v \in Seq(Nat)
    BY <1>1
  <2> QED BY <2>1, ConcatProperties, Zenon
<1> HIDE DEF w
<1>4. Len(s) \in Nat /\ Len(t) \in Nat /\ Len(u) \in Nat
  OBVIOUS
<1>5. ASSUME NEW k \in 1 .. Len(s) + Len(t) + Len(u)
  PROVE  w[k] = IF k <= Len(s) THEN s[k]
                ELSE IF k <= Len(s) + Len(t) THEN t[k - Len(s)]
                ELSE u[k - (Len(s) + Len(t))]
  <2>1. w[k] = IF k <= Len(v) THEN v[k] ELSE u[k - Len(v)]
    BY <1>1, <1>3, <1>4
  <2>2. CASE k <= Len(v)
    <3>1. v[k] = IF k <= Len(s) THEN s[k] ELSE t[k - Len(s)]
       BY <1>1, <1>4, <2>2
    <3> QED BY <1>1, <1>4, <2>1, <2>2, <3>1
  <2>3. CASE ~(k <= Len(v))
    BY <1>1, <1>4, <2>1, <2>3
  <2> QED BY <2>2, <2>3
<1> QED BY <1>1, <1>3, <1>4, <1>5 DEF v, w

LEMMA PartOf ==
    ASSUME NEW s \in Seq(Nat), NEW from \in Nat, NEW to \in Nat,
           1 <= from, from <= to + 1, to <= Len(s)
    PROVE  /\ SubSeq(s, from, to) \in Seq(Nat) /\ Len(SubSeq(s, from, to)) = to - from + 1
           /\ \A k \in 1 .. to - from + 1 : SubSeq(s, from, to)[k] = s[from + k - 1]
<1>1. \A i \in from .. to : s[i] \in Nat
  OBVIOUS
<1>2. from \in Int /\ to \in Int
  OBVIOUS
<1> QED BY <1>1, <1>2, SubSeqProperties

(* Lines put into a sheet, the rest moved on past its end.                 *)
Longer(g, index, new) == SubSeq(g, 1, index - 1) \o new \o SubSeq(g, index, Limit)

LEMMA PutLines ==
    ASSUME NEW g \in [Coordinates -> Nat], NEW index \in Coordinates,
           NEW new \in Seq(Nat), NEW m \in Nat, Len(new) = m
    PROVE  /\ Longer(g, index, new) \in Seq(Nat)
           /\ Len(Longer(g, index, new)) = Limit + m
           /\ \A k \in 1 .. Limit + m :
                Longer(g, index, new)[k] = IF k < index THEN g[k]
                                           ELSE IF k < index + m THEN new[k - index + 1]
                                           ELSE g[k - m]
<1> DEFINE left == SubSeq(g, 1, index - 1)
           right == SubSeq(g, index, Limit)
           long == left \o new \o right
<1>1. g \in Seq(Nat) /\ Len(g) = Limit /\ Limit \in Nat /\ index \in Nat /\ 1 <= index /\ index <= Limit
  BY GridIsSequence, CoordinatesAreNumbers
<1> DEFINE a == index - 1
           c == Limit - index + 1
<1>2. a \in Nat /\ c \in Nat /\ a + m + c = Limit + m
  BY <1>1
<1>3. /\ left \in Seq(Nat) /\ Len(left) = a
      /\ \A k \in 1 .. a : left[k] = g[k]
  BY <1>1, PartOf
<1>4. /\ right \in Seq(Nat) /\ Len(right) = c
      /\ \A k \in 1 .. c : right[k] = g[index + k - 1]
  BY <1>1, PartOf
<1> HIDE DEF left, right
<1>5. /\ long \in Seq(Nat) /\ Len(long) = Limit + m
      /\ \A k \in 1 .. Limit + m :
            long[k] = IF k <= a THEN left[k] ELSE IF k <= a + m THEN new[k - a] ELSE right[k - (a + m)]
  <2> HIDE DEF a, c
  <2>1. /\ long \in Seq(Nat) /\ Len(long) = a + m + c
        /\ \A k \in 1 .. a + m + c :
              long[k] = IF k <= a THEN left[k] ELSE IF k <= a + m THEN new[k - a] ELSE right[k - (a + m)]
    <3>1. left \in Seq(Nat) /\ right \in Seq(Nat)
      BY <1>3, <1>4
    <3>2. /\ long \in Seq(Nat) /\ Len(long) = Len(left) + Len(new) + Len(right)
          /\ \A k \in 1 .. Len(left) + Len(new) + Len(right) :
                long[k] = IF k <= Len(left) THEN left[k]
                          ELSE IF k <= Len(left) + Len(new) THEN new[k - Len(left)]
                          ELSE right[k - (Len(left) + Len(new))]
      BY <3>1, Concatenated, Zenon
    <3> HIDE DEF long
    <3> QED BY <1>3, <1>4, <3>2
  <2> HIDE DEF long
  <2> QED BY <1>2, <2>1
<1>6. Longer(g, index, new) = long
  BY DEF Longer, left, right
<1> HIDE DEF long
<1>7. ASSUME NEW k \in 1 .. Limit + m
      PROVE  long[k] = IF k < index THEN g[k]
                       ELSE IF k < index + m THEN new[k - index + 1] ELSE g[k - m]
  <2>1. k \in Nat /\ 1 <= k /\ k <= Limit + m
    BY <1>1
  <2>2. CASE k < index
    <3>1. k <= a /\ k \in 1 .. a
      BY <1>1, <2>1, <2>2
    <3> HIDE DEF a, c
    <3> QED BY <1>3, <1>5, <2>2, <3>1
  <2>3. CASE ~(k < index) /\ k < index + m
    <3>1. ~(k <= a) /\ k <= a + m /\ k - a = k - index + 1
      BY <1>1, <2>1, <2>3
    <3> HIDE DEF a, c
    <3> QED BY <1>5, <2>3, <3>1
  <2>4. CASE ~(k < index) /\ ~(k < index + m)
    <3>1. ~(k <= a) /\ ~(k <= a + m) /\ k - (a + m) \in 1 .. c /\ index + (k - (a + m)) - 1 = k - m
      BY <1>1, <2>1, <2>4
    <3> HIDE DEF a, c
    <3> QED BY <1>4, <1>5, <2>4, <3>1
  <2> QED BY <2>2, <2>3, <2>4
<1> QED BY <1>5, <1>6, <1>7

(* Lines cut out of a sheet, and as many new ones at its end.              *)
Shorter(g, index, m, new) == SubSeq(g, 1, index - 1) \o SubSeq(g, index + m, Limit) \o new

LEMMA CutLines ==
    ASSUME NEW g \in [Coordinates -> Nat], NEW index \in Coordinates,
           NEW new \in Seq(Nat), NEW m \in Nat, Len(new) = m, index + m <= Limit + 1
    PROVE  /\ Shorter(g, index, m, new) \in Seq(Nat)
           /\ Len(Shorter(g, index, m, new)) = Limit
           /\ \A k \in Coordinates :
                Shorter(g, index, m, new)[k] = IF k < index THEN g[k]
                                               ELSE IF k <= Limit - m THEN g[k + m]
                                               ELSE new[k - (Limit - m)]
<1> DEFINE left == SubSeq(g, 1, index - 1)
           right == SubSeq(g, index + m, Limit)
           long == left \o right \o new
<1>1. g \in Seq(Nat) /\ Len(g) = Limit /\ Limit \in Nat /\ index \in Nat /\ 1 <= index /\ index <= Limit
  BY GridIsSequence, CoordinatesAreNumbers
<1> DEFINE a == index - 1
           b == Limit - (index + m) + 1
           from == index + m
<1>2. /\ a \in Nat /\ b \in Nat /\ a + b = Limit - m /\ a + b + m = Limit
      /\ from \in Nat /\ 1 <= from /\ from <= Limit + 1
  BY <1>1
<1>3. /\ left \in Seq(Nat) /\ Len(left) = a
      /\ \A k \in 1 .. a : left[k] = g[k]
  BY <1>1, PartOf
<1>4. /\ right \in Seq(Nat) /\ Len(right) = b
      /\ \A k \in 1 .. b : right[k] = g[from + k - 1]
  <2>1. b = Limit - from + 1
    OBVIOUS
  <2> HIDE DEF from, b
  <2>2. /\ SubSeq(g, from, Limit) \in Seq(Nat) /\ Len(SubSeq(g, from, Limit)) = Limit - from + 1
        /\ \A k \in 1 .. Limit - from + 1 : SubSeq(g, from, Limit)[k] = g[from + k - 1]
    BY <1>1, <1>2, PartOf
  <2> QED BY <2>1, <2>2 DEF from
<1> HIDE DEF left, right
<1>5. /\ long \in Seq(Nat) /\ Len(long) = Limit
      /\ \A k \in 1 .. Limit :
            long[k] = IF k <= a THEN left[k] ELSE IF k <= a + b THEN right[k - a] ELSE new[k - (a + b)]
  <2> HIDE DEF a, b
  <2>1. /\ long \in Seq(Nat) /\ Len(long) = a + b + m
        /\ \A k \in 1 .. a + b + m :
              long[k] = IF k <= a THEN left[k] ELSE IF k <= a + b THEN right[k - a] ELSE new[k - (a + b)]
    <3>1. left \in Seq(Nat) /\ right \in Seq(Nat)
      BY <1>3, <1>4
    <3>2. /\ long \in Seq(Nat) /\ Len(long) = Len(left) + Len(right) + Len(new)
          /\ \A k \in 1 .. Len(left) + Len(right) + Len(new) :
                long[k] = IF k <= Len(left) THEN left[k]
                          ELSE IF k <= Len(left) + Len(right) THEN right[k - Len(left)]
                          ELSE new[k - (Len(left) + Len(right))]
      BY <3>1, Concatenated, Zenon
    <3> HIDE DEF long
    <3> QED BY <1>3, <1>4, <3>2
  <2> HIDE DEF long
  <2> QED BY <1>2, <2>1
<1>6. Shorter(g, index, m, new) = long
  BY DEF Shorter, left, right
<1> HIDE DEF long
<1>7. ASSUME NEW k \in Coordinates
      PROVE  long[k] = IF k < index THEN g[k]
                       ELSE IF k <= Limit - m THEN g[k + m] ELSE new[k - (Limit - m)]
  <2>1. k \in Nat /\ 1 <= k /\ k <= Limit /\ k \in 1 .. Limit
    BY CoordinatesAreNumbers
  <2>2. CASE k < index
    <3>1. k <= a /\ k \in 1 .. a
      BY <1>1, <2>1, <2>2
    <3> HIDE DEF a, b
    <3> QED BY <1>3, <1>5, <2>1, <2>2, <3>1
  <2>3. CASE ~(k < index) /\ k <= Limit - m
    <3>1. ~(k <= a) /\ k <= a + b /\ k - a \in 1 .. b /\ from + (k - a) - 1 = k + m
      BY <1>1, <2>1, <2>3
    <3> HIDE DEF a, b, from
    <3> QED BY <1>4, <1>5, <2>1, <2>3, <3>1
  <2>4. CASE ~(k < index) /\ ~(k <= Limit - m)
    <3>1. ~(k <= a) /\ ~(k <= a + b) /\ k - (a + b) = k - (Limit - m)
      BY <1>1, <1>2, <2>1, <2>4
    <3> HIDE DEF a, b
    <3> QED BY <1>5, <2>1, <2>4, <3>1
  <2> QED BY <2>2, <2>3, <2>4
<1> QED BY <1>5, <1>6, <1>7

(* The lines an edit takes off the sheet.                                  *)
LEMMA LastCutOnSheet ==
    ASSUME edit \in Edits
    PROVE  /\ LastCut \in edit.index .. Limit
           /\ LastCut - edit.index + 1 \in 1 .. edit.amount
           /\ LastCut - edit.index + 1 = edit.amount \/ LastCut = Limit
           /\ LastCut < CutEnd(edit)
BY CoordinatesAreNumbers DEF LastCut, CutEnd, Coordinates

LEMMA NewLinesAre ==
    ASSUME edit \in Edits, fresh \in Nat
    PROVE  /\ NewLines \in Seq(Nat) /\ Len(NewLines) = edit.amount /\ edit.amount \in Nat
           /\ \A n \in 1 .. edit.amount : NewLines[n] = fresh + n - 1
<1>1. edit.amount \in Nat /\ \A n \in 1 .. edit.amount : fresh + n - 1 \in Nat
  BY CoordinatesAreNumbers
<1> QED BY <1>1 DEF NewLines

(* The first lines of a longer sequence are a sheet.                       *)
LEMMA FirstLines ==
    ASSUME NEW long \in Seq(Nat), Len(long) >= Limit
    PROVE  /\ SubSeq(long, 1, Limit) \in [Coordinates -> Nat]
           /\ \A k \in Coordinates : SubSeq(long, 1, Limit)[k] = long[k]
<1>1. Limit \in Nat
  BY CoordinatesAreNumbers
<1> DEFINE s == SubSeq(long, 1, Limit)
<1>2. s \in Seq(Nat) /\ Len(s) = Limit - 1 + 1 /\ \A k \in 1 .. Limit - 1 + 1 : s[k] = long[1 + k - 1]
  BY <1>1, PartOf
<1> HIDE DEF s
<1>3. s \in [1 .. Limit -> Nat] /\ \A k \in 1 .. Limit : s[k] = long[k]
  BY <1>1, <1>2
<1> QED BY <1>3 DEF s, Coordinates

LEMMA InsertedGrid ==
    ASSUME edit \in Edits, edit.action = "insert", fresh \in Nat, NEW g \in [Coordinates -> Nat]
    PROVE  /\ ShiftedGrid(g) \in [Coordinates -> Nat]
           /\ \A k \in Coordinates :
                ShiftedGrid(g)[k] = IF k < edit.index THEN g[k]
                                    ELSE IF k < edit.index + edit.amount THEN fresh + (k - edit.index)
                                    ELSE g[k - edit.amount]
<1> DEFINE index == edit.index
           amount == edit.amount
           long == Longer(g, index, NewLines)
<1>1. index \in Coordinates /\ amount \in Nat /\ index \in Nat /\ Limit \in Nat
  BY CoordinatesAreNumbers
<1>2. /\ NewLines \in Seq(Nat) /\ Len(NewLines) = amount
      /\ \A n \in 1 .. amount : NewLines[n] = fresh + n - 1
  BY NewLinesAre
<1>3. ShiftedGrid(g) = SubSeq(long, 1, Limit)
  BY GridIsSequence DEF ShiftedGrid, Put, Longer
<1> HIDE DEF index, amount
<1>4. /\ long \in Seq(Nat) /\ Len(long) = Limit + amount
      /\ \A k \in 1 .. Limit + amount :
            long[k] = IF k < index THEN g[k]
                      ELSE IF k < index + amount THEN NewLines[k - index + 1] ELSE g[k - amount]
  BY <1>1, <1>2, PutLines, ZenonT(60)
<1> HIDE DEF long
<1>5. /\ SubSeq(long, 1, Limit) \in [Coordinates -> Nat]
      /\ \A k \in Coordinates : SubSeq(long, 1, Limit)[k] = long[k]
  <2>1. Len(long) >= Limit
    BY <1>1, <1>4
  <2> QED BY <1>4, <2>1, FirstLines
<1>6. ASSUME NEW k \in Coordinates
      PROVE  long[k] = IF k < index THEN g[k]
                       ELSE IF k < index + amount THEN fresh + (k - index) ELSE g[k - amount]
  <2>1. k \in Nat /\ k \in 1 .. Limit + amount
    BY <1>1, CoordinatesAreNumbers
  <2>2. long[k] = IF k < index THEN g[k]
                  ELSE IF k < index + amount THEN NewLines[k - index + 1] ELSE g[k - amount]
    BY <1>4, <2>1
  <2>3. CASE ~(k < index) /\ k < index + amount
    <3>1. k - index + 1 \in 1 .. amount /\ fresh + (k - index + 1) - 1 = fresh + (k - index)
      BY <1>1, <2>1, <2>3
    <3> QED BY <1>2, <2>2, <2>3, <3>1
  <2> QED BY <2>2, <2>3
<1>7. \A k \in Coordinates : ShiftedGrid(g)[k] = long[k]
  BY <1>3, <1>5
<1>8. ShiftedGrid(g) \in [Coordinates -> Nat]
  BY <1>3, <1>5
<1> QED BY <1>6, <1>7, <1>8 DEF index, amount

LEMMA DeletedGrid ==
    ASSUME edit \in Edits, edit.action = "delete", fresh \in Nat, NEW g \in [Coordinates -> Nat],
           NEW lost, lost = LastCut - edit.index + 1
    PROVE  /\ ShiftedGrid(g) \in [Coordinates -> Nat]
           /\ \A k \in Coordinates :
                ShiftedGrid(g)[k] = IF k < edit.index THEN g[k]
                                    ELSE IF k <= Limit - lost THEN g[k + lost]
                                    ELSE fresh + (k - (Limit - lost)) - 1
<1> DEFINE index == edit.index
           amount == edit.amount
           new == SubSeq(NewLines, 1, lost)
           short == Shorter(g, index, lost, new)
<1>1. /\ index \in Coordinates /\ index \in Nat /\ amount \in Nat /\ Limit \in Nat
      /\ lost \in Nat /\ 1 <= lost /\ lost <= amount /\ index + lost <= Limit + 1
      /\ index + lost = LastCut + 1
  BY CoordinatesAreNumbers, LastCutOnSheet
<1>2. /\ NewLines \in Seq(Nat) /\ Len(NewLines) = amount
      /\ \A n \in 1 .. amount : NewLines[n] = fresh + n - 1
  BY NewLinesAre
<1>3. ShiftedGrid(g) = short
  BY <1>1, GridIsSequence DEF ShiftedGrid, Cut, Shorter
<1> HIDE DEF index, amount
<1>4. /\ new \in Seq(Nat) /\ Len(new) = lost
      /\ \A n \in 1 .. lost : new[n] = fresh + n - 1
  <2>1. /\ new \in Seq(Nat) /\ Len(new) = lost - 1 + 1
        /\ \A n \in 1 .. lost - 1 + 1 : new[n] = NewLines[1 + n - 1]
    <3>1. lost \in Nat /\ 1 \in Nat /\ 1 <= lost + 1 /\ lost <= Len(NewLines)
      BY <1>1, <1>2
    <3> QED BY <1>2, <3>1, PartOf
  <2> HIDE DEF new
  <2>2. Len(new) = lost
    BY <1>1, <2>1
  <2>3. ASSUME NEW n \in 1 .. lost PROVE new[n] = fresh + n - 1
    <3>1. n \in 1 .. lost - 1 + 1 /\ 1 + n - 1 = n /\ n \in 1 .. amount
      BY <1>1
    <3> QED BY <1>2, <2>1, <3>1
  <2> QED BY <2>1, <2>2, <2>3
<1> HIDE DEF new
<1>5. /\ short \in Seq(Nat) /\ Len(short) = Limit
      /\ \A k \in Coordinates :
            short[k] = IF k < index THEN g[k]
                       ELSE IF k <= Limit - lost THEN g[k + lost] ELSE new[k - (Limit - lost)]
  BY <1>1, <1>4, CutLines, ZenonT(60)
<1> HIDE DEF short
<1>6. ASSUME NEW k \in Coordinates, ~(k <= Limit - lost)
      PROVE  new[k - (Limit - lost)] = fresh + (k - (Limit - lost)) - 1
  <2>1. k - (Limit - lost) \in 1 .. lost
    BY <1>1, <1>6, CoordinatesAreNumbers
  <2> QED BY <1>4, <2>1
<1>7. short \in [Coordinates -> Nat]
  <2>1. short \in [1 .. Limit -> Nat]
    BY <1>5
  <2> QED BY <2>1 DEF Coordinates
<1> QED BY <1>3, <1>5, <1>6, <1>7 DEF index

(* The new lines that an insertion finds room for end here.                *)
FitEnd == IF edit.index + edit.amount - 1 <= Limit THEN edit.index + edit.amount - 1 ELSE Limit

(* The lines after the edit before the sheet is cut to its size.           *)
LongGrid(g) ==
    IF edit.action = "insert"
    THEN Longer(g, edit.index, SubSeq(ShiftedGrid(g), edit.index, FitEnd))
    ELSE LET lost == LastCut - edit.index + 1
         IN  Shorter(g, edit.index, lost, SubSeq(ShiftedGrid(g), Limit - lost + 1, Limit))

LEMMA InsertedLong ==
    ASSUME edit \in Edits, edit.action = "insert", fresh \in Nat, NEW g \in [Coordinates -> Nat],
           NEW fit, fit = FitEnd - edit.index + 1
    PROVE  /\ LongGrid(g) \in Seq(Nat) /\ Len(LongGrid(g)) = Limit + fit
           /\ \A k \in 1 .. Limit + fit :
                LongGrid(g)[k] = IF k < edit.index THEN g[k]
                                 ELSE IF k < edit.index + fit THEN fresh + (k - edit.index)
                                 ELSE g[k - fit]
<1> DEFINE index == edit.index
           amount == edit.amount
           h == ShiftedGrid(g)
           last == FitEnd
           new == SubSeq(h, index, last)
           long == Longer(g, index, new)
<1>1. /\ index \in Coordinates /\ index \in Nat /\ amount \in Nat /\ Limit \in Nat /\ last \in Nat
      /\ 1 <= index /\ index <= last /\ last <= Limit /\ fit \in Nat /\ fit <= amount /\ fit = last - index + 1
  BY CoordinatesAreNumbers DEF FitEnd
<1>2. /\ h \in [Coordinates -> Nat]
      /\ \A k \in Coordinates : h[k] = IF k < index THEN g[k]
                                       ELSE IF k < index + amount THEN fresh + (k - index)
                                       ELSE g[k - amount]
  BY InsertedGrid
<1>3. LongGrid(g) = long
  BY DEF LongGrid
<1> HIDE DEF index, amount, h, last
<1>4. /\ new \in Seq(Nat) /\ Len(new) = fit
      /\ \A n \in 1 .. fit : new[n] = fresh + n - 1
  <2>1. h \in Seq(Nat) /\ Len(h) = Limit
    BY <1>2, GridIsSequence
  <2>2. /\ new \in Seq(Nat) /\ Len(new) = last - index + 1
        /\ \A n \in 1 .. last - index + 1 : new[n] = h[index + n - 1]
    <3>1. index <= last + 1 /\ last <= Len(h)
      BY <1>1, <2>1
    <3> QED BY <1>1, <2>1, <3>1, PartOf
  <2> HIDE DEF new
  <2>3. ASSUME NEW n \in 1 .. fit PROVE new[n] = fresh + n - 1
    <3> DEFINE k == index + n - 1
    <3>1. /\ n \in 1 .. last - index + 1 /\ k \in Coordinates /\ ~(k < index)
          /\ k < index + amount /\ fresh + (k - index) = fresh + n - 1
      BY <1>1 DEF Coordinates
    <3>2. new[n] = h[k]
      BY <2>2, <3>1
    <3> HIDE DEF k
    <3>3. h[k] = fresh + (k - index)
      BY <1>2, <3>1
    <3> QED BY <3>1, <3>2, <3>3
  <2> QED BY <1>1, <2>2, <2>3
<1> HIDE DEF new
<1>5. /\ long \in Seq(Nat) /\ Len(long) = Limit + fit
      /\ \A k \in 1 .. Limit + fit :
            long[k] = IF k < index THEN g[k]
                      ELSE IF k < index + fit THEN new[k - index + 1] ELSE g[k - fit]
  BY <1>1, <1>4, PutLines, ZenonT(60)
<1> HIDE DEF long
<1>6. ASSUME NEW k \in 1 .. Limit + fit, ~(k < index), k < index + fit
      PROVE  new[k - index + 1] = fresh + (k - index)
  <2>1. k - index + 1 \in 1 .. fit /\ fresh + (k - index + 1) - 1 = fresh + (k - index)
    BY <1>1, <1>6
  <2> QED BY <1>4, <2>1
<1> QED BY <1>3, <1>5, <1>6 DEF index

LEMMA DeletedLong ==
    ASSUME edit \in Edits, edit.action = "delete", fresh \in Nat, NEW g \in [Coordinates -> Nat]
    PROVE  /\ LongGrid(g) \in Seq(Nat) /\ Len(LongGrid(g)) = Limit
           /\ \A k \in Coordinates : LongGrid(g)[k] = ShiftedGrid(g)[k]
<1> DEFINE index == edit.index
           lost == LastCut - index + 1
           h == ShiftedGrid(g)
           from == Limit - lost + 1
           new == SubSeq(h, from, Limit)
           short == Shorter(g, index, lost, new)
<1>1. /\ index \in Coordinates /\ index \in Nat /\ 1 <= index /\ Limit \in Nat /\ lost \in Nat
      /\ index + lost <= Limit + 1 /\ from \in Nat /\ 1 <= from /\ from <= Limit + 1
      /\ Limit - from + 1 = lost /\ from = Limit - lost + 1
  BY CoordinatesAreNumbers, LastCutOnSheet
<1>2. /\ h \in [Coordinates -> Nat]
      /\ \A k \in Coordinates : h[k] = IF k < index THEN g[k]
                                       ELSE IF k <= Limit - lost THEN g[k + lost]
                                       ELSE fresh + (k - (Limit - lost)) - 1
  BY DeletedGrid
<1>3. LongGrid(g) = short
  BY DEF LongGrid
<1> HIDE DEF index, lost, h, from
<1>4. /\ new \in Seq(Nat) /\ Len(new) = lost
      /\ \A n \in 1 .. lost : new[n] = h[from + n - 1]
  <2>1. h \in Seq(Nat) /\ Len(h) = Limit
    BY <1>2, GridIsSequence
  <2>2. /\ new \in Seq(Nat) /\ Len(new) = Limit - from + 1
        /\ \A n \in 1 .. Limit - from + 1 : new[n] = h[from + n - 1]
    <3>1. Limit <= Len(h)
      BY <1>1, <2>1
    <3> QED BY <1>1, <2>1, <3>1, PartOf
  <2> HIDE DEF new
  <2> QED BY <1>1, <2>2
<1> HIDE DEF new
<1>5. /\ short \in Seq(Nat) /\ Len(short) = Limit
      /\ \A k \in Coordinates :
            short[k] = IF k < index THEN g[k]
                       ELSE IF k <= Limit - lost THEN g[k + lost] ELSE new[k - (Limit - lost)]
  BY <1>1, <1>4, CutLines, ZenonT(60)
<1> HIDE DEF short
<1>6. ASSUME NEW k \in Coordinates, ~(k <= Limit - lost)
      PROVE  new[k - (Limit - lost)] = h[k]
  <2>1. k - (Limit - lost) \in 1 .. lost /\ from + (k - (Limit - lost)) - 1 = k
    BY <1>1, <1>6, CoordinatesAreNumbers
  <2> QED BY <1>4, <2>1
<1>7. ASSUME NEW k \in Coordinates PROVE short[k] = h[k]
  BY <1>1, <1>2, <1>5, <1>6, CoordinatesAreNumbers, ZenonT(60)
<1> QED BY <1>3, <1>5, <1>7 DEF h

-----------------------------------------------------------------------------
(* The lines of g that interval i spans.                                   *)
SpannedLines(g, i) == {g[k] : k \in {n \in Coordinates : Spans(i, n)}}

LEMMA CoveredIsSpanned ==
    ASSUME NEW b, NEW p PROVE Covered(b, p) = SpannedLines(b.grid, b.refs[p])
BY DEF Covered, SpannedLines

(* The lines of s in long are all different and lie from first to last.    *)
Outermost(long, s, first, last) ==
    /\ long \in Seq(Nat) /\ Len(long) >= Limit
    /\ \A k, n \in 1 .. Len(long) : long[k] = long[n] => k = n
    /\ first \in 1 .. Len(long) /\ last \in 1 .. Len(long)
    /\ long[first] \in s /\ long[last] \in s
    /\ \A a \in 1 .. Len(long) : long[a] \in s => first <= a /\ a <= last

(* Then the abstract edit leaves of s what is between them on the sheet.   *)
LEMMA HullIsInterval ==
    ASSUME NEW long, NEW s, NEW first, NEW last, Outermost(long, s, first, last)
    PROVE  \A x : x \in Atomic!Hull(s, long) \cap Atomic!Lines(SubSeq(long, 1, Limit))
                  <=> \E n \in Coordinates : first <= n /\ n <= last /\ x = long[n]
<1> USE DEF Outermost
<1> DEFINE short == SubSeq(long, 1, Limit)
<1>1. short \in [Coordinates -> Nat] /\ \A k \in Coordinates : short[k] = long[k]
  BY FirstLines
<1>2. Len(short) = Limit
  BY <1>1, GridIsSequence
<1> HIDE DEF short
<1>3. Atomic!Lines(short) = {long[k] : k \in Coordinates}
  BY <1>1, <1>2 DEF Atomic!Lines, Coordinates
<1>4. Atomic!Hull(s, long) = {long[k] : k \in {n \in 1 .. Len(long) : first <= n /\ n <= last}}
  <2>1. \A n \in 1 .. Len(long) :
          (\E a, b \in 1 .. Len(long) : a <= n /\ n <= b /\ long[a] \in s /\ long[b] \in s)
            <=> first <= n /\ n <= last
    OBVIOUS
  <2> QED BY <2>1 DEF Atomic!Hull
<1>5. Coordinates \subseteq 1 .. Len(long)
  BY CoordinatesAreNumbers
<1> QED BY <1>3, <1>4, <1>5 DEF short

LEMMA HullOfNothing ==
    ASSUME NEW long, NEW s, \A a \in 1 .. Len(long) : long[a] \notin s
    PROVE  Atomic!Hull(s, long) = {}
BY DEF Atomic!Hull

(* After an insertion each interval spans the abstract hull of its lines.  *)
LEMMA FollowsInsertion ==
    ASSUME edit \in Edits, edit.action = "insert", fresh \in Nat, NEW g, Grid(g, fresh)
    PROVE  /\ \A k \in Coordinates : LongGrid(g)[k] = ShiftedGrid(g)[k]
           /\ \A c \in Coordinates : \E a \in 1 .. Len(LongGrid(g)) : LongGrid(g)[a] = g[c]
           /\ \A k, n \in 1 .. Len(LongGrid(g)) : LongGrid(g)[k] = LongGrid(g)[n] => k = n
           /\ \A i \in Intervals :
                Atomic!Hull(SpannedLines(g, i), LongGrid(g))
                    \cap Atomic!Lines(SubSeq(LongGrid(g), 1, Limit))
                  = SpannedLines(ShiftedGrid(g), Rewrite(i, edit))
<1> DEFINE index == edit.index
           amount == edit.amount
           fit == FitEnd - index + 1
           h == ShiftedGrid(g)
           long == LongGrid(g)
           At(c) == IF c < index THEN c ELSE c + fit
<1>1. /\ g \in [Coordinates -> Nat] /\ \A c \in Coordinates : g[c] \in Nat /\ g[c] < fresh
      /\ \A c, d \in Coordinates : g[c] = g[d] => c = d
  BY DEF Grid
<1>2. /\ index \in Coordinates /\ index \in Nat /\ amount \in Nat /\ amount >= 1 /\ Limit \in Nat
      /\ fit \in Nat /\ fit >= 1 /\ fit <= amount /\ index + fit - 1 <= Limit
      /\ fit = amount \/ index + fit - 1 = Limit
  BY CoordinatesAreNumbers DEF FitEnd
<1>3. /\ h \in [Coordinates -> Nat]
      /\ \A k \in Coordinates : h[k] = IF k < index THEN g[k]
                                       ELSE IF k < index + amount THEN fresh + (k - index)
                                       ELSE g[k - amount]
  BY <1>1, InsertedGrid
<1>4. /\ long \in Seq(Nat) /\ Len(long) = Limit + fit
      /\ \A k \in 1 .. Limit + fit :
            long[k] = IF k < index THEN g[k]
                      ELSE IF k < index + fit THEN fresh + (k - index) ELSE g[k - fit]
  BY <1>1, InsertedLong
<1> HIDE DEF index, amount, fit, h, long
<1>5. ASSUME NEW k \in Coordinates PROVE long[k] = h[k]
  <2>1. k \in Nat /\ 1 <= k /\ k <= Limit /\ k \in 1 .. Limit + fit
    BY <1>2, CoordinatesAreNumbers
  <2>2. long[k] = IF k < index THEN g[k]
                  ELSE IF k < index + fit THEN fresh + (k - index) ELSE g[k - fit]
    BY <1>4, <2>1
  <2>3. h[k] = IF k < index THEN g[k]
               ELSE IF k < index + amount THEN fresh + (k - index) ELSE g[k - amount]
    BY <1>3
  <2>4. ~(k < index + fit) => fit = amount
    BY <1>2, <2>1
  <2>5. k < index + fit => k < index + amount
    BY <1>2, <2>1
  <2> HIDE DEF long
  <2> QED BY <2>2, <2>3, <2>4, <2>5
<1>6. ASSUME NEW k \in 1 .. Limit + fit, NEW n \in 1 .. Limit + fit, long[k] = long[n]
      PROVE  k = n
  <2>1. \A j \in 1 .. Limit + fit : /\ j \in Nat
                                    /\ j < index => j \in Coordinates
                                    /\ ~(j < index + fit) => j - fit \in Coordinates
    BY <1>2 DEF Coordinates
  <2>2. \A j \in 1 .. Limit + fit :
           IF j < index THEN long[j] = g[j] /\ long[j] < fresh
           ELSE IF j < index + fit THEN long[j] = fresh + (j - index) /\ ~(long[j] < fresh)
           ELSE long[j] = g[j - fit] /\ long[j] < fresh
    BY <1>1, <1>2, <1>4, <2>1, SMTT(30)
  <2>3. CASE k < index
    BY <1>1, <1>2, <1>6, <2>1, <2>2, <2>3
  <2>4. CASE ~(k < index) /\ k < index + fit
    BY <1>2, <1>6, <2>1, <2>2, <2>4
  <2>5. CASE ~(k < index + fit)
    BY <1>1, <1>2, <1>6, <2>1, <2>2, <2>5
  <2> QED BY <2>3, <2>4, <2>5
<1>7. ASSUME NEW c \in Coordinates PROVE At(c) \in 1 .. Limit + fit /\ long[At(c)] = g[c]
  <2>1. c \in Nat /\ 1 <= c /\ c <= Limit
    BY CoordinatesAreNumbers
  <2>2. CASE c < index
    BY <1>2, <1>4, <2>1, <2>2
  <2>3. CASE ~(c < index)
    <3> DEFINE k == c + fit
    <3>1. At(c) = k /\ k \in 1 .. Limit + fit /\ ~(k < index) /\ ~(k < index + fit) /\ k - fit = c
      BY <1>2, <2>1, <2>3
    <3> HIDE DEF k, At
    <3> QED BY <1>4, <3>1
  <2> QED BY <2>2, <2>3
<1>8. ASSUME NEW i \in Intervals
      PROVE  Atomic!Hull(SpannedLines(g, i), long) \cap Atomic!Lines(SubSeq(long, 1, Limit))
                = SpannedLines(h, Rewrite(i, edit))
  <2>1. /\ i.first \in Coordinates /\ i.last \in Coordinates /\ i.first <= i.last /\ i # Gone
        /\ i.first \in Nat /\ i.last \in Nat
    BY CoordinatesAreNumbers DEF Intervals, Gone
  <2>2. g[i.first] \in SpannedLines(g, i) /\ g[i.last] \in SpannedLines(g, i)
    BY <2>1 DEF SpannedLines, Spans
  <2>3. ASSUME NEW a \in 1 .. Limit + fit, long[a] \in SpannedLines(g, i)
        PROVE  At(i.first) <= a /\ a <= At(i.last)
    <3>1. PICK c \in Coordinates : i.first <= c /\ c <= i.last /\ long[a] = g[c]
      BY <2>3 DEF SpannedLines, Spans
    <3>2. a = At(c)
      <4>1. At(c) \in 1 .. Limit + fit /\ long[At(c)] = g[c]
        BY <1>7
      <4> HIDE DEF At
      <4> QED BY <1>6, <3>1, <4>1
    <3>3. c \in Nat
      BY CoordinatesAreNumbers
    <3> QED BY <1>2, <2>1, <3>1, <3>2, <3>3
  <2> DEFINE first == At(i.first)
             last == At(i.last)
  <2>4. /\ first \in 1 .. Limit + fit /\ long[first] = g[i.first]
        /\ last \in 1 .. Limit + fit /\ long[last] = g[i.last]
        /\ \A a \in 1 .. Limit + fit : long[a] \in SpannedLines(g, i) => first <= a /\ a <= last
    BY <1>7, <2>1, <2>3
  <2>5. ASSUME NEW n \in Coordinates
        PROVE  first <= n /\ n <= last <=> Spans(Rewrite(i, edit), n)
    BY <1>2, <2>1, CoordinatesAreNumbers
       DEF Rewrite, TransformInterval, InsertedInto, Grown, Spans, Gone, index, amount, Intervals
  <2> HIDE DEF first, last
  <2>6. \A x : x \in Atomic!Hull(SpannedLines(g, i), long) \cap Atomic!Lines(SubSeq(long, 1, Limit))
               <=> \E n \in Coordinates : first <= n /\ n <= last /\ x = long[n]
    <3>1. /\ long \in Seq(Nat) /\ Len(long) >= Limit
          /\ first \in 1 .. Len(long) /\ last \in 1 .. Len(long)
      BY <1>2, <1>4, <2>4
    <3>2. \A k, n \in 1 .. Len(long) : long[k] = long[n] => k = n
      BY <1>4, <1>6
    <3>3. \A a \in 1 .. Len(long) : long[a] \in SpannedLines(g, i) => first <= a /\ a <= last
      BY <1>4, <2>4
    <3>4. long[first] \in SpannedLines(g, i) /\ long[last] \in SpannedLines(g, i)
      BY <2>2, <2>4
    <3>5. Outermost(long, SpannedLines(g, i), first, last)
      BY <3>1, <3>2, <3>3, <3>4 DEF Outermost
    <3> QED BY <3>5, HullIsInterval
  <2> QED BY <1>5, <2>5, <2>6 DEF SpannedLines
<1> QED BY <1>4, <1>5, <1>6, <1>7, <1>8 DEF long, h

(* After a deletion each interval spans the abstract hull of its lines.    *)
LEMMA FollowsDeletion ==
    ASSUME edit \in Edits, edit.action = "delete", fresh \in Nat, NEW g, Grid(g, fresh)
    PROVE  /\ \A k \in Coordinates : LongGrid(g)[k] = ShiftedGrid(g)[k]
           /\ \A k, n \in Coordinates : LongGrid(g)[k] = LongGrid(g)[n] => k = n
           /\ \A i \in Intervals :
                Atomic!Hull(SpannedLines(g, i), LongGrid(g))
                    \cap Atomic!Lines(SubSeq(LongGrid(g), 1, Limit))
                  = SpannedLines(ShiftedGrid(g), Rewrite(i, edit))
<1> DEFINE index == edit.index
           amount == edit.amount
           lost == LastCut - index + 1
           h == ShiftedGrid(g)
           long == LongGrid(g)
<1>1. /\ g \in [Coordinates -> Nat] /\ \A c \in Coordinates : g[c] \in Nat /\ g[c] < fresh
      /\ \A c, d \in Coordinates : g[c] = g[d] => c = d
  BY DEF Grid
<1>2. /\ index \in Coordinates /\ index \in Nat /\ index >= 1 /\ amount \in Nat /\ amount >= 1
      /\ Limit \in Nat /\ lost \in Nat /\ lost >= 1 /\ lost <= amount /\ index + lost <= Limit + 1
      /\ lost = amount \/ index + lost = Limit + 1
  BY CoordinatesAreNumbers, LastCutOnSheet
<1>3. /\ h \in [Coordinates -> Nat]
      /\ \A k \in Coordinates : h[k] = IF k < index THEN g[k]
                                       ELSE IF k <= Limit - lost THEN g[k + lost]
                                       ELSE fresh + (k - (Limit - lost)) - 1
  BY <1>1, DeletedGrid
<1>4. long \in Seq(Nat) /\ Len(long) = Limit /\ \A k \in Coordinates : long[k] = h[k]
  BY <1>1, DeletedLong
<1> HIDE DEF index, amount, lost, h, long
<1>5. ASSUME NEW k \in Coordinates
      PROVE  IF k < index THEN long[k] = g[k] /\ long[k] < fresh
             ELSE IF k <= Limit - lost THEN k + lost \in Coordinates /\ long[k] = g[k + lost] /\ long[k] < fresh
             ELSE long[k] = fresh + (k - (Limit - lost)) - 1 /\ ~(long[k] < fresh)
  <2>1. k \in Nat /\ 1 <= k /\ k <= Limit
    BY CoordinatesAreNumbers
  <2>2. k <= Limit - lost => k + lost \in Coordinates
    BY <1>2, <2>1 DEF Coordinates
  <2>3. ~(k <= Limit - lost) => ~(fresh + (k - (Limit - lost)) - 1 < fresh)
    BY <1>2, <2>1
  <2>4. k < index => k <= Limit - lost
    BY <1>2, <2>1
  <2> QED BY <1>1, <1>3, <1>4, <2>2, <2>3, <2>4
<1>6. ASSUME NEW k \in Coordinates, NEW n \in Coordinates, long[k] = long[n]
      PROVE  k = n
  <2>1. k \in Nat /\ n \in Nat
    BY CoordinatesAreNumbers
  <2>2. CASE k < index
    BY <1>1, <1>2, <1>5, <1>6, <2>1, <2>2
  <2>3. CASE ~(k < index) /\ k <= Limit - lost
    BY <1>1, <1>2, <1>5, <1>6, <2>1, <2>3
  <2>4. CASE ~(k < index) /\ ~(k <= Limit - lost)
    <3>1. long[k] = fresh + (k - (Limit - lost)) - 1 /\ ~(long[k] < fresh)
      BY <1>5, <2>4
    <3>2. ~(n < index) /\ ~(n <= Limit - lost)
      BY <1>5, <1>6, <3>1
    <3>3. long[n] = fresh + (n - (Limit - lost)) - 1
      BY <1>5, <3>2
    <3> DEFINE kept == Limit - lost
    <3>4. kept \in Int
      BY <1>2
    <3>5. long[k] = fresh + (k - kept) - 1 /\ long[n] = fresh + (n - kept) - 1
      BY <3>1, <3>3
    <3> HIDE DEF kept
    <3>6. fresh + (k - kept) - 1 = fresh + (n - kept) - 1
      BY <1>6, <3>5
    <3> QED BY <2>1, <3>4, <3>6
  <2> QED BY <2>2, <2>3, <2>4
<1>7. ASSUME NEW i \in Intervals
      PROVE  Atomic!Hull(SpannedLines(g, i), long) \cap Atomic!Lines(SubSeq(long, 1, Limit))
                = SpannedLines(h, Rewrite(i, edit))
  <2> DEFINE j == Rewrite(i, edit)
             s == SpannedLines(g, i)
  <2>1. /\ i.first \in Nat /\ i.last \in Nat /\ i.first <= i.last /\ i # Gone
        /\ 1 <= i.first /\ i.last <= Limit
    BY CoordinatesAreNumbers DEF Intervals, Gone
  <2>2. j \in Intervals \cup {Gone}
    BY RewriteStays
  <2>3. \A c \in Coordinates : g[c] \in s <=> Spans(i, c)
    BY <1>1 DEF SpannedLines
  <2>4. \A x : x \in s => x < fresh
    BY <1>1 DEF SpannedLines
  <2>5. ASSUME NEW a \in Coordinates
        PROVE  /\ a < index => (Spans(i, a) <=> Spans(j, a))
               /\ ~(a < index) /\ a <= Limit - lost => (Spans(i, a + lost) <=> Spans(j, a))
               /\ ~(a <= Limit - lost) => ~Spans(j, a)
    BY <1>2, <2>1, CoordinatesAreNumbers
       DEF Rewrite, TransformInterval, DeletedFrom, CutEnd, Spans, Gone, index, amount
  <2> HIDE DEF j, s
  <2>6. ASSUME NEW a \in Coordinates PROVE long[a] \in s <=> Spans(j, a)
    <3>1. a < index => a <= Limit - lost
      BY <1>2, CoordinatesAreNumbers
    <3> QED BY <1>5, <2>3, <2>4, <2>5, <3>1
  <2>7. CASE j = Gone
    <3>1. \A n \in Coordinates : ~Spans(j, n)
      BY <2>7, CoordinatesAreNumbers DEF Spans, Gone
    <3>2. Atomic!Hull(s, long) = {}
      <4>1. \A a \in 1 .. Len(long) : long[a] \notin s
        BY <1>4, <2>6, <3>1 DEF Coordinates
      <4> QED BY <4>1, HullOfNothing
    <3> QED BY <3>1, <3>2 DEF SpannedLines, s, j
  <2>8. CASE j \in Intervals
    <3>1. j.first \in Coordinates /\ j.last \in Coordinates /\ Spans(j, j.first) /\ Spans(j, j.last)
      BY <2>8, CoordinatesAreNumbers DEF Intervals, Spans
    <3>2. Outermost(long, s, j.first, j.last)
      <4>1. 1 .. Len(long) = Coordinates /\ Len(long) >= Limit
        BY <1>2, <1>4 DEF Coordinates
      <4> QED BY <1>4, <1>6, <2>6, <3>1, <4>1 DEF Outermost, Spans
    <3>3. \A x : x \in Atomic!Hull(s, long) \cap Atomic!Lines(SubSeq(long, 1, Limit))
                   <=> \E n \in Coordinates : j.first <= n /\ n <= j.last /\ x = long[n]
      BY <3>2, HullIsInterval
    <3> QED BY <1>4, <3>3 DEF SpannedLines, Spans, s, j
  <2> QED BY <2>2, <2>7, <2>8
<1> QED BY <1>4, <1>6, <1>7 DEF long, h

-----------------------------------------------------------------------------
(* The sheet after an edit: its lines are still all different, and those   *)
(* an edit makes were never used before.                                   *)
LEMMA GridAfter ==
    ASSUME edit \in Edits, fresh \in Nat, NEW g, Grid(g, fresh)
    PROVE  /\ Grid(ShiftedGrid(g), fresh + edit.amount)
           /\ SubSeq(LongGrid(g), 1, Limit) = ShiftedGrid(g)
<1> DEFINE h == ShiftedGrid(g)
           long == LongGrid(g)
           amount == edit.amount
           index == edit.index
<1>1. /\ g \in [Coordinates -> Nat] /\ amount \in Nat /\ amount >= 1 /\ index \in Nat /\ Limit \in Nat
      /\ \A c \in Coordinates : g[c] \in Nat /\ g[c] < fresh
  BY CoordinatesAreNumbers DEF Grid
<1>2. CASE edit.action = "insert"
  <2>1. /\ h \in [Coordinates -> Nat]
        /\ \A k \in Coordinates : h[k] = IF k < index THEN g[k]
                                         ELSE IF k < index + amount THEN fresh + (k - index)
                                         ELSE g[k - amount]
    BY <1>1, <1>2, InsertedGrid
  <2>2. /\ \A k \in Coordinates : long[k] = h[k]
        /\ \A k, n \in 1 .. Len(long) : long[k] = long[n] => k = n
    BY <1>2, FollowsInsertion
  <2>3. long \in Seq(Nat) /\ Len(long) >= Limit /\ Coordinates \subseteq 1 .. Len(long)
    <3> DEFINE fit == FitEnd - edit.index + 1
    <3>1. fit \in Nat
      BY CoordinatesAreNumbers DEF FitEnd
    <3>2. long \in Seq(Nat) /\ Len(long) = Limit + fit
      BY <1>1, <1>2, InsertedLong
    <3> HIDE DEF fit, long
    <3> QED BY <1>1, <3>1, <3>2 DEF Coordinates
  <2> HIDE DEF h, long, amount, index
  <2>4. ASSUME NEW k \in Coordinates PROVE h[k] < fresh + amount
    <3>1. k \in Nat /\ (~(k < index + amount) => k - amount \in Nat)
      BY <1>1, CoordinatesAreNumbers
    <3>2. CASE k < index
      BY <1>1, <2>1, <3>2
    <3>3. CASE ~(k < index) /\ k < index + amount
      BY <1>1, <2>1, <3>1, <3>3
    <3>4. CASE ~(k < index) /\ ~(k < index + amount)
      <4>1. k - amount \in Coordinates
        <5>1. index >= 1
          BY CoordinatesAreNumbers DEF index
        <5> QED BY <1>1, <3>1, <3>4, <5>1, CoordinatesAreNumbers DEF Coordinates
      <4> QED BY <1>1, <2>1, <3>4, <4>1
    <3> QED BY <3>2, <3>3, <3>4
  <2>5. \A k, n \in Coordinates : h[k] = h[n] => k = n
    BY <2>2, <2>3
  <2>6. SubSeq(long, 1, Limit) = h
    <3> DEFINE first == SubSeq(long, 1, Limit)
    <3>1. first \in [Coordinates -> Nat] /\ \A k \in Coordinates : first[k] = long[k]
      BY <2>3, FirstLines
    <3> HIDE DEF first
    <3>2. first \in [Coordinates -> Nat] /\ h \in [Coordinates -> Nat]
          /\ \A k \in Coordinates : first[k] = h[k]
      BY <2>1, <2>2, <3>1
    <3>3. first = h
      BY <3>2
    <3> QED BY <3>3 DEF first
  <2> QED BY <2>1, <2>4, <2>5, <2>6 DEF Grid, h, long, amount
<1>3. CASE edit.action = "delete"
  <2> DEFINE lost == LastCut - index + 1
  <2>1. /\ h \in [Coordinates -> Nat]
        /\ \A k \in Coordinates : h[k] = IF k < index THEN g[k]
                                         ELSE IF k <= Limit - lost THEN g[k + lost]
                                         ELSE fresh + (k - (Limit - lost)) - 1
    BY <1>1, <1>3, DeletedGrid
  <2>2. /\ \A k \in Coordinates : long[k] = h[k]
        /\ \A k, n \in Coordinates : long[k] = long[n] => k = n
    BY <1>3, FollowsDeletion
  <2>3. long \in Seq(Nat) /\ Len(long) >= Limit
    BY <1>1, <1>3, DeletedLong
  <2>4. lost \in Nat /\ 1 <= lost /\ lost <= amount /\ index >= 1
    BY LastCutOnSheet, CoordinatesAreNumbers
  <2> HIDE DEF h, long, amount, index, lost
  <2>5. ASSUME NEW k \in Coordinates PROVE h[k] < fresh + amount
    <3>1. k \in Nat /\ 1 <= k /\ k <= Limit
      BY CoordinatesAreNumbers
    <3>2. CASE k < index
      BY <1>1, <2>1, <3>2
    <3>3. CASE ~(k < index) /\ k <= Limit - lost
      <4>1. k + lost \in Coordinates
        BY <1>1, <2>4, <3>1, <3>3 DEF Coordinates
      <4> QED BY <1>1, <2>1, <3>3, <4>1
    <3>4. CASE ~(k < index) /\ ~(k <= Limit - lost)
      BY <1>1, <2>1, <2>4, <3>1, <3>4
    <3> QED BY <3>2, <3>3, <3>4
  <2>6. SubSeq(long, 1, Limit) = h
    <3> DEFINE first == SubSeq(long, 1, Limit)
    <3>1. first \in [Coordinates -> Nat] /\ \A k \in Coordinates : first[k] = long[k]
      BY <2>3, FirstLines
    <3> HIDE DEF first
    <3>2. first \in [Coordinates -> Nat] /\ h \in [Coordinates -> Nat]
          /\ \A k \in Coordinates : first[k] = h[k]
      BY <2>1, <2>2, <3>1
    <3>3. first = h
      BY <3>2
    <3> QED BY <3>3 DEF first
  <2> QED BY <2>1, <2>2, <2>5, <2>6 DEF Grid, h, long, amount
<1> QED BY <1>2, <1>3, CoordinatesAreNumbers

(* The lines before an edit stay where they are.                           *)
LEMMA LinesBefore ==
    ASSUME edit \in Edits, fresh \in Nat, NEW g, Grid(g, fresh), NEW k \in Coordinates, k < edit.index
    PROVE  ShiftedGrid(g)[k] = g[k]
<1>1. g \in [Coordinates -> Nat]
  BY DEF Grid
<1>2. CASE edit.action = "insert"
  BY <1>1, <1>2, InsertedGrid
<1>3. CASE edit.action = "delete"
  BY <1>1, <1>3, DeletedGrid
<1> QED BY <1>2, <1>3, CoordinatesAreNumbers

-----------------------------------------------------------------------------
(* The places that the passes before this one have rewritten.              *)
Passed ==
    (IF pc \in {"idle", "shift"} THEN {} ELSE LocalPlaces)
    \cup (IF pc \in {"idle", "shift", "formulas"} THEN {} ELSE {"otherFormula"})
    \cup (IF pc \in {"idle", "shift", "formulas", "names"} THEN {} ELSE {"name"})
    \cup (IF pc \in {"idle", "shift", "formulas", "names", "charts"} THEN {} ELSE {"otherChart"})
    \cup (IF pc \in {"idle", "shift", "formulas", "names", "charts", "pivots"} THEN {}
          ELSE {"otherPivot"})

HomeStays(b) == home \in Range(ShiftedGrid(b.grid))

(* What a committed edit makes of the reference in a place.                *)
MovedRef(b, p) ==
    IF p \in CellPlaces /\ ~HomeStays(b) THEN Gone
    ELSE IF p = "merge" THEN MergeLeft(Rewrite(b.refs[p], edit))
    ELSE Rewrite(b.refs[p], edit)

(* An edit under way has done to the workbook of its snapshot what its     *)
(* passes so far do, and no insertion has pushed the formula cell out.     *)
Halfway ==
    /\ book.grid = IF pc = "shift" THEN snapshot.grid ELSE ShiftedGrid(snapshot.grid)
    /\ \A p \in Places :
         book.refs[p] = IF p \in Passed THEN MovedRef(snapshot, p) ELSE snapshot.refs[p]
    /\ (pc # "shift" /\ edit.action = "insert" /\ home \in Range(snapshot.grid))
          => HomeStays(snapshot)

EditInv ==
    /\ TypeOK
    /\ fresh \in Nat /\ home \in Nat /\ home < fresh /\ home \in populated
    /\ Grid(snapshot.grid, fresh)
    /\ pc \in {"idle", "shift"} => book = snapshot
    /\ pc # "idle" => Halfway

LEMMA InitEdit == Init => EditInv
<1> SUFFICES ASSUME Init PROVE EditInv
  OBVIOUS
<1>1. TypeOK
  BY InitTyped
<1>2. book.grid = [n \in Coordinates |-> n]
  BY DEF Init, Book
<1>3. Grid(book.grid, fresh)
  BY <1>2, CoordinatesAreNumbers DEF Init, Grid
<1> QED BY <1>1, <1>3, CoordinatesAreNumbers DEF Init, EditInv

(* What an edit makes of the workbook depends on the edit alone.           *)
LEMMA SameEdit ==
    ASSUME UNCHANGED <<edit, fresh, snapshot, home>>
    PROVE  /\ ShiftedGrid(snapshot.grid)' = ShiftedGrid(snapshot.grid)
           /\ HomeStays(snapshot)' <=> HomeStays(snapshot)
           /\ \A p : MovedRef(snapshot, p)' = MovedRef(snapshot, p)
<1>1. ShiftedGrid(snapshot.grid)' = ShiftedGrid(snapshot.grid)
  BY Zenon DEF ShiftedGrid, Put, Cut, NewLines, LastCut, CutEnd
<1>2. HomeStays(snapshot)' <=> HomeStays(snapshot)
  BY <1>1 DEF HomeStays
<1> QED BY <1>1, <1>2 DEF MovedRef

(* A pass over the references of places that no pass has visited yet.      *)
LEMMA PassKeepsHalfway ==
    ASSUME EditInv, pc \notin {"idle", "shift"}, pc' \notin {"idle", "shift"},
           NEW S, S \cap (CellPlaces \cup {"merge"}) = {}, S \cap Passed = {}, Passed' = Passed \cup S,
           \A p \in Places : book'.refs[p] = IF p \in S THEN Rewrite(book.refs[p], edit)
                                             ELSE book.refs[p],
           book'.grid = book.grid, UNCHANGED <<edit, fresh, snapshot, home>>
    PROVE  Halfway'
<1>1. Halfway
  BY DEF EditInv
<1>2. ASSUME NEW p \in Places
      PROVE  book'.refs[p] = IF p \in Passed' THEN MovedRef(snapshot, p)' ELSE snapshot'.refs[p]
  <2>1. MovedRef(snapshot, p)' = MovedRef(snapshot, p)
    BY SameEdit
  <2>2. CASE p \in S
    BY <1>1, <2>1, <2>2 DEF Halfway, MovedRef
  <2>3. CASE p \notin S
    BY <1>1, <2>1, <2>3 DEF Halfway
  <2> QED BY <2>2, <2>3
<1> QED BY <1>1, <1>2, SameEdit DEF Halfway

(* The pass over the edited worksheet, in its parts.                       *)
LEMMA ShiftedParts ==
    ASSUME NEW b, ReferencesOnSheet(b)
    PROVE  /\ ShiftedBook(b).grid = ShiftedGrid(b.grid)
           /\ ShiftedBook(b).caches = b.caches
           /\ \A p \in Places :
                ShiftedBook(b).refs[p] = IF p \in LocalPlaces THEN MovedRef(b, p) ELSE b.refs[p]
<1>1. /\ ShiftedBook(b).grid = ShiftedGrid(b.grid)
      /\ ShiftedBook(b).caches = b.caches
      /\ \A p \in Places :
            ShiftedBook(b).refs[p] =
                IF p \in CellPlaces THEN CellReferences(b, ShiftedGrid(b.grid))[p]
                ELSE IF p = "merge" THEN MergeLeft(Rewritten(b, LocalPlaces)[p])
                ELSE Rewritten(b, LocalPlaces)[p]
  BY DEF ReferencesOnSheet, ShiftedBook
<1>2. "merge" \in LocalPlaces /\ CellPlaces \subseteq LocalPlaces
  BY DEF LocalPlaces, AreaPlaces
<1>3. ASSUME NEW p \in CellPlaces
      PROVE  CellReferences(b, ShiftedGrid(b.grid))[p]
               = IF HomeStays(b) THEN Rewrite(b.refs[p], edit) ELSE Gone
  BY DEF CellReferences, HomeStays
<1>4. "merge" \notin CellPlaces
  BY DEF CellPlaces
<1>5. ASSUME NEW p \in Places
      PROVE  Rewritten(b, LocalPlaces)[p] = IF p \in LocalPlaces THEN Rewrite(b.refs[p], edit)
                                            ELSE b.refs[p]
  BY DEF Rewritten
<1> QED BY <1>1, <1>2, <1>3, <1>4, <1>5 DEF MovedRef

(* No insertion pushes the formula cell off the sheet.                     *)
LEMMA InsertionKeepsHome ==
    ASSUME edit \in Edits, edit.action = "insert", fresh \in Nat, Grid(book.grid, fresh),
           home \in populated, home \in Range(book.grid), ~PushesCellsOut
    PROVE  HomeStays(book)
<1> DEFINE g == book.grid
           h == ShiftedGrid(g)
           index == edit.index
           amount == edit.amount
<1>1. PICK k \in Coordinates : home = g[k]
  BY DEF Range, Grid
<1>2. /\ h \in [Coordinates -> Nat]
      /\ \A n \in Coordinates : h[n] = IF n < index THEN g[n]
                                       ELSE IF n < index + amount THEN fresh + (n - index)
                                       ELSE g[n - amount]
  BY InsertedGrid DEF Grid
<1>3. k \in Nat /\ index \in Nat /\ amount \in Nat /\ Limit \in Nat /\ 1 <= k /\ k <= Limit
  BY CoordinatesAreNumbers
<1>4. k < index \/ k <= Limit - amount
  BY <1>1, <1>3 DEF PushesCellsOut
<1> HIDE DEF h, index, amount
<1>5. CASE k < index
  BY <1>1, <1>2, <1>5 DEF Range, HomeStays, h, g
<1>6. CASE ~(k < index)
  <2> DEFINE n == k + amount
  <2>1. n \in Coordinates /\ ~(n < index) /\ ~(n < index + amount) /\ n - amount = k
    BY <1>3, <1>4, <1>6 DEF Coordinates
  <2> HIDE DEF n
  <2>2. h[n] = home
    BY <1>1, <1>2, <2>1
  <2> QED BY <1>2, <2>1, <2>2 DEF Range, HomeStays, h, g
<1> QED BY <1>5, <1>6

LEMMA ShiftKeepsEdit == EditInv /\ ShiftStructure => EditInv'
<1> SUFFICES ASSUME EditInv, ShiftStructure PROVE EditInv'
  OBVIOUS
<1>1. /\ pc = "shift" /\ pc' = "formulas" /\ book = snapshot /\ book' = ShiftedBook(book)
      /\ UNCHANGED <<edit, fresh, snapshot, home, populated>>
      /\ ~PushesCellsOut /\ edit \in Edits /\ fresh \in Nat /\ ReferencesOnSheet(book)
      /\ Grid(book.grid, fresh) /\ home \in populated
  BY DEF ShiftStructure, Running, Goto, Same, Constant, EditInv, TypeOK
<1>2. TypeOK'
  BY StepTyped DEF EditInv, Next
<1>3. Passed = {} /\ Passed' = LocalPlaces
  BY <1>1 DEF Passed
<1>4. book'.grid = ShiftedGrid(snapshot.grid)'
  BY <1>1, ShiftedParts, SameEdit
<1>5. ASSUME NEW p \in Places
      PROVE  book'.refs[p] = IF p \in Passed' THEN MovedRef(snapshot, p)' ELSE snapshot'.refs[p]
  BY <1>1, <1>3, ShiftedParts, SameEdit
<1>6. (edit.action = "insert" /\ home \in Range(snapshot.grid)) => HomeStays(snapshot)
  BY <1>1, InsertionKeepsHome
<1>7. Halfway'
  BY <1>1, <1>4, <1>5, <1>6, SameEdit DEF Halfway
<1> QED BY <1>1, <1>2, <1>7 DEF EditInv

LEMMA PassKeepsEdit ==
    EditInv /\ (\/ RewriteFormulas \/ RewriteNames \/ RewriteCharts \/ RewritePivots
                \/ SynchronizeCaches \/ RequestRecalculation) => EditInv'
<1> SUFFICES ASSUME EditInv,
                    \/ RewriteFormulas \/ RewriteNames \/ RewriteCharts \/ RewritePivots
                    \/ SynchronizeCaches \/ RequestRecalculation
             PROVE  EditInv'
  OBVIOUS
<1> USE DEF Running, Goto, Same, Constant
<1>1. TypeOK'
  BY StepTyped DEF EditInv, Next
<1>2. ReferencesOnSheet(book)
  BY DEF EditInv, TypeOK
<1>3. /\ UNCHANGED <<edit, fresh, snapshot, home, populated>>
      /\ pc \notin {"idle", "shift"} /\ pc' \notin {"idle", "shift"}
  BY DEF RewriteFormulas, RewriteNames, RewriteCharts, RewritePivots, SynchronizeCaches,
         RequestRecalculation
<1>4. Halfway'
  <2>1. ASSUME NEW S, S \subseteq {"otherFormula", "name", "otherChart", "otherPivot"},
               book'.refs = Rewritten(book, S), book'.grid = book.grid,
               S \cap Passed = {}, Passed' = Passed \cup S
        PROVE  Halfway'
    <3>1. S \cap (CellPlaces \cup {"merge"}) = {}
      BY <2>1 DEF CellPlaces
    <3>2. \A p \in Places : book'.refs[p] = IF p \in S THEN Rewrite(book.refs[p], edit)
                                            ELSE book.refs[p]
      BY <2>1 DEF Rewritten
    <3> QED BY <1>3, <2>1, <3>1, <3>2, PassKeepsHalfway
  <2>2. book.refs = Rewritten(book, {})
    BY <1>2 DEF ReferencesOnSheet, Rewritten
  <2>3. CASE RewriteFormulas
    <3>1. {"otherFormula"} \cap Passed = {} /\ Passed' = Passed \cup {"otherFormula"}
      BY <2>3 DEF RewriteFormulas, Passed, LocalPlaces, AreaPlaces, CellPlaces
    <3> QED BY <1>2, <2>1, <2>3, <3>1 DEF RewriteFormulas, ReferencesOnSheet
  <2>4. CASE RewriteNames
    <3>1. {"name"} \cap Passed = {} /\ Passed' = Passed \cup {"name"}
      BY <2>4 DEF RewriteNames, Passed, LocalPlaces, AreaPlaces, CellPlaces
    <3> QED BY <1>2, <2>1, <2>4, <3>1 DEF RewriteNames, ReferencesOnSheet
  <2>5. CASE RewriteCharts
    <3>1. {"otherChart"} \cap Passed = {} /\ Passed' = Passed \cup {"otherChart"}
      BY <2>5 DEF RewriteCharts, Passed, LocalPlaces, AreaPlaces, CellPlaces
    <3> QED BY <1>2, <2>1, <2>5, <3>1 DEF RewriteCharts, ReferencesOnSheet
  <2>6. CASE RewritePivots
    <3>1. {"otherPivot"} \cap Passed = {} /\ Passed' = Passed \cup {"otherPivot"}
      BY <2>6 DEF RewritePivots, Passed, LocalPlaces, AreaPlaces, CellPlaces
    <3> QED BY <1>2, <2>1, <2>6, <3>1 DEF RewritePivots, ReferencesOnSheet
  <2>7. CASE SynchronizeCaches
    <3>1. Passed' = Passed
      BY <2>7 DEF SynchronizeCaches, Passed
    <3>2. book'.refs = book.refs /\ book'.grid = book.grid
      BY <1>2, <2>7 DEF SynchronizeCaches, ReferencesOnSheet
    <3> QED BY <2>1, <2>2, <3>1, <3>2
  <2>8. CASE RequestRecalculation
    <3>1. Passed' = Passed
      BY <2>8 DEF RequestRecalculation, Passed
    <3>2. book'.refs = book.refs /\ book'.grid = book.grid
      BY <1>2, <2>8 DEF RequestRecalculation, ReferencesOnSheet
    <3> QED BY <2>1, <2>2, <3>1, <3>2
  <2> QED BY <2>3, <2>4, <2>5, <2>6, <2>7, <2>8
<1> QED BY <1>1, <1>3, <1>4 DEF EditInv

LEMMA StepEdit == RollbackOnFailure /\ EditInv /\ [Next]_vars => EditInv'
<1> SUFFICES ASSUME RollbackOnFailure, EditInv, [Next]_vars PROVE EditInv'
  OBVIOUS
<1> USE DEF Running, Goto, Same, Constant, Done
<1>1. TypeOK'
  BY StepTyped DEF EditInv
<1>2. ASSUME NEW e \in Edits, NEW s \in Spellings, Begin(e, s) PROVE EditInv'
  <2>1. /\ pc' = "shift" /\ book = snapshot /\ snapshot' = book /\ book' = book
        /\ UNCHANGED <<fresh, home, populated>>
    BY <1>2 DEF Begin, EditInv
  <2>2. Passed' = {}
    BY <2>1 DEF Passed
  <2>3. Halfway'
    BY <2>1, <2>2 DEF Halfway
  <2> QED BY <1>1, <2>1, <2>3 DEF EditInv
<1>3. CASE Commit
  <2>1. /\ pc # "shift" /\ pc # "idle" /\ pc' = "idle" /\ book' = book /\ snapshot' = book'
        /\ fresh' = fresh + edit.amount /\ UNCHANGED <<home, populated>> /\ edit \in Edits
    BY <1>3 DEF Commit, EditInv, TypeOK
  <2>2. Grid(book.grid, fresh + edit.amount)
    BY <2>1, GridAfter DEF EditInv, Halfway
  <2>3. edit.amount \in Nat
    BY <2>1, CoordinatesAreNumbers
  <2> QED BY <1>1, <2>1, <2>2, <2>3 DEF EditInv
<1>4. CASE Abort
  BY <1>1, <1>4 DEF Abort, EditInv
<1>5. CASE UNCHANGED vars
  <2>1. Halfway' <=> Halfway
    BY <1>5, SameEdit DEF vars, Halfway, Passed
  <2> QED BY <1>1, <1>5, <2>1 DEF vars, EditInv
<1> QED BY <1>2, <1>3, <1>4, <1>5, ShiftKeepsEdit, PassKeepsEdit DEF Next

LEMMA EditHolds == RollbackOnFailure /\ Spec => []EditInv
<1> SUFFICES ASSUME RollbackOnFailure PROVE Spec => []EditInv
  OBVIOUS
<1>1. Init => EditInv
  BY InitEdit
<1>2. EditInv /\ [Next]_vars => EditInv'
  BY StepEdit
<1> QED BY <1>1, <1>2, PTL DEF Spec

-----------------------------------------------------------------------------
(* The lines of a sheet that were not there before are fresh.              *)
LEMMA NewOnesAreFresh ==
    ASSUME EditInv, pc \notin {"idle", "shift"}, NEW h, Grid(h, fresh + edit.amount),
           NEW from \in Coordinates, NEW to \in Coordinates, from <= to,
           \A k \in from .. to : h[k] >= fresh
    PROVE  /\ Len(SubSeq(h, from, to)) = to - from + 1
           /\ Atomic!Fresh(SubSeq(h, from, to))
<1> DEFINE new == SubSeq(h, from, to)
<1>1. /\ from \in Nat /\ to \in Nat /\ 1 <= from /\ to <= Limit /\ Limit \in Nat /\ fresh \in Nat
      /\ h \in [Coordinates -> Nat] /\ \A k, n \in Coordinates : h[k] = h[n] => k = n
  BY CoordinatesAreNumbers DEF EditInv, Grid
<1>2. h \in Seq(Nat) /\ Len(h) = Limit
  BY <1>1, GridIsSequence
<1>3. /\ new \in Seq(Nat) /\ Len(new) = to - from + 1
      /\ \A k \in 1 .. to - from + 1 : new[k] = h[from + k - 1]
  BY <1>1, <1>2, PartOf
<1>4. Seen = snapshot /\ Seen.grid \in [Coordinates -> Nat] /\ \A k \in Coordinates : Seen.grid[k] < fresh
  BY DEF Seen, Running, EditInv, Grid
<1>5. Len(Seen.grid) = Limit
  BY <1>4, GridIsSequence
<1> HIDE DEF new
<1>6. ASSUME NEW k \in 1 .. Len(new) PROVE new[k] \in Nat /\ new[k] >= fresh /\ new[k] = h[from + k - 1]
                                          /\ from + k - 1 \in Coordinates
  <2> DEFINE at == from + k - 1
  <2>1. at \in from .. to /\ at \in Coordinates /\ k \in 1 .. to - from + 1
    BY <1>1, <1>3 DEF Coordinates
  <2> HIDE DEF at
  <2>2. new[k] = h[at] /\ h[at] \in Nat /\ h[at] >= fresh
    BY <1>1, <1>3, <2>1 DEF at
  <2> QED BY <2>1, <2>2 DEF at
<1>7. ASSUME NEW k \in 1 .. Len(new), NEW n \in 1 .. Len(new), new[k] = new[n] PROVE k = n
  <2>1. from + k - 1 = from + n - 1
    BY <1>1, <1>6, <1>7
  <2>2. k \in Int /\ n \in Int
    BY <1>3
  <2> QED BY <1>1, <2>1, <2>2
<1>8. ASSUME NEW x \in Atomic!Lines(new) PROVE x \in Nat /\ x >= fresh
  BY <1>6 DEF Atomic!Lines
<1>9. ASSUME NEW x \in Atomic!Lines(Seen.grid) \cup UNION {Covered(Seen, p) : p \in Places}
      PROVE  x \in Nat /\ x < fresh
  <2>1. CASE x \in Atomic!Lines(Seen.grid)
    BY <1>4, <1>5, <2>1 DEF Atomic!Lines, Coordinates
  <2>2. CASE x \in UNION {Covered(Seen, p) : p \in Places}
    BY <1>4, <2>2 DEF Covered
  <2> QED BY <2>1, <2>2
<1>10. Atomic!Lines(new) \cap (Atomic!Lines(Seen.grid) \cup UNION {Covered(Seen, p) : p \in Places}) = {}
  BY <1>1, <1>8, <1>9
<1>11. \A p \in Places : [q \in Places |-> Covered(Seen, q)][p] = Covered(Seen, p)
  OBVIOUS
<1>12. UNION {[q \in Places |-> Covered(Seen, q)][p] : p \in Places}
          = UNION {Covered(Seen, p) : p \in Places}
  BY <1>11
<1>13. Atomic!Fresh(new)
  BY <1>7, <1>10, <1>12 DEF Atomic!Fresh
<1> QED BY <1>3, <1>13 DEF new

(* The formula cell is among the lines of the abstract edit just when it   *)
(* is still on the sheet.                                                  *)
LEMMA HomeFollows ==
    ASSUME EditInv, pc \notin {"idle", "shift"}
    PROVE  home \in Atomic!Lines(LongGrid(snapshot.grid)) <=> HomeStays(snapshot)
<1> DEFINE g == snapshot.grid
           h == ShiftedGrid(g)
           long == LongGrid(g)
           index == edit.index
<1>1. /\ edit \in Edits /\ fresh \in Nat /\ Grid(g, fresh) /\ home \in Nat /\ home < fresh
      /\ g \in [Coordinates -> Nat]
      /\ (edit.action = "insert" /\ home \in Range(g)) => HomeStays(snapshot)
  BY DEF EditInv, TypeOK, Halfway, Grid
<1>2. h \in [Coordinates -> Nat]
  BY <1>1, GridAfter DEF Grid
<1>3. index \in Nat /\ Limit \in Nat
  BY <1>1, CoordinatesAreNumbers
<1>4. CASE edit.action = "insert"
  <2> DEFINE fit == FitEnd - edit.index + 1
  <2>1. fit \in Nat
    BY <1>1, CoordinatesAreNumbers DEF FitEnd
  <2>2. /\ long \in Seq(Nat) /\ Len(long) = Limit + fit
        /\ \A k \in 1 .. Limit + fit : long[k] = IF k < index THEN g[k]
                                 ELSE IF k < index + fit THEN fresh + (k - index)
                                 ELSE g[k - fit]
    BY <1>1, <1>4, InsertedLong
  <2>3. \A k \in Coordinates : long[k] = h[k]
    BY <1>1, <1>4, FollowsInsertion
  <2> HIDE DEF g, h, long, index, fit
  <2>4. ASSUME NEW k \in 1 .. Limit + fit, long[k] = home PROVE home \in Range(g)
    <3>1. k \in Nat /\ 1 <= k /\ k <= Limit + fit
      BY <1>3, <2>1
    <3>2. CASE k < index
      <4>1. k \in Coordinates
        BY <1>1, <1>3, <3>1, <3>2, CoordinatesAreNumbers DEF Coordinates, index
      <4> QED BY <1>1, <2>2, <2>4, <3>2, <4>1 DEF Range
    <3>3. CASE ~(k < index) /\ k < index + fit
      BY <1>1, <1>3, <2>1, <2>2, <2>4, <3>1, <3>3
    <3>4. CASE ~(k < index) /\ ~(k < index + fit)
      <4> DEFINE c == k - fit
      <4>1. c \in Coordinates
        BY <1>1, <1>3, <2>1, <3>1, <3>4, CoordinatesAreNumbers DEF Coordinates, index
      <4>2. home = g[c]
        BY <2>2, <2>4, <3>4
      <4> HIDE DEF c
      <4> QED BY <1>1, <4>1, <4>2 DEF Range
    <3> QED BY <3>2, <3>3, <3>4
  <2>5. home \in Atomic!Lines(long) => HomeStays(snapshot)
    BY <1>1, <1>4, <2>2, <2>4 DEF Atomic!Lines, g
  <2>6. Coordinates \subseteq 1 .. Len(long)
    BY <1>3, <2>1, <2>2 DEF Coordinates
  <2>7. HomeStays(snapshot) => home \in Atomic!Lines(long)
    BY <1>2, <2>3, <2>6 DEF Atomic!Lines, HomeStays, Range, g, h
  <2> QED BY <2>5, <2>7 DEF long, g
<1>5. CASE edit.action = "delete"
  <2>1. /\ long \in Seq(Nat) /\ Len(long) = Limit /\ \A k \in Coordinates : long[k] = h[k]
    BY <1>1, <1>5, DeletedLong
  <2>2. 1 .. Len(long) = Coordinates
    BY <2>1 DEF Coordinates
  <2> HIDE DEF long
  <2>3. Atomic!Lines(long) = Range(h)
    BY <1>2, <2>1, <2>2 DEF Atomic!Lines, Range
  <2> QED BY <2>3 DEF HomeStays, long, g, h
<1> QED BY <1>1, <1>4, <1>5, CoordinatesAreNumbers

(* What the abstract edit leaves a reference is what the passes leave it.  *)
LEMMA ReferenceFollows ==
    ASSUME EditInv, pc \notin {"idle", "shift"}, NEW p \in Places
    PROVE  Atomic!Follow(p, LongGrid(snapshot.grid))
             = SpannedLines(ShiftedGrid(snapshot.grid), MovedRef(snapshot, p))
<1> DEFINE g == snapshot.grid
           h == ShiftedGrid(g)
           long == LongGrid(g)
           i == snapshot.refs[p]
           j == Rewrite(i, edit)
           left == Atomic!Hull(SpannedLines(g, i), long) \cap Atomic!Lines(SubSeq(long, 1, Limit))
<1>1. /\ edit \in Edits /\ fresh \in Nat /\ Grid(g, fresh) /\ Grid(h, fresh + edit.amount)
      /\ i \in Intervals \cup {Gone} /\ j \in Intervals \cup {Gone}
  BY GridAfter, RewriteStays DEF EditInv, TypeOK, ReferencesOnSheet
<1>2. [q \in Places |-> Covered(Seen, q)][p] = SpannedLines(g, i)
  BY CoveredIsSpanned DEF Seen, Running
<1>3. /\ \A k \in Coordinates : h[k] \in Nat
      /\ \A k, n \in Coordinates : h[k] = h[n] => k = n
      /\ \A k \in Coordinates : k \in Nat
  BY <1>1, CoordinatesAreNumbers DEF Grid
<1>4. \A q : SpannedLines(q, Gone) = {}
  BY CoordinatesAreNumbers DEF SpannedLines, Spans, Gone
<1>5. left = SpannedLines(h, j)
  <2>1. CASE i = Gone
    <3>1. j = Gone /\ SpannedLines(g, i) = {}
      BY <1>4, <2>1 DEF Rewrite
    <3>2. Atomic!Hull({}, long) = {}
      BY DEF Atomic!Hull
    <3> HIDE DEF long, h
    <3>3. left = {}
      BY <3>1, <3>2
    <3> QED BY <1>4, <3>1, <3>3
  <2>2. CASE i \in Intervals
    <3>1. edit.action \in {"insert", "delete"}
      BY <1>1, CoordinatesAreNumbers
    <3> QED BY <1>1, <2>2, <3>1, FollowsInsertion, FollowsDeletion
  <2> QED BY <1>1, <2>1, <2>2
<1>6. Atomic!Follow(p, long) = IF p \in CellPlaces /\ ~HomeStays(snapshot) THEN {}
                               ELSE IF p = "merge" /\ Atomic!Alone(left) THEN {} ELSE left
  BY <1>2, HomeFollows DEF Atomic!Follow
<1> HIDE DEF left, long, h, g, i
<1>7. CASE p \in CellPlaces
  <2>1. p # "merge"
    BY <1>7 DEF CellPlaces
  <2>2. MovedRef(snapshot, p) = IF HomeStays(snapshot) THEN j ELSE Gone
    BY <1>7, <2>1 DEF MovedRef, i
  <2> QED BY <1>4, <1>5, <1>6, <1>7, <2>1, <2>2 DEF long, h, g
<1>8. CASE p \notin CellPlaces /\ p # "merge"
  <2>1. MovedRef(snapshot, p) = j
    BY <1>8 DEF MovedRef, i
  <2> QED BY <1>5, <1>6, <1>8, <2>1 DEF long, h, g
<1>9. CASE p = "merge"
  <2>1. p \notin CellPlaces
    BY <1>9 DEF CellPlaces
  <2>2. MovedRef(snapshot, p) = MergeLeft(j)
    BY <1>9, <2>1 DEF MovedRef, i
  <2> HIDE DEF j
  <2>3. Atomic!Alone(left) => MergeLeft(j) = Gone
    <3>1. CASE j = Gone
      BY <3>1 DEF MergeLeft, Gone
    <3>2. CASE j \in Intervals
      <4>1. SUFFICES ASSUME NEW x \in left, left = {x} PROVE MergeLeft(j) = Gone
        BY DEF Atomic!Alone
      <4>2. j.first \in Coordinates /\ j.last \in Coordinates /\ j.first <= j.last
        BY <3>2 DEF Intervals
      <4>3. h[j.first] \in left /\ h[j.last] \in left
        BY <1>3, <1>5, <4>2 DEF SpannedLines, Spans
      <4>4. j.first = j.last
        BY <1>3, <4>1, <4>2, <4>3
      <4> QED BY <4>4 DEF MergeLeft
    <3> QED BY <1>1, <3>1, <3>2
  <2>4. ~Atomic!Alone(left) => SpannedLines(h, MergeLeft(j)) = left
    <3>1. SUFFICES ASSUME ~Atomic!Alone(left), j.first = j.last PROVE SpannedLines(h, Gone) = left
      BY <1>5 DEF MergeLeft
    <3>2. CASE j = Gone
      BY <1>5, <3>2
    <3>3. CASE j \in Intervals
      <4>1. j.first \in Coordinates /\ \A n \in Coordinates : Spans(j, n) <=> n = j.first
        BY <1>3, <3>1, <3>3 DEF Intervals, Spans
      <4>2. left = {h[j.first]}
        BY <1>5, <4>1 DEF SpannedLines
      <4> QED BY <3>1, <4>2 DEF Atomic!Alone
    <3> QED BY <1>1, <3>2, <3>3
  <2> QED BY <1>4, <1>6, <1>9, <2>1, <2>2, <2>3, <2>4 DEF long, h, g
<1> QED BY <1>7, <1>8, <1>9

(* A commit is the abstract edit.                                          *)
LEMMA CommitEdits == RollbackOnFailure /\ EditInv /\ Commit => Atomic!Edit
<1> SUFFICES ASSUME EditInv, Commit PROVE Atomic!Edit
  OBVIOUS
<1> DEFINE g == snapshot.grid
           h == ShiftedGrid(g)
           long == LongGrid(g)
           amount == edit.amount
           index == edit.index
<1>1. /\ pc = "validation" /\ pc' = "idle" /\ book' = book /\ home' = home
      /\ edit \in Edits /\ fresh \in Nat /\ Grid(g, fresh) /\ Grid(h, fresh + amount)
      /\ SubSeq(long, 1, Limit) = h
  BY GridAfter DEF Commit, Running, Goto, Constant, EditInv, TypeOK
<1>2. Seen = snapshot /\ Seen' = book
  BY <1>1 DEF Seen, Running
<1>3. book.grid = h /\ \A p \in Places : book.refs[p] = MovedRef(snapshot, p)
  <2>1. Passed = Places
    BY <1>1 DEF Passed, Places, LocalPlaces, FormulaPlaces, ChartPlaces, AreaPlaces, PivotPlaces,
                CellPlaces
  <2> QED BY <1>1, <2>1 DEF EditInv, Halfway
<1>4. Atomic!Becomes(long)
  <2>1. Seen'.grid = SubSeq(long, 1, Limit)
    BY <1>1, <1>2, <1>3
  <2>2. ASSUME NEW p \in Places PROVE Covered(Seen', p) = Atomic!Follow(p, long)
    <3>1. Covered(Seen', p) = SpannedLines(h, MovedRef(snapshot, p))
      BY <1>2, <1>3, CoveredIsSpanned
    <3> QED BY <1>1, <3>1, ReferenceFollows
  <2>3. [p \in Places |-> Covered(Seen, p)]' = [p \in Places |-> Covered(Seen', p)]
    BY DEF Covered
  <2> HIDE DEF long
  <2>4. [p \in Places |-> Covered(Seen, p)]' = [p \in Places |-> Atomic!Follow(p, long)]
    BY <2>2, <2>3
  <2> QED BY <1>1, <2>1, <2>4 DEF Atomic!Becomes
<1>5. /\ index \in Coordinates /\ index \in Nat /\ 1 <= index /\ amount \in Nat /\ 1 <= amount
      /\ Limit \in Nat /\ g \in [Coordinates -> Nat] /\ Len(g) = Limit
  BY <1>1, CoordinatesAreNumbers, GridIsSequence DEF Grid
<1>6. CASE edit.action = "insert"
  <2> DEFINE last == FitEnd
             new == SubSeq(h, index, last)
  <2>1. /\ last \in Nat /\ index <= last /\ last <= Limit /\ last <= index + amount - 1
        /\ last \in Coordinates
    BY <1>5 DEF FitEnd, Coordinates
  <2>2. \A k \in Coordinates : h[k] = IF k < index THEN g[k]
                                      ELSE IF k < index + amount THEN fresh + (k - index)
                                      ELSE g[k - amount]
    BY <1>1, <1>5, <1>6, InsertedGrid
  <2>3. long = Longer(g, index, new)
    BY <1>6 DEF LongGrid
  <2> HIDE DEF h, last, amount, index, g
  <2>4. ASSUME NEW k \in index .. last PROVE h[k] >= fresh
    <3>1. k \in Coordinates /\ k \in Nat /\ ~(k < index) /\ k < index + amount
      BY <1>5, <2>1, <2>4 DEF Coordinates
    <3> QED BY <1>1, <1>5, <2>2, <3>1
  <2>5. Atomic!Fresh(new)
    BY <1>1, <1>5, <2>1, <2>4, NewOnesAreFresh DEF amount
  <2> HIDE DEF new, long
  <2>6. Atomic!Insert(index, new)
    BY <1>2, <1>4, <2>3, <2>5 DEF Atomic!Insert, Longer, g
  <2>7. Seen'.grid = h
    BY <1>2, <1>3
  <2>8. Atomic!Insert(index, SubSeq(Seen'.grid, index, last))
    BY <2>6, <2>7 DEF new
  <2> QED BY <1>5, <2>1, <2>8 DEF Atomic!Edit
<1>7. CASE edit.action = "delete"
  <2> DEFINE last == LastCut
             lost == last - index + 1
             from == Limit - lost + 1
             new == SubSeq(h, from, Limit)
  <2>1. /\ last \in Nat /\ index <= last /\ last <= Limit /\ lost \in Nat /\ 1 <= lost /\ lost <= amount
        /\ from \in Coordinates /\ Limit \in Coordinates /\ from <= Limit /\ from \in Nat
        /\ from >= index /\ from = Limit - lost + 1 /\ Limit - (last - index) = from
        /\ Limit - from + 1 = lost /\ index + lost <= Limit + 1
    <3>1. last \in index .. Limit /\ last - index + 1 \in 1 .. amount
      BY <1>1, LastCutOnSheet
    <3> HIDE DEF last, index, amount
    <3> QED BY <1>5, <3>1 DEF Coordinates
  <2>2. \A k \in Coordinates : h[k] = IF k < index THEN g[k]
                                      ELSE IF k <= Limit - lost THEN g[k + lost]
                                      ELSE fresh + (k - (Limit - lost)) - 1
    BY <1>1, <1>5, <1>7, DeletedGrid
  <2>3. long = Shorter(g, index, lost, new)
    BY <1>7 DEF LongGrid
  <2> HIDE DEF h, last, amount, index, g, lost, from
  <2>4. ASSUME NEW k \in from .. Limit PROVE h[k] >= fresh
    <3>1. k \in Coordinates /\ k \in Nat /\ ~(k < index) /\ ~(k <= Limit - lost)
      BY <1>5, <2>1, <2>4 DEF Coordinates
    <3> QED BY <1>1, <1>5, <2>1, <2>2, <3>1
  <2>5. Atomic!Fresh(new) /\ Len(new) = lost
    BY <1>1, <1>5, <2>1, <2>4, NewOnesAreFresh DEF amount
  <2> HIDE DEF new, long
  <2>6. Atomic!Delete(index, new)
    BY <1>2, <1>4, <2>1, <2>3, <2>5 DEF Atomic!Delete, Shorter, g
  <2>7. Seen'.grid = h
    BY <1>2, <1>3
  <2>8. new = SubSeq(Seen'.grid, Limit - (last - index), Limit)
    BY <2>1, <2>7 DEF new
  <2> QED BY <1>5, <2>1, <2>6, <2>8 DEF Atomic!Edit
<1> QED BY <1>1, <1>6, <1>7, CoordinatesAreNumbers

LEMMA InitAtomic == Init => Atomic!Init
<1> SUFFICES ASSUME Init PROVE Atomic!Init
  OBVIOUS
<1> DEFINE g == book.grid
<1>1. Seen = book /\ g = [n \in Coordinates |-> n]
  BY DEF Init, Seen, Running, Book
<1>2. g \in [Coordinates -> Nat]
  BY <1>1, CoordinatesAreNumbers
<1>3. g \in Seq(Nat) /\ Len(g) = Limit
  BY <1>2, GridIsSequence
<1>4. Atomic!Lines(g) = Coordinates
  <2>1. 1 .. Len(g) = Coordinates /\ \A k \in Coordinates : g[k] = k
    BY <1>1, <1>3 DEF Coordinates
  <2> HIDE DEF g
  <2> QED BY <2>1 DEF Atomic!Lines
<1>5. \A p \in Places : Covered(Seen, p) \subseteq Coordinates
  BY <1>1 DEF Covered
<1>6. home \in Coordinates
  BY CoordinatesAreNumbers DEF Init, Coordinates
<1> HIDE DEF g
<1> QED BY <1>1, <1>3, <1>4, <1>5, <1>6 DEF Atomic!Init, g

(* A structural edit is all or nothing: with the default options, on a     *)
(* sheet of any size, whichever pass of applyStructuralEdit is cancelled   *)
(* or throws, a caller sees either the workbook before the call or one in  *)
(* which every reference covers the lines it covered that are left and     *)
(* the new lines between them.  Every step but a commit is a stutter: the  *)
(* caller's workbook is the snapshot until the call returns.               *)
THEOREM EditsAreAtomic == RollbackOnFailure /\ Spec => AllOrNothing
<1> SUFFICES ASSUME RollbackOnFailure PROVE Spec => AllOrNothing
  OBVIOUS
<1>1. Init => Atomic!Init
  BY InitAtomic
<1>2. ASSUME EditInv, [Next]_vars PROVE [Atomic!Edit]_(Atomic!vars)
  <2>1. CASE Commit
    BY <1>2, <2>1, CommitEdits
  <2>2. CASE ~Commit
    <3>1. Seen' = Seen /\ home' = home
      <4> USE DEF Running, Goto, Same, Constant, Done
      <4>1. ASSUME NEW e \in Edits, NEW s \in Spellings, Begin(e, s) PROVE Seen' = Seen /\ home' = home
        BY <4>1 DEF Begin, Seen
      <4>2. CASE Abort
        BY <1>2, <4>2 DEF Abort, Seen
      <4>3. CASE ShiftStructure \/ RewriteFormulas \/ RewriteNames \/ RewriteCharts
                 \/ RewritePivots \/ SynchronizeCaches \/ RequestRecalculation
        BY <4>3 DEF ShiftStructure, RewriteFormulas, RewriteNames, RewriteCharts, RewritePivots,
                    SynchronizeCaches, RequestRecalculation, Seen
      <4>4. CASE UNCHANGED vars
        BY <4>4 DEF vars, Seen
      <4> QED BY <1>2, <2>2, <4>1, <4>2, <4>3, <4>4 DEF Next
    <3> QED BY <3>1 DEF Atomic!vars, Covered
  <2> QED BY <2>1, <2>2
<1> QED BY <1>1, <1>2, EditHolds, PTL DEF Spec, AllOrNothing, Atomic!Spec

-----------------------------------------------------------------------------
(* What the report says.  A reference an edit touches is counted under its *)
(* kind by the time its pass is over (a formula in a cell that went is     *)
(* not), the caches are those of the snapshot until they are all read      *)
(* again, and the host is asked to recalculate if anything was counted.    *)
Reported == FormulaPlaces \cup ChartPlaces \cup PivotPlaces

Kind(p) == IF p = "name" THEN "name"
           ELSE IF p \in FormulaPlaces THEN "formula"
           ELSE IF p \in ChartPlaces THEN "chart" ELSE "pivot"

Changes(p) == Touches(edit, snapshot.refs[p]) /\ (p = "localFormula" => HomeStays(snapshot))

CachesOf(b) == \A p \in ChartPlaces : b.refs[p] # Gone => b.caches[p] = Listed(b, b.refs[p])

CachesHalfway ==
    IF pc \in {"calculation", "validation"}
    THEN \A p \in ChartPlaces : book.refs[p] # Gone =>
           book.caches[p] = IF "chart" \in counted THEN Listed(book, book.refs[p])
                            ELSE snapshot.caches[p]
    ELSE book.caches = snapshot.caches

ReportInv ==
    /\ CachesOf(snapshot)
    /\ pc # "idle" => /\ \A p \in Passed \cap Reported : Changes(p) => Kind(p) \in counted
                      /\ CachesHalfway
                      /\ (pc = "validation" /\ counted # {}) => book.recalculate

(* An edit below or to the right of an interval leaves it and its lines.   *)
LEMMA UntouchedStays ==
    ASSUME NEW e \in Edits, NEW i \in Intervals, ~Touches(e, i)
    PROVE  /\ i.first \in Coordinates /\ i.last \in Coordinates /\ i.first <= i.last
           /\ i.last < e.index /\ i # Gone /\ Rewrite(i, e) = i
<1>1. /\ i.first \in Coordinates /\ i.last \in Coordinates /\ i.first <= i.last
      /\ i.first \in Nat /\ i.last \in Nat /\ e.index \in Nat /\ e.amount \in Nat
      /\ e.action \in {"insert", "delete"} /\ i.first >= 1
  BY CoordinatesAreNumbers DEF Intervals
<1>2. i # Gone /\ i.last < e.index
  BY <1>1 DEF Touches, Gone
<1>3. Rewrite(i, e) = i
  BY <1>1, <1>2 DEF Rewrite, TransformInterval, InsertedInto, DeletedFrom, CutEnd
<1> QED BY <1>1, <1>2, <1>3

LEMMA SameFunction ==
    ASSUME NEW S, NEW T, NEW f \in [S -> T], NEW e \in [S -> T], \A x \in S : f[x] = e[x]
    PROVE  f = e
OBVIOUS

LEMMA SameParts ==
    ASSUME NEW g \in [Coordinates -> Nat], NEW h \in [Coordinates -> Nat], NEW i \in Intervals,
           \A k \in Coordinates : k <= i.last => g[k] = h[k]
    PROVE  SubSeq(g, i.first, i.last) = SubSeq(h, i.first, i.last)
<1> DEFINE from == i.first
           to == i.last
           s == SubSeq(g, from, to)
           t == SubSeq(h, from, to)
           n == to - from + 1
<1>1. /\ from \in Nat /\ to \in Nat /\ 1 <= from /\ from <= to /\ to <= Limit /\ n \in Nat
  BY CoordinatesAreNumbers DEF Intervals
<1>2. g \in Seq(Nat) /\ Len(g) = Limit /\ h \in Seq(Nat) /\ Len(h) = Limit
  BY GridIsSequence
<1> HIDE DEF from, to
<1>3. /\ s \in Seq(Nat) /\ Len(s) = n /\ \A k \in 1 .. n : s[k] = g[from + k - 1]
      /\ t \in Seq(Nat) /\ Len(t) = n /\ \A k \in 1 .. n : t[k] = h[from + k - 1]
  <2>1. from <= to + 1 /\ to <= Len(g) /\ to <= Len(h)
    BY <1>1, <1>2
  <2>2. s \in Seq(Nat) /\ Len(s) = n /\ \A k \in 1 .. n : s[k] = g[from + k - 1]
    BY <1>1, <1>2, <2>1, PartOf
  <2>3. t \in Seq(Nat) /\ Len(t) = n /\ \A k \in 1 .. n : t[k] = h[from + k - 1]
    BY <1>1, <1>2, <2>1, PartOf
  <2> QED BY <2>2, <2>3
<1>4. ASSUME NEW k \in 1 .. n PROVE g[from + k - 1] = h[from + k - 1]
  <2> DEFINE at == from + k - 1
  <2>1. at \in Coordinates /\ at <= to
    BY <1>1, CoordinatesAreNumbers DEF Coordinates
  <2> HIDE DEF at
  <2>2. g[at] = h[at]
    BY <2>1 DEF to
  <2> QED BY <2>2 DEF at
<1> HIDE DEF s, t, n
<1>5. s \in [1 .. n -> Nat] /\ t \in [1 .. n -> Nat]
  BY <1>3
<1>6. ASSUME NEW k \in 1 .. n PROVE s[k] = t[k]
  BY <1>3, <1>4
<1>7. s = t
  <2> DEFINE whole == 1 .. n
  <2>1. s \in [whole -> Nat] /\ t \in [whole -> Nat] /\ \A k \in whole : s[k] = t[k]
    BY <1>5, <1>6
  <2> HIDE DEF whole
  <2> QED BY <2>1, SameFunction
<1> QED BY <1>7 DEF s, t, from, to

(* At the end of an edit a reference it did not touch is what it was, and  *)
(* so are its lines.                                                       *)
LEMMA UnchangedByEdit ==
    ASSUME EditInv, pc = "validation", NEW p \in Reported, ~Changes(p),
           p = "localFormula" => HomeStays(snapshot)
    PROVE  /\ book.refs[p] = snapshot.refs[p]
           /\ Listed(book, book.refs[p]) = Listed(snapshot, snapshot.refs[p])
           /\ Covered(book, p) = Covered(snapshot, p)
<1> DEFINE g == snapshot.grid
           h == book.grid
           i == snapshot.refs[p]
<1>1. /\ edit \in Edits /\ fresh \in Nat /\ Grid(g, fresh) /\ h = ShiftedGrid(g)
      /\ p \in Places /\ i \in Intervals \cup {Gone}
  BY DEF EditInv, Halfway, TypeOK, ReferencesOnSheet, Reported, Places
<1>2. book.refs[p] = MovedRef(snapshot, p)
  <2>1. p \in Passed
    BY DEF Passed, Reported, LocalPlaces, FormulaPlaces, ChartPlaces, PivotPlaces, CellPlaces
  <2> QED BY <1>1, <2>1 DEF EditInv, Halfway
<1>3. book.refs[p] = Rewrite(i, edit)
  <2>1. p # "merge" /\ (p \in CellPlaces => p = "localFormula")
    BY DEF Reported, FormulaPlaces, ChartPlaces, PivotPlaces, CellPlaces
  <2> QED BY <1>2, <2>1 DEF MovedRef
<1>4. CASE i = Gone
  <2>1. book.refs[p] = Gone /\ \A n \in Coordinates : ~Spans(Gone, n)
    BY <1>3, <1>4, CoordinatesAreNumbers DEF Rewrite, Spans, Gone
  <2> QED BY <1>4, <2>1 DEF Listed, Covered
<1>5. CASE i \in Intervals
  <2>1. i # Gone /\ Rewrite(i, edit) = i /\ i.last < edit.index /\ i.last \in Coordinates
    BY <1>1, <1>5, UntouchedStays DEF Changes
  <2>2. /\ edit.index \in Nat /\ i.last \in Nat /\ \A k \in Coordinates : k \in Nat
    BY <1>1, <2>1, CoordinatesAreNumbers
  <2>3. \A k \in Coordinates : k <= i.last => g[k] = h[k]
    BY <1>1, <2>1, <2>2, LinesBefore
  <2>4. g \in [Coordinates -> Nat] /\ h \in [Coordinates -> Nat]
    BY <1>1, GridAfter DEF Grid
  <2>5. SubSeq(g, i.first, i.last) = SubSeq(h, i.first, i.last)
    BY <1>5, <2>3, <2>4, SameParts
  <2>6. Covered(book, p) = Covered(snapshot, p)
    BY <1>3, <2>1, <2>3 DEF Covered, Spans
  <2> QED BY <1>3, <2>1, <2>5, <2>6 DEF Listed
<1> QED BY <1>1, <1>4, <1>5

(* An edit that has passed validation leaves the charts' points fresh.     *)
LEMMA CachesAfterEdit == EditInv /\ ReportInv /\ pc = "validation" => CachesOf(book)
<1> SUFFICES ASSUME EditInv, ReportInv, pc = "validation", NEW p \in ChartPlaces, book.refs[p] # Gone
             PROVE  book.caches[p] = Listed(book, book.refs[p])
  BY DEF CachesOf
<1>1. book.caches[p] = IF "chart" \in counted THEN Listed(book, book.refs[p]) ELSE snapshot.caches[p]
  BY DEF ReportInv, CachesHalfway
<1>2. CASE "chart" \notin counted
  <2>1. p \in Passed /\ p \in Reported /\ Kind(p) = "chart" /\ p # "localFormula"
    BY DEF Passed, Reported, LocalPlaces, FormulaPlaces, ChartPlaces, Kind
  <2>2. ~Changes(p)
    BY <1>2, <2>1 DEF ReportInv
  <2>3. /\ book.refs[p] = snapshot.refs[p]
        /\ Listed(book, book.refs[p]) = Listed(snapshot, snapshot.refs[p])
    BY <2>1, <2>2, UnchangedByEdit
  <2>4. snapshot.caches[p] = Listed(snapshot, snapshot.refs[p])
    BY <2>3 DEF ReportInv, CachesOf
  <2> QED BY <1>1, <1>2, <2>3, <2>4
<1> QED BY <1>1, <1>2

LEMMA SameReport ==
    ASSUME UNCHANGED <<edit, fresh, snapshot, home>>
    PROVE  \A p : Changes(p)' <=> Changes(p)
BY SameEdit DEF Changes, Touches

(* A pass that counts what it rewrites in one more place.                  *)
LEMMA PassReports ==
    ASSUME EditInv, ReportInv, pc \notin {"idle", "shift", "calculation", "validation"},
           NEW p \in Reported, p # "localFormula", p \notin Passed, Passed' = Passed \cup {p},
           Count(Kind(p), Touched(book, {p})), book'.caches = book.caches,
           pc' \notin {"idle", "shift", "calculation", "validation"},
           UNCHANGED <<edit, fresh, snapshot, home>>
    PROVE  ReportInv'
<1>1. book.refs[p] = snapshot.refs[p]
  BY DEF EditInv, Halfway, Reported, Places
<1>2. Changes(p) => Kind(p) \in counted'
  BY <1>1 DEF Changes, Count, Touched
<1>3. counted \subseteq counted'
  BY DEF Count
<1>4. \A q \in Passed' \cap Reported : Changes(q)' => Kind(q) \in counted'
  BY <1>2, <1>3, SameReport DEF ReportInv
<1>5. CachesHalfway'
  BY DEF ReportInv, CachesHalfway
<1>6. CachesOf(snapshot)'
  BY DEF ReportInv, CachesOf, Listed
<1> QED BY <1>4, <1>5, <1>6 DEF ReportInv

LEMMA InitReport == Init => ReportInv
<1> SUFFICES ASSUME Init PROVE ReportInv
  OBVIOUS
<1>1. PICK i \in Intervals, filled \in BOOLEAN : book = Book(i, filled)
  BY DEF Init
<1>2. /\ book.grid = [n \in Coordinates |-> n]
      /\ \A p \in ChartPlaces : book.refs[p] = i
      /\ \A p \in ChartPlaces : book.caches[p] = SubSeq([n \in Coordinates |-> n], i.first, i.last)
  BY <1>1 DEF Book, ChartPlaces, Places
<1>3. CachesOf(book)
  BY <1>2 DEF CachesOf, Listed
<1> QED BY <1>3 DEF Init, ReportInv

LEMMA ShiftReports == EditInv /\ ReportInv /\ ShiftStructure => ReportInv'
<1> SUFFICES ASSUME EditInv, ReportInv, ShiftStructure PROVE ReportInv'
  OBVIOUS
<1>1. /\ pc = "shift" /\ pc' = "formulas" /\ book = snapshot /\ book' = ShiftedBook(book)
      /\ UNCHANGED <<edit, fresh, snapshot, home, populated>> /\ ReferencesOnSheet(book)
  BY DEF ShiftStructure, Running, Goto, Same, Constant, EditInv, TypeOK
<1>2. book'.caches = book.caches /\ book'.grid = ShiftedGrid(snapshot.grid)
  BY <1>1, ShiftedParts
<1>3. Passed' \cap Reported = {"localFormula", "localChart", "localPivot"}
  BY <1>1 DEF Passed, Reported, LocalPlaces, CellPlaces, AreaPlaces, FormulaPlaces, ChartPlaces,
              PivotPlaces
<1>4. ASSUME NEW p \in Passed' \cap Reported, Changes(p) PROVE Kind(p) \in counted'
  <2>1. CASE p = "localFormula"
    <3>1. home \in Range(book'.grid) /\ Touched(book, {"localFormula"})
      BY <1>1, <1>2, <1>4, <2>1 DEF Changes, HomeStays, Touched
    <3>2. Kind(p) = "formula"
      BY <2>1 DEF Kind, FormulaPlaces
    <3> QED BY <3>1, <3>2 DEF ShiftStructure
  <2>2. CASE p = "localChart"
    <3>1. Touched(book, {"localChart"}) /\ Kind(p) = "chart"
      BY <1>1, <1>4, <2>2 DEF Changes, Touched, Kind, FormulaPlaces, ChartPlaces
    <3> QED BY <3>1 DEF ShiftStructure
  <2>3. CASE p = "localPivot"
    <3>1. Touched(book, {"localPivot"}) /\ Kind(p) = "pivot"
      BY <1>1, <1>4, <2>3 DEF Changes, Touched, Kind, FormulaPlaces, ChartPlaces
    <3> QED BY <3>1 DEF ShiftStructure
  <2> QED BY <1>3, <2>1, <2>2, <2>3
<1>5. \A p \in Passed' \cap Reported : Changes(p)' => Kind(p) \in counted'
  BY <1>1, <1>4, SameReport
<1>6. CachesHalfway'
  BY <1>1, <1>2 DEF CachesHalfway
<1>7. CachesOf(snapshot)'
  BY <1>1 DEF ReportInv, CachesOf, Listed
<1> QED BY <1>1, <1>5, <1>6, <1>7 DEF ReportInv

LEMMA StepReport == RollbackOnFailure /\ EditInv /\ ReportInv /\ [Next]_vars => ReportInv'
<1> SUFFICES ASSUME RollbackOnFailure, EditInv, ReportInv, [Next]_vars PROVE ReportInv'
  OBVIOUS
<1> USE DEF Running, Goto, Same, Constant, Done
<1>1. ReferencesOnSheet(book)
  BY DEF EditInv, TypeOK
<1>2. ASSUME NEW e \in Edits, NEW s \in Spellings, Begin(e, s) PROVE ReportInv'
  <2>1. pc' = "shift" /\ book = snapshot /\ snapshot' = book /\ book' = book
    BY <1>2 DEF Begin, EditInv
  <2>2. Passed' = {}
    BY <2>1 DEF Passed
  <2>3. CachesOf(snapshot)' /\ CachesHalfway'
    BY <2>1 DEF ReportInv, CachesOf, Listed, CachesHalfway
  <2> QED BY <2>1, <2>2, <2>3 DEF ReportInv
<1>3. CASE RewriteFormulas
  <2>1. "otherFormula" \notin Passed /\ Passed' = Passed \cup {"otherFormula"}
    BY <1>3 DEF RewriteFormulas, Passed, LocalPlaces, AreaPlaces, CellPlaces
  <2>2. "otherFormula" \in Reported /\ Kind("otherFormula") = "formula"
    BY DEF Reported, Kind, FormulaPlaces
  <2>3. book'.caches = book.caches
    BY <1>1, <1>3 DEF RewriteFormulas, ReferencesOnSheet
  <2> QED BY <1>3, <2>1, <2>2, <2>3, PassReports DEF RewriteFormulas
<1>4. CASE RewriteNames
  <2>1. "name" \notin Passed /\ Passed' = Passed \cup {"name"}
    BY <1>4 DEF RewriteNames, Passed, LocalPlaces, AreaPlaces, CellPlaces
  <2>2. "name" \in Reported /\ Kind("name") = "name"
    BY DEF Reported, Kind, FormulaPlaces
  <2>3. book'.caches = book.caches
    BY <1>1, <1>4 DEF RewriteNames, ReferencesOnSheet
  <2> QED BY <1>4, <2>1, <2>2, <2>3, PassReports DEF RewriteNames
<1>5. CASE RewriteCharts
  <2>1. "otherChart" \notin Passed /\ Passed' = Passed \cup {"otherChart"}
    BY <1>5 DEF RewriteCharts, Passed, LocalPlaces, AreaPlaces, CellPlaces
  <2>2. "otherChart" \in Reported /\ Kind("otherChart") = "chart"
    BY DEF Reported, Kind, FormulaPlaces, ChartPlaces
  <2>3. book'.caches = book.caches
    BY <1>1, <1>5 DEF RewriteCharts, ReferencesOnSheet
  <2> QED BY <1>5, <2>1, <2>2, <2>3, PassReports DEF RewriteCharts
<1>6. CASE RewritePivots
  <2>1. "otherPivot" \notin Passed /\ Passed' = Passed \cup {"otherPivot"}
    BY <1>6 DEF RewritePivots, Passed, LocalPlaces, AreaPlaces, CellPlaces
  <2>2. "otherPivot" \in Reported /\ Kind("otherPivot") = "pivot"
    BY DEF Reported, Kind, FormulaPlaces, ChartPlaces, PivotPlaces
  <2>3. book'.caches = book.caches
    BY <1>1, <1>6 DEF RewritePivots, ReferencesOnSheet
  <2> QED BY <1>6, <2>1, <2>2, <2>3, PassReports DEF RewritePivots
<1>7. CASE SynchronizeCaches
  <2>1. /\ pc = "caches" /\ pc' = "calculation" /\ Passed' = Passed
        /\ UNCHANGED <<edit, fresh, snapshot, home, counted>>
    BY <1>7 DEF SynchronizeCaches, Passed
  <2>2. book.caches = snapshot.caches
    BY <2>1 DEF ReportInv, CachesHalfway
  <2>3. /\ book'.refs = book.refs /\ book'.grid = book.grid
        /\ book'.caches = [p \in ChartPlaces |-> IF "chart" \in counted /\ book.refs[p] # Gone
                                                 THEN Listed(book, book.refs[p]) ELSE book.caches[p]]
    BY <1>1, <1>7 DEF SynchronizeCaches, ReferencesOnSheet
  <2>4. CachesHalfway'
    BY <2>1, <2>2, <2>3 DEF CachesHalfway, Listed
  <2>5. CachesOf(snapshot)'
    BY <2>1 DEF ReportInv, CachesOf, Listed
  <2> QED BY <2>1, <2>4, <2>5, SameReport DEF ReportInv
<1>8. CASE RequestRecalculation
  <2>1. /\ pc = "calculation" /\ pc' = "validation" /\ Passed' = Passed
        /\ UNCHANGED <<edit, fresh, snapshot, home, counted>>
    BY <1>8 DEF RequestRecalculation, Passed
  <2>2. /\ book'.refs = book.refs /\ book'.grid = book.grid /\ book'.caches = book.caches
        /\ counted # {} => book'.recalculate
    BY <1>1, <1>8 DEF RequestRecalculation, ReferencesOnSheet
  <2>3. CachesHalfway'
    BY <2>1, <2>2 DEF ReportInv, CachesHalfway, Listed
  <2>4. CachesOf(snapshot)'
    BY <2>1 DEF ReportInv, CachesOf, Listed
  <2> QED BY <2>1, <2>2, <2>3, <2>4, SameReport DEF ReportInv
<1>9. CASE Commit
  <2>1. pc = "validation" /\ pc' = "idle" /\ snapshot' = book
    BY <1>9 DEF Commit
  <2>2. CachesOf(book)
    BY <2>1, CachesAfterEdit
  <2> QED BY <2>1, <2>2 DEF ReportInv, CachesOf, Listed
<1>10. CASE Abort
  BY <1>10 DEF Abort, ReportInv, CachesOf, Listed
<1>11. CASE UNCHANGED vars
  <2>1. Passed' = Passed
    BY <1>11 DEF vars, Passed
  <2>2. CachesHalfway' <=> CachesHalfway
    BY <1>11 DEF vars, CachesHalfway, Listed
  <2> QED BY <1>11, <2>1, <2>2, SameReport DEF vars, ReportInv, CachesOf, Listed
<1> QED BY <1>2, <1>3, <1>4, <1>5, <1>6, <1>7, <1>8, <1>9, <1>10, <1>11, ShiftReports DEF Next

LEMMA ReportHolds == RollbackOnFailure /\ Spec => [](EditInv /\ ReportInv)
<1> SUFFICES ASSUME RollbackOnFailure PROVE Spec => [](EditInv /\ ReportInv)
  OBVIOUS
<1>1. Init => ReportInv
  BY InitReport
<1>2. EditInv /\ ReportInv /\ [Next]_vars => ReportInv'
  BY StepReport
<1> QED BY <1>1, <1>2, EditHolds, PTL DEF Spec

(* Between structural edits the points cached in every chart are those of  *)
(* the lines its reference spans: when synchronizeChartCaches is skipped   *)
(* because no chart reference was rewritten, there is nothing to read.     *)
THEOREM ChartPointsStayFresh == RollbackOnFailure /\ Spec => []CachesFresh
<1> SUFFICES ASSUME RollbackOnFailure PROVE Spec => []CachesFresh
  OBVIOUS
<1>1. EditInv /\ ReportInv => CachesFresh
  BY DEF EditInv, ReportInv, CachesOf, CachesFresh, Running
<1> QED BY <1>1, ReportHolds, PTL

(* No edit of applyStructuralEdit moves the lines of a formula, a name, a  *)
(* chart or a pivot source without asking for a recalculation.             *)
THEOREM StaleResultsAreRecalculated == RollbackOnFailure /\ Spec => StaleIsRecalculated
<1> DEFINE Stale == \E p \in Places \ (AreaPlaces \cup {"localLink"}) :
                       /\ Covered(snapshot, p) # Covered(book', p)
                       /\ (p = "localFormula" => home \in Range(book'.grid))
<1> SUFFICES ASSUME RollbackOnFailure PROVE Spec => StaleIsRecalculated
  OBVIOUS
<1>1. ASSUME EditInv, ReportInv, [Next]_vars, pc = "validation", pc' = "idle", Stale
      PROVE  book'.recalculate
  <2> USE DEF Running, Goto, Same, Constant
  <2>1. Commit \/ Abort
    BY <1>1 DEF Next, Begin, ShiftStructure, RewriteFormulas, RewriteNames, RewriteCharts,
                RewritePivots, SynchronizeCaches, RequestRecalculation, vars
  <2>2. PICK p \in Places \ (AreaPlaces \cup {"localLink"}) :
               /\ Covered(snapshot, p) # Covered(book', p)
               /\ (p = "localFormula" => home \in Range(book'.grid))
    BY <1>1
  <2>3. CASE Commit
    <3>1. book' = book /\ book.grid = ShiftedGrid(snapshot.grid)
      BY <1>1, <2>3 DEF Commit, EditInv, Halfway
    <3>2. p \in Reported /\ p \in Passed
      BY <1>1, <2>2 DEF Reported, Passed, Places, LocalPlaces, CellPlaces, FormulaPlaces, ChartPlaces,
                          PivotPlaces
    <3>3. p = "localFormula" => HomeStays(snapshot)
      BY <2>2, <3>1 DEF HomeStays
    <3>4. Changes(p)
      BY <1>1, <2>2, <3>1, <3>2, <3>3, UnchangedByEdit
    <3>5. Kind(p) \in counted
      BY <1>1, <3>2, <3>4 DEF ReportInv
    <3> QED BY <1>1, <3>1, <3>5 DEF ReportInv
  <2>4. CASE Abort
    BY <2>2, <2>4 DEF Abort
  <2> QED BY <2>1, <2>3, <2>4
<1>2. EditInv /\ ReportInv /\ [Next]_vars
        => [(pc = "validation" /\ pc' = "idle" /\ Stale) => book'.recalculate]_vars
  BY <1>1
<1> QED BY <1>2, ReportHolds, PTL DEF Spec, StaleIsRecalculated

-----------------------------------------------------------------------------
(* Where the items are.  Between edits every height, width and criterion   *)
(* is that of its line, and the columns of the table and the fields of     *)
(* pivot caches are those of their ranges; the filter is the table's.      *)
Parts(b) ==
    /\ DOMAIN b.dimensions \subseteq Coordinates
    /\ b.dimensions = [n \in DOMAIN b.dimensions |-> b.grid[n]]
    /\ DOMAIN b.pivots = PivotPlaces
    /\ \A p \in PivotPlaces : DOMAIN b.pivots[p] = {"items", "used"}

TableRight(b) ==
    /\ b.columns \in Seq(Nat)
    /\ b.refs.table # Gone => b.columns = Listed(b, b.refs.table)

CriteriaRight(b) ==
    /\ b.refs.filter = b.refs.table
    /\ DOMAIN b.criteria \subseteq Nat
    /\ \A n \in DOMAIN b.criteria : /\ b.refs.filter # Gone
                                    /\ b.refs.filter.first + n <= b.refs.filter.last
    /\ b.criteria = [n \in DOMAIN b.criteria |-> b.grid[b.refs.filter.first + n]]

FieldsRight(b) ==
    \A p \in PivotPlaces : /\ InStep(b, p)
                           /\ b.pivots[p].items \in Seq(Nat) /\ b.pivots[p].used \subseteq Nat
                           /\ \A n \in b.pivots[p].used : n < Len(b.pivots[p].items)

ItemsRight(b) ==
    /\ Parts(b)
    /\ axis = "column" => TableRight(b) /\ CriteriaRight(b) /\ FieldsRight(b)

(* What the pass over the sheet makes of the items of the snapshot, and    *)
(* what that of the other pivot tables does.                               *)
ItemsHalfway ==
    /\ book.dimensions = MovedDimensions(snapshot.dimensions)
    /\ book.pane = MovedPane(snapshot.pane)
    /\ book.anchor = [from |-> TransformPosition(snapshot.anchor.from, edit),
                      to   |-> TransformPosition(snapshot.anchor.to, edit)]
    /\ book.columns = TableColumns(snapshot.columns, snapshot.refs.table)
    /\ book.criteria = FilterColumns(snapshot.criteria, snapshot.refs.filter)
    /\ DOMAIN book.pivots = PivotPlaces
    /\ \A p \in PivotPlaces :
         IF p \in Passed
         THEN /\ ~FieldsThrow(snapshot.pivots[p], snapshot.refs[p])
              /\ book.pivots[p] = RepairedPivot(snapshot.pivots[p], snapshot.refs[p], TRUE)
         ELSE book.pivots[p] = snapshot.pivots[p]
    /\ edit.action = "insert" =>
         \A n \in DOMAIN snapshot.dimensions : n < edit.index \/ n <= Limit - edit.amount

ItemsInv ==
    /\ ItemsRight(snapshot)
    /\ spelling = "exact"
    /\ pc \notin {"idle", "shift"} => ItemsHalfway

-----------------------------------------------------------------------------
(* Sequences with a part put in or cut out: what is in them after m        *)
(* entries were put in, or cut out.                                        *)
IsPut(t, s, at, new, m) ==
    /\ t \in Seq(Nat) /\ Len(t) = Len(s) + m
    /\ \A x \in 1 .. Len(s) + m : t[x] = IF x < at THEN s[x] ELSE IF x < at + m THEN new[x - at + 1] ELSE s[x - m]
IsCut(t, s, from, to, m) ==
    /\ t \in Seq(Nat) /\ Len(t) = Len(s) - m
    /\ \A x \in 1 .. Len(s) - m : t[x] = IF x < from THEN s[x] ELSE s[x + m]

LEMMA PutInto ==
    ASSUME NEW s \in Seq(Nat), NEW at \in Nat, 1 <= at, at <= Len(s) + 1,
           NEW new \in Seq(Nat), NEW m \in Nat, m = Len(new)
    PROVE  IsPut(Put(s, at, new), s, at, new, m)
<1> DEFINE a == SubSeq(s, 1, at - 1)
           c == SubSeq(s, at, Len(s))
           n == Len(s)
<1>1. n \in Nat /\ m \in Nat
  OBVIOUS
<1>2. /\ a \in Seq(Nat) /\ Len(a) = at - 1
      /\ \A k \in 1 .. at - 1 : a[k] = s[k]
  <2> DEFINE w == at - 1
  <2>1. w \in Nat /\ 1 \in Nat /\ 1 <= w + 1 /\ w <= Len(s)
    BY <1>1
  <2> HIDE DEF w
  <2>2. /\ SubSeq(s, 1, w) \in Seq(Nat) /\ Len(SubSeq(s, 1, w)) = w - 1 + 1
        /\ \A k \in 1 .. w - 1 + 1 : SubSeq(s, 1, w)[k] = s[1 + k - 1]
    BY <2>1, PartOf
  <2>3. w - 1 + 1 = w /\ \A k \in 1 .. w : 1 + k - 1 = k
    BY <2>1
  <2> QED BY <2>2, <2>3 DEF w
<1>3. /\ c \in Seq(Nat) /\ Len(c) = n - at + 1
      /\ \A k \in 1 .. n - at + 1 : c[k] = s[at + k - 1]
  <2>1. n \in Nat /\ at <= n + 1 /\ n <= Len(s)
    BY <1>1
  <2> HIDE DEF n
  <2>2. /\ SubSeq(s, at, n) \in Seq(Nat) /\ Len(SubSeq(s, at, n)) = n - at + 1
        /\ \A k \in 1 .. n - at + 1 : SubSeq(s, at, n)[k] = s[at + k - 1]
    BY <2>1, PartOf
  <2> QED BY <2>2 DEF n
<1>4. Put(s, at, new) = a \o new \o c
  BY DEF Put
<1> HIDE DEF a, c
<1> DEFINE t == a \o new \o c
<1>5. /\ t \in Seq(Nat) /\ Len(t) = Len(a) + m + Len(c)
      /\ \A k \in 1 .. Len(a) + m + Len(c) :
            t[k] = IF k <= Len(a) THEN a[k]
                   ELSE IF k <= Len(a) + m THEN new[k - Len(a)] ELSE c[k - (Len(a) + m)]
  <2> HIDE DEF t
  <2>1. /\ a \o new \o c \in Seq(Nat) /\ Len(a \o new \o c) = Len(a) + Len(new) + Len(c)
        /\ \A k \in 1 .. Len(a) + Len(new) + Len(c) :
             (a \o new \o c)[k] = IF k <= Len(a) THEN a[k]
                                  ELSE IF k <= Len(a) + Len(new) THEN new[k - Len(a)]
                                  ELSE c[k - (Len(a) + Len(new))]
    BY <1>2, <1>3, Concatenated, ZenonT(60)
  <2> QED BY <2>1 DEF t
<1> HIDE DEF t, n
<1>6. Len(t) = n + m
  BY <1>1, <1>2, <1>3, <1>5
<1>7. ASSUME NEW k \in 1 .. n + m
      PROVE  t[k] = IF k < at THEN s[k] ELSE IF k < at + m THEN new[k - at + 1] ELSE s[k - m]
  <2>1. t[k] = IF k <= at - 1 THEN a[k]
               ELSE IF k <= at - 1 + m THEN new[k - (at - 1)] ELSE c[k - (at - 1 + m)]
    BY <1>1, <1>2, <1>3, <1>5
  <2>2. CASE k < at
    <3>1. k <= at - 1 /\ k \in 1 .. at - 1
      BY <1>1, <2>2
    <3> QED BY <1>2, <2>1, <2>2, <3>1
  <2>3. CASE ~(k < at) /\ k < at + m
    <3>1. ~(k <= at - 1) /\ k <= at - 1 + m /\ k - (at - 1) = k - at + 1
      BY <1>1, <2>3
    <3> QED BY <2>1, <2>3, <3>1
  <2>4. CASE ~(k < at) /\ ~(k < at + m)
    <3> DEFINE j == k - (at - 1 + m)
    <3>1. ~(k <= at - 1) /\ ~(k <= at - 1 + m) /\ j \in 1 .. n - at + 1 /\ at + j - 1 = k - m
      BY <1>1, <2>4
    <3> HIDE DEF j
    <3>2. c[j] = s[k - m]
      BY <1>3, <3>1
    <3>3. t[k] = c[j]
      BY <2>1, <3>1 DEF j
    <3> QED BY <2>4, <3>2, <3>3
  <2> QED BY <2>2, <2>3, <2>4
<1>8. t \in Seq(Nat) /\ Len(t) = Len(s) + m
  BY <1>5, <1>6 DEF n
<1>9. IsPut(t, s, at, new, m)
  BY <1>7, <1>8, Zenon DEF IsPut, n
<1> QED BY <1>4, <1>9 DEF t

LEMMA CutOut ==
    ASSUME NEW s \in Seq(Nat), NEW from \in Nat, NEW to \in Nat,
           1 <= from, from <= to + 1, to <= Len(s), NEW m \in Nat, m = to - from + 1
    PROVE  IsCut(Cut(s, from, to), s, from, to, m)
<1> DEFINE a == SubSeq(s, 1, from - 1)
           n == Len(s)
           c == SubSeq(s, to + 1, n)
<1>1. n \in Nat /\ m \in Nat
  OBVIOUS
<1>2. /\ a \in Seq(Nat) /\ Len(a) = from - 1
      /\ \A k \in 1 .. from - 1 : a[k] = s[k]
  <2> DEFINE w == from - 1
  <2>1. w \in Nat /\ 1 \in Nat /\ 1 <= w + 1 /\ w <= Len(s)
    BY <1>1
  <2> HIDE DEF w
  <2>2. /\ SubSeq(s, 1, w) \in Seq(Nat) /\ Len(SubSeq(s, 1, w)) = w - 1 + 1
        /\ \A k \in 1 .. w - 1 + 1 : SubSeq(s, 1, w)[k] = s[1 + k - 1]
    BY <2>1, PartOf
  <2>3. w - 1 + 1 = w /\ \A k \in 1 .. w : 1 + k - 1 = k
    BY <2>1
  <2> QED BY <2>2, <2>3 DEF w
<1>3. /\ c \in Seq(Nat) /\ Len(c) = n - to
      /\ \A k \in 1 .. n - to : c[k] = s[to + k]
  <2>1. n \in Nat /\ to + 1 \in Nat /\ 1 <= to + 1 /\ to + 1 <= n + 1 /\ n <= Len(s)
    BY <1>1
  <2> HIDE DEF n
  <2>2. /\ c \in Seq(Nat) /\ Len(c) = n - (to + 1) + 1
        /\ \A k \in 1 .. n - (to + 1) + 1 : c[k] = s[(to + 1) + k - 1]
    BY <2>1, PartOf
  <2> HIDE DEF c
  <2>3. n - (to + 1) + 1 = n - to /\ \A k \in 1 .. n - to : (to + 1) + k - 1 = to + k
    BY <2>1
  <2> QED BY <2>2, <2>3
<1>4. Cut(s, from, to) = a \o c
  BY DEF Cut
<1> HIDE DEF a, c
<1> DEFINE t == a \o c
<1>5. /\ t \in Seq(Nat) /\ Len(t) = Len(a) + Len(c)
      /\ \A k \in 1 .. Len(a) + Len(c) : t[k] = IF k <= Len(a) THEN a[k] ELSE c[k - Len(a)]
  <2>1. a \in Seq(Nat) /\ c \in Seq(Nat)
    BY <1>2, <1>3
  <2> QED BY <2>1, ConcatProperties
<1> HIDE DEF t, n
<1>6. Len(t) = n - m
  <2>1. Len(a) = from - 1 /\ Len(c) = n - to /\ Len(t) = Len(a) + Len(c)
    BY <1>2, <1>3, <1>5
  <2>2. (from - 1) + (n - to) = n - m
    BY <1>1
  <2> QED BY <2>1, <2>2
<1>7. ASSUME NEW k \in 1 .. n - m PROVE t[k] = IF k < from THEN s[k] ELSE s[k + m]
  <2>1. k \in 1 .. Len(a) + Len(c)
    BY <1>1, <1>2, <1>3
  <2>4. t[k] = IF k <= Len(a) THEN a[k] ELSE c[k - Len(a)]
    BY <1>5, <2>1
  <2>5. t[k] = IF k <= from - 1 THEN a[k] ELSE c[k - (from - 1)]
    BY <1>2, <2>4
  <2>2. CASE k < from
    <3>1. k <= from - 1 /\ k \in 1 .. from - 1
      BY <1>1, <2>2
    <3> QED BY <1>2, <2>5, <2>2, <3>1
  <2>3. CASE ~(k < from)
    <3> DEFINE j == k - (from - 1)
    <3>1. ~(k <= from - 1) /\ j \in 1 .. n - to /\ to + j = k + m
      BY <1>1, <2>3
    <3> HIDE DEF j
    <3>2. c[j] = s[k + m]
      BY <1>3, <3>1
    <3>3. t[k] = c[j]
      BY <2>5, <3>1 DEF j
    <3> QED BY <2>3, <3>2, <3>3
  <2> QED BY <2>2, <2>3
<1>8. t \in Seq(Nat) /\ Len(t) = Len(s) - m
  BY <1>5, <1>6 DEF n
<1>9. IsCut(t, s, from, to, m)
  BY <1>7, <1>8, Zenon DEF IsCut, n
<1> QED BY <1>4, <1>9 DEF t

LEMMA TailOf ==
    ASSUME NEW s \in Seq(Nat), Len(s) >= 1
    PROVE  /\ Tail(s) \in Seq(Nat) /\ Len(Tail(s)) = Len(s) - 1 /\ s # <<>>
           /\ \A k \in 1 .. Len(s) - 1 : Tail(s)[k] = s[k + 1]
<1>1. s # <<>>
  OBVIOUS
<1> QED BY <1>1, HeadTailProperties

LEMMA SameSequence ==
    ASSUME NEW s \in Seq(Nat), NEW t \in Seq(Nat), NEW n \in Nat, Len(s) = n, Len(t) = n,
           \A k \in 1 .. n : s[k] = t[k]
    PROVE  s = t
BY SeqEqual

(* The lines of an interval.                                               *)
Lines(g, i) == SubSeq(g, i.first, i.last)

LEMMA LinesAre ==
    ASSUME NEW g \in [Coordinates -> Nat], NEW i \in Intervals
    PROVE  /\ Lines(g, i) \in Seq(Nat) /\ Len(Lines(g, i)) = i.last - i.first + 1
           /\ \A k \in 1 .. i.last - i.first + 1 : Lines(g, i)[k] = g[i.first + k - 1]
<1>1. /\ i.first \in Nat /\ i.last \in Nat /\ 1 <= i.first /\ i.first <= i.last /\ i.last <= Limit
      /\ i.first <= i.last + 1
  BY CoordinatesAreNumbers DEF Intervals
<1>2. g \in Seq(Nat) /\ Len(g) = Limit
  BY GridIsSequence
<1> QED BY <1>1, <1>2, PartOf DEF Lines

LEMMA ListedIs ==
    ASSUME NEW b, NEW i \in Intervals
    PROVE  Listed(b, i) = Lines(b.grid, i) /\ i # Gone
<1>1. i.first \in Nat /\ 1 <= i.first
  BY CoordinatesAreNumbers DEF Intervals
<1>2. i # Gone
  BY <1>1 DEF Gone
<1> QED BY <1>2 DEF Listed, Lines

-----------------------------------------------------------------------------
(* Where an edit takes a line.                                             *)
LEMMA LineMoves ==
    ASSUME edit \in Edits, fresh \in Nat, NEW g, Grid(g, fresh), NEW c \in Coordinates, Survives(c, edit)
    PROVE  ShiftedGrid(g)[MapCoordinate(c, edit)] = g[c]
<1> DEFINE h == ShiftedGrid(g)
           index == edit.index
           amount == edit.amount
           k == MapCoordinate(c, edit)
<1>1. /\ g \in [Coordinates -> Nat] /\ index \in Nat /\ amount \in Nat /\ 1 <= index /\ 1 <= amount
      /\ c \in Nat /\ Limit \in Nat /\ 1 <= c /\ c <= Limit /\ edit.action \in {"insert", "delete"}
      /\ k \in Coordinates /\ k \in Nat /\ 1 <= k /\ k <= Limit
  BY CoordinatesAreNumbers DEF Grid, Survives
<1>2. CASE edit.action = "insert"
  <2>1. \A n \in Coordinates : h[n] = IF n < index THEN g[n]
                                      ELSE IF n < index + amount THEN fresh + (n - index)
                                      ELSE g[n - amount]
    BY <1>1, <1>2, InsertedGrid
  <2>2. k = IF c >= index THEN c + amount ELSE c
    BY <1>2 DEF MapCoordinate
  <2> HIDE DEF h, k, index, amount
  <2>3. h[k] = g[c]
    <3>1. CASE c >= index
      <4>1. ~(k < index) /\ ~(k < index + amount) /\ k - amount = c
        BY <1>1, <2>2, <3>1
      <4> QED BY <1>1, <2>1, <4>1
    <3>2. CASE ~(c >= index)
      <4>1. k < index /\ k = c
        BY <1>1, <2>2, <3>2
      <4> QED BY <1>1, <2>1, <4>1
    <3> QED BY <3>1, <3>2
  <2> QED BY <2>3 DEF h, k
<1>3. CASE edit.action = "delete"
  <2> DEFINE lost == LastCut - index + 1
  <2>1. \A n \in Coordinates : h[n] = IF n < index THEN g[n]
                                      ELSE IF n <= Limit - lost THEN g[n + lost]
                                      ELSE fresh + (n - (Limit - lost)) - 1
    BY <1>1, <1>3, DeletedGrid
  <2>2. k = IF c < index THEN c ELSE IF c < index + amount THEN 0 ELSE c - amount
    BY <1>3 DEF MapCoordinate, CutEnd
  <2>3. c >= index + amount => lost = amount
    BY <1>1 DEF LastCut, CutEnd
  <2> HIDE DEF h, k, index, amount, lost
  <2>4. h[k] = g[c]
    <3>1. CASE c < index
      <4>1. k < index /\ k = c
        BY <1>1, <2>2, <3>1
      <4> QED BY <1>1, <2>1, <4>1
    <3>2. CASE ~(c < index)
      <4>1. c >= index + amount /\ k = c - amount
        BY <1>1, <2>2, <3>2
      <4>2. ~(k < index) /\ k <= Limit - lost /\ k + lost = c
        BY <1>1, <2>3, <4>1
      <4> QED BY <1>1, <2>1, <4>2
    <3> QED BY <3>1, <3>2
  <2> QED BY <2>4 DEF h, k
<1> QED BY <1>1, <1>2, <1>3

(* What is on a line of the edited sheet is new or has moved there.        *)
LEMMA LineCameFrom ==
    ASSUME edit \in Edits, fresh \in Nat, NEW g, Grid(g, fresh), NEW k \in Coordinates
    PROVE  \/ ShiftedGrid(g)[k] >= fresh
           \/ \E c \in Coordinates : MapCoordinate(c, edit) = k /\ g[c] = ShiftedGrid(g)[k]
<1> DEFINE h == ShiftedGrid(g)
           index == edit.index
           amount == edit.amount
<1>1. /\ g \in [Coordinates -> Nat] /\ index \in Nat /\ amount \in Nat /\ 1 <= index /\ 1 <= amount
      /\ k \in Nat /\ Limit \in Nat /\ 1 <= k /\ k <= Limit /\ edit.action \in {"insert", "delete"}
  BY CoordinatesAreNumbers DEF Grid
<1>2. CASE edit.action = "insert"
  <2>1. h[k] = IF k < index THEN g[k]
               ELSE IF k < index + amount THEN fresh + (k - index) ELSE g[k - amount]
    BY <1>1, <1>2, InsertedGrid
  <2>2. \A c \in Coordinates : MapCoordinate(c, edit) = IF c >= index THEN c + amount ELSE c
    BY <1>2 DEF MapCoordinate
  <2> HIDE DEF h, index, amount
  <2>3. CASE k < index
    <3>1. MapCoordinate(k, edit) = k
      BY <1>1, <2>2, <2>3
    <3> QED BY <2>1, <2>3, <3>1 DEF h
  <2>4. CASE ~(k < index) /\ k < index + amount
    <3>1. fresh + (k - index) >= fresh
      BY <1>1, <2>4
    <3> QED BY <2>1, <2>4, <3>1 DEF h
  <2>5. CASE ~(k < index) /\ ~(k < index + amount)
    <3> DEFINE c == k - amount
    <3>1. c \in Coordinates /\ c >= index /\ c + amount = k
      BY <1>1, <2>5 DEF Coordinates
    <3>2. h[k] = g[c]
      BY <2>1, <2>5
    <3> HIDE DEF c
    <3>3. MapCoordinate(c, edit) = k
      BY <2>2, <3>1
    <3> QED BY <3>1, <3>2, <3>3 DEF h
  <2> QED BY <2>3, <2>4, <2>5
<1>3. CASE edit.action = "delete"
  <2> DEFINE lost == LastCut - index + 1
  <2>1. h[k] = IF k < index THEN g[k]
               ELSE IF k <= Limit - lost THEN g[k + lost]
               ELSE fresh + (k - (Limit - lost)) - 1
    BY <1>1, <1>3, DeletedGrid
  <2>2. \A c \in Coordinates :
          MapCoordinate(c, edit) = IF c < index THEN c ELSE IF c < index + amount THEN 0 ELSE c - amount
    BY <1>3 DEF MapCoordinate, CutEnd
  <2>3. lost \in Nat /\ (lost = amount \/ lost = Limit - index + 1)
    BY <1>1, LastCutOnSheet
  <2> HIDE DEF h, index, amount, lost
  <2>4. CASE k < index
    <3>1. MapCoordinate(k, edit) = k
      BY <1>1, <2>2, <2>4
    <3> QED BY <2>1, <2>4, <3>1 DEF h
  <2>5. CASE ~(k < index) /\ k <= Limit - lost
    <3> DEFINE c == k + lost
    <3>1. lost = amount
      BY <1>1, <2>3, <2>5
    <3>2. c \in Coordinates /\ ~(c < index) /\ ~(c < index + amount) /\ c - amount = k
      BY <1>1, <2>5, <3>1 DEF Coordinates
    <3>3. h[k] = g[c]
      BY <2>1, <2>5
    <3> HIDE DEF c
    <3>4. MapCoordinate(c, edit) = k
      BY <2>2, <3>2
    <3> QED BY <3>2, <3>3, <3>4 DEF h
  <2>6. CASE ~(k < index) /\ ~(k <= Limit - lost)
    <3>1. fresh + (k - (Limit - lost)) - 1 >= fresh
      BY <1>1, <2>3, <2>6
    <3> QED BY <2>1, <2>6, <3>1 DEF h
  <2> QED BY <2>4, <2>5, <2>6
<1> QED BY <1>1, <1>2, <1>3

LEMMA LineGone ==
    ASSUME edit \in Edits, fresh \in Nat, NEW g, Grid(g, fresh), NEW c \in Coordinates
    PROVE  g[c] \in Range(ShiftedGrid(g)) <=> Survives(c, edit)
<1> DEFINE h == ShiftedGrid(g)
<1>1. /\ g \in [Coordinates -> Nat] /\ g[c] < fresh /\ g[c] \in Nat
      /\ \A k, n \in Coordinates : g[k] = g[n] => k = n
  BY DEF Grid
<1>2. h \in [Coordinates -> Nat]
  BY GridAfter DEF Grid
<1>3. ASSUME g[c] \in Range(h) PROVE Survives(c, edit)
  <2>1. PICK k \in Coordinates : h[k] = g[c]
    BY <1>2, <1>3 DEF Range
  <2>2. ~(h[k] >= fresh)
    BY <1>1, <2>1
  <2>3. PICK a \in Coordinates : MapCoordinate(a, edit) = k /\ g[a] = h[k]
    BY <2>2, LineCameFrom
  <2> QED BY <1>1, <2>1, <2>3 DEF Survives
<1>4. ASSUME Survives(c, edit) PROVE g[c] \in Range(h)
  <2>1. h[MapCoordinate(c, edit)] = g[c]
    BY <1>4, LineMoves
  <2> QED BY <1>2, <1>4, <2>1 DEF Range, Survives
<1> QED BY <1>3, <1>4

-----------------------------------------------------------------------------
(* What an edit makes of the lines of an interval: the same lines, with    *)
(* new ones put in, or with the deleted ones cut out.                      *)
LEMMA IntervalIs ==
    ASSUME NEW i \in Intervals
    PROVE  /\ i.first \in Nat /\ i.last \in Nat /\ 1 <= i.first /\ i.first <= i.last /\ i.last <= Limit
           /\ i # Gone /\ Limit \in Nat /\ i.first \in Coordinates /\ i.last \in Coordinates
           /\ \A e : Rewrite(i, e) = TransformInterval(i, e)
<1>1. /\ i.first \in Nat /\ i.last \in Nat /\ 1 <= i.first /\ i.first <= i.last /\ i.last <= Limit
      /\ Limit \in Nat /\ i.first \in Coordinates /\ i.last \in Coordinates
  BY CoordinatesAreNumbers DEF Intervals
<1>2. i # Gone
  BY <1>1 DEF Gone
<1> QED BY <1>1, <1>2 DEF Rewrite

LEMMA EditIs ==
    ASSUME edit \in Edits
    PROVE  /\ edit.index \in Nat /\ edit.amount \in Nat /\ 1 <= edit.index /\ 1 <= edit.amount
           /\ edit.index <= Limit /\ edit.amount <= Limit
           /\ edit.action \in {"insert", "delete"} /\ CutEnd(edit) = edit.index + edit.amount
BY CoordinatesAreNumbers DEF CutEnd

LEMMA LinesUntouched ==
    ASSUME edit \in Edits, fresh \in Nat, NEW g, Grid(g, fresh), NEW i \in Intervals, ~Touches(edit, i)
    PROVE  Rewrite(i, edit) = i /\ Lines(ShiftedGrid(g), i) = Lines(g, i)
<1>1. Rewrite(i, edit) = i /\ i.last < edit.index
  BY UntouchedStays
<1>2. \A k \in Coordinates : k <= i.last => g[k] = ShiftedGrid(g)[k]
  BY <1>1, LinesBefore, EditIs, IntervalIs, CoordinatesAreNumbers
<1>3. g \in [Coordinates -> Nat] /\ ShiftedGrid(g) \in [Coordinates -> Nat]
  BY GridAfter DEF Grid
<1>4. SubSeq(g, i.first, i.last) = SubSeq(ShiftedGrid(g), i.first, i.last)
  BY <1>2, <1>3, SameParts
<1> QED BY <1>1, <1>4 DEF Lines

(* An interval that moves as a whole.                                      *)
LEMMA LinesMove ==
    ASSUME edit \in Edits, fresh \in Nat, NEW g, Grid(g, fresh), NEW i \in Intervals, NEW j \in Intervals,
           NEW d \in Int, j.first = i.first + d, j.last = i.last + d,
           \A c \in Coordinates : i.first <= c /\ c <= i.last => MapCoordinate(c, edit) = c + d
    PROVE  Lines(ShiftedGrid(g), j) = Lines(g, i)
<1> DEFINE h == ShiftedGrid(g)
           s == Lines(g, i)
           t == Lines(h, j)
           n == i.last - i.first + 1
<1>1. g \in [Coordinates -> Nat] /\ h \in [Coordinates -> Nat]
  BY GridAfter DEF Grid
<1>2. /\ i.first \in Nat /\ i.last \in Nat /\ 1 <= i.first /\ i.first <= i.last /\ i.last <= Limit
      /\ j.first \in Nat /\ j.last \in Nat /\ 1 <= j.first /\ j.last <= Limit /\ Limit \in Nat
  BY IntervalIs
<1>3. n \in Nat /\ j.last - j.first + 1 = n
  BY <1>2
<1>4. s \in Seq(Nat) /\ Len(s) = n /\ \A k \in 1 .. n : s[k] = g[i.first + k - 1]
  BY <1>1, LinesAre
<1> HIDE DEF h
<1>5. t \in Seq(Nat) /\ Len(t) = n /\ \A k \in 1 .. n : t[k] = h[j.first + k - 1]
  <2>1. /\ t \in Seq(Nat) /\ Len(t) = j.last - j.first + 1
        /\ \A k \in 1 .. j.last - j.first + 1 : t[k] = h[j.first + k - 1]
    BY <1>1, LinesAre
  <2> HIDE DEF n, t
  <2> QED BY <1>3, <2>1
<1> HIDE DEF s, t
<1>6. ASSUME NEW k \in 1 .. n PROVE s[k] = t[k]
  <2> DEFINE c == i.first + k - 1
  <2>1. /\ c \in Coordinates /\ i.first <= c /\ c <= i.last /\ c + d = j.first + k - 1
        /\ c + d \in Coordinates
    BY <1>2 DEF Coordinates
  <2>2. s[k] = g[c]
    BY <1>4
  <2>3. t[k] = h[j.first + k - 1]
    BY <1>5
  <2> HIDE DEF c
  <2>4. MapCoordinate(c, edit) = c + d
    BY <2>1
  <2>5. h[c + d] = g[c]
    BY <2>1, <2>4, LineMoves DEF h, Survives
  <2> QED BY <2>1, <2>2, <2>3, <2>5
<1> HIDE DEF n
<1> QED BY <1>3, <1>4, <1>5, <1>6, SameSequence DEF s, t, h

LEMMA LinesPushedDown ==
    ASSUME edit \in Edits, edit.action = "insert", fresh \in Nat, NEW g, Grid(g, fresh),
           NEW i \in Intervals, edit.index <= i.first, i.last <= Limit - edit.amount
    PROVE  /\ Rewrite(i, edit) = [first |-> i.first + edit.amount, last |-> i.last + edit.amount]
           /\ Rewrite(i, edit) \in Intervals
           /\ Lines(ShiftedGrid(g), Rewrite(i, edit)) = Lines(g, i)
<1> DEFINE d == edit.amount
           j == [first |-> i.first + d, last |-> i.last + d]
<1>1. /\ edit.index \in Nat /\ d \in Nat /\ i.first \in Nat /\ i.last \in Nat /\ Limit \in Nat
      /\ 1 <= i.first /\ i.first <= i.last /\ i.last <= Limit /\ Rewrite(i, edit) = TransformInterval(i, edit)
  BY EditIs, IntervalIs
<1>2. Rewrite(i, edit) = j
  BY <1>1 DEF TransformInterval, InsertedInto, Grown
<1>3. j \in Intervals
  BY <1>1 DEF Intervals, Coordinates
<1>4. \A c \in Coordinates : i.first <= c /\ c <= i.last => MapCoordinate(c, edit) = c + d
  BY <1>1, CoordinatesAreNumbers DEF MapCoordinate
<1>5. j.first = i.first + d /\ j.last = i.last + d /\ d \in Int
  BY <1>1
<1> HIDE DEF j, d
<1>6. Lines(ShiftedGrid(g), j) = Lines(g, i)
  BY <1>3, <1>4, <1>5, LinesMove
<1>7. j = [first |-> i.first + edit.amount, last |-> i.last + edit.amount]
  BY DEF j, d
<1> QED BY <1>2, <1>3, <1>6, <1>7

LEMMA LinesPulledUp ==
    ASSUME edit \in Edits, edit.action = "delete", fresh \in Nat, NEW g, Grid(g, fresh),
           NEW i \in Intervals, CutEnd(edit) <= i.first
    PROVE  /\ Rewrite(i, edit) = [first |-> i.first - edit.amount, last |-> i.last - edit.amount]
           /\ Rewrite(i, edit) \in Intervals
           /\ Lines(ShiftedGrid(g), Rewrite(i, edit)) = Lines(g, i)
<1> DEFINE d == 0 - edit.amount
           j == [first |-> i.first - edit.amount, last |-> i.last - edit.amount]
<1>1. /\ edit.index \in Nat /\ edit.amount \in Nat /\ i.first \in Nat /\ i.last \in Nat /\ Limit \in Nat
      /\ 1 <= edit.index /\ 1 <= i.first /\ i.first <= i.last /\ i.last <= Limit
      /\ Rewrite(i, edit) = TransformInterval(i, edit) /\ CutEnd(edit) = edit.index + edit.amount
  BY EditIs, IntervalIs
<1>2. Rewrite(i, edit) = j
  BY <1>1 DEF TransformInterval, DeletedFrom
<1>3. j \in Intervals
  BY <1>1 DEF Intervals, Coordinates
<1>4. \A c \in Coordinates : i.first <= c /\ c <= i.last => MapCoordinate(c, edit) = c + d
  BY <1>1, CoordinatesAreNumbers DEF MapCoordinate
<1>5. j.first = i.first + d /\ j.last = i.last + d /\ d \in Int
  BY <1>1
<1> HIDE DEF j, d
<1>6. Lines(ShiftedGrid(g), j) = Lines(g, i)
  BY <1>3, <1>4, <1>5, LinesMove
<1>7. j = [first |-> i.first - edit.amount, last |-> i.last - edit.amount]
  BY DEF j
<1> QED BY <1>2, <1>3, <1>6, <1>7

LEMMA LinesPutIn ==
    ASSUME edit \in Edits, edit.action = "insert", fresh \in Nat, NEW g, Grid(g, fresh),
           NEW i \in Intervals, i.first < edit.index, edit.index <= i.last, i.last <= Limit - edit.amount
    PROVE  /\ Rewrite(i, edit) = [first |-> i.first, last |-> i.last + edit.amount]
           /\ Rewrite(i, edit) \in Intervals
           /\ Lines(ShiftedGrid(g), Rewrite(i, edit))
                = Put(Lines(g, i), edit.index - i.first + 1, NewLines)
<1> DEFINE h == ShiftedGrid(g)
           index == edit.index
           m == edit.amount
           first == i.first
           last == i.last
           j == [first |-> first, last |-> last + m]
           s == Lines(g, i)
           t == Lines(h, j)
           n == last - first + 1
           at == index - first + 1
           u == Put(s, at, NewLines)
<1>1. /\ index \in Nat /\ m \in Nat /\ first \in Nat /\ last \in Nat /\ Limit \in Nat
      /\ 1 <= first /\ first <= last /\ last <= Limit /\ Rewrite(i, edit) = TransformInterval(i, edit)
      /\ 1 <= index /\ 1 <= m
  BY EditIs, IntervalIs
<1>2. Rewrite(i, edit) = j
  BY <1>1 DEF TransformInterval, InsertedInto, Grown, Intervals
<1>3. j \in Intervals
  BY <1>1 DEF Intervals, Coordinates
<1>4. /\ g \in [Coordinates -> Nat] /\ h \in [Coordinates -> Nat]
      /\ \A k \in Coordinates : h[k] = IF k < index THEN g[k]
                                       ELSE IF k < index + m THEN fresh + (k - index)
                                       ELSE g[k - m]
  BY InsertedGrid DEF Grid
<1>5. NewLines \in Seq(Nat) /\ Len(NewLines) = m /\ \A k \in 1 .. m : NewLines[k] = fresh + k - 1
  BY NewLinesAre
<1>6. s \in Seq(Nat) /\ Len(s) = n /\ \A k \in 1 .. n : s[k] = g[first + k - 1]
  BY <1>4, LinesAre
<1>7. n \in Nat /\ at \in Nat /\ 1 <= at /\ at <= n + 1 /\ n + m \in Nat
  BY <1>1
<1> HIDE DEF h, s
<1>8. t \in Seq(Nat) /\ Len(t) = n + m /\ \A k \in 1 .. n + m : t[k] = h[first + k - 1]
  <2>1. /\ t \in Seq(Nat) /\ Len(t) = j.last - j.first + 1
        /\ \A k \in 1 .. j.last - j.first + 1 : t[k] = h[j.first + k - 1]
    BY <1>3, <1>4, LinesAre
  <2>2. j.last - j.first + 1 = n + m /\ j.first = first
    BY <1>1
  <2> HIDE DEF n, t, j
  <2> QED BY <2>1, <2>2
<1> HIDE DEF t, j, at, n, u, index, m, first, last
<1>9. /\ u \in Seq(Nat) /\ Len(u) = n + m
      /\ \A k \in 1 .. n + m : u[k] = IF k < at THEN s[k]
                                      ELSE IF k < at + m THEN NewLines[k - at + 1] ELSE s[k - m]
  <2>1. at <= Len(s) + 1
    BY <1>6, <1>7
  <2>2. /\ Put(s, at, NewLines) \in Seq(Nat) /\ Len(Put(s, at, NewLines)) = Len(s) + m
        /\ \A k \in 1 .. Len(s) + m :
             Put(s, at, NewLines)[k] = IF k < at THEN s[k]
                                       ELSE IF k < at + m THEN NewLines[k - at + 1] ELSE s[k - m]
    <3>1. m \in Nat /\ m = Len(NewLines) /\ NewLines \in Seq(Nat) /\ s \in Seq(Nat) /\ at \in Nat /\ 1 <= at
      BY <1>1, <1>5, <1>6, <1>7 DEF m
    <3>2. IsPut(Put(s, at, NewLines), s, at, NewLines, m)
      BY ONLY <2>1, <3>1, PutInto
    <3> QED BY <3>2, Zenon DEF IsPut
  <2> QED BY <1>6, <2>2 DEF u
<1>10. ASSUME NEW k \in 1 .. n + m PROVE u[k] = t[k]
  <2> DEFINE c == first + k - 1
  <2>1. /\ c \in Coordinates /\ (c < index <=> k < at) /\ (c < index + m <=> k < at + m)
        /\ c - index = k - at
    BY <1>1, <1>7 DEF Coordinates, n, at, first, last, m, index
  <2>2. t[k] = h[c]
    BY <1>8
  <2>3. CASE k < at
    <3>1. s[k] = g[c]
      <4>1. k \in 1 .. n
        BY <1>7, <2>3
      <4> QED BY <1>6, <4>1
    <3>2. h[c] = g[c]
      BY <1>4, <2>1, <2>3
    <3>3. u[k] = s[k]
      BY <1>9, <2>3
    <3> QED BY <2>2, <3>1, <3>2, <3>3
  <2>4. CASE ~(k < at) /\ k < at + m
    <3> DEFINE a == k - at + 1
    <3>1. a \in 1 .. m /\ fresh + (c - index) = fresh + a - 1
      BY <1>1, <1>7, <2>1, <2>4
    <3>2. h[c] = fresh + (c - index)
      BY <1>4, <2>1, <2>4
    <3>3. u[k] = NewLines[a]
      BY <1>9, <2>4
    <3> HIDE DEF a
    <3>4. NewLines[a] = fresh + a - 1
      BY <1>5, <3>1
    <3> QED BY <2>2, <3>1, <3>2, <3>3, <3>4
  <2>5. CASE ~(k < at) /\ ~(k < at + m)
    <3> DEFINE a == k - m
    <3>1. a \in 1 .. n /\ first + a - 1 = c - m
      BY <1>1, <1>7, <2>5
    <3>2. h[c] = g[c - m]
      BY <1>4, <2>1, <2>5
    <3>3. u[k] = s[a]
      BY <1>9, <2>5
    <3> HIDE DEF a
    <3>4. s[a] = g[first + a - 1]
      BY <1>6, <3>1
    <3> QED BY <2>2, <3>1, <3>2, <3>3, <3>4
  <2> QED BY <2>3, <2>4, <2>5
<1>11. u = t
  BY <1>7, <1>8, <1>9, <1>10, SameSequence
<1>12. j = [first |-> i.first, last |-> i.last + edit.amount] /\ at = edit.index - i.first + 1
  BY DEF j, first, last, m, at, index
<1> QED BY <1>2, <1>3, <1>11, <1>12 DEF h, s, t, u

LEMMA LinesCut ==
    ASSUME edit \in Edits, edit.action = "delete", fresh \in Nat, NEW g, Grid(g, fresh),
           NEW i \in Intervals, edit.index <= i.last, i.first < CutEnd(edit), Rewrite(i, edit) # Gone
    PROVE  /\ CutFrom(i) \in Nat /\ CutTo(i) \in Nat
           /\ i.first <= CutFrom(i) /\ CutFrom(i) <= CutTo(i) /\ CutTo(i) <= i.last
           /\ Rewrite(i, edit) \in Intervals
           /\ Rewrite(i, edit).last - Rewrite(i, edit).first
                = (i.last - i.first) - (CutTo(i) - CutFrom(i) + 1)
           /\ Lines(ShiftedGrid(g), Rewrite(i, edit))
                = Cut(Lines(g, i), CutFrom(i) - i.first + 1, CutTo(i) - i.first + 1)
<1> DEFINE h == ShiftedGrid(g)
           index == edit.index
           end == CutEnd(edit)
           first == i.first
           last == i.last
           j == Rewrite(i, edit)
           from == CutFrom(i)
           to == CutTo(i)
           m == to - from + 1
           s == Lines(g, i)
           t == Lines(h, j)
           n == last - first + 1
           u == Cut(s, from - first + 1, to - first + 1)
           lost == LastCut - index + 1
<1>1. /\ index \in Nat /\ edit.amount \in Nat /\ first \in Nat /\ last \in Nat /\ Limit \in Nat
      /\ 1 <= first /\ first <= last /\ last <= Limit /\ j = TransformInterval(i, edit)
      /\ 1 <= index /\ 1 <= edit.amount /\ index <= Limit /\ end = index + edit.amount /\ end \in Nat
  BY EditIs, IntervalIs
<1>2. /\ from = IF index > first THEN index ELSE first
      /\ to = IF end - 1 < last THEN end - 1 ELSE last
  BY DEF CutFrom, CutTo
<1>3. /\ j = [first |-> IF first < index THEN first ELSE index,
              last |-> IF last >= end THEN last - edit.amount ELSE index - 1]
      /\ first < index \/ last >= end
  BY <1>1 DEF TransformInterval, DeletedFrom
<1>4. j \in Intervals
  BY RewriteStays
<1>5. /\ g \in [Coordinates -> Nat] /\ h \in [Coordinates -> Nat]
      /\ \A k \in Coordinates : h[k] = IF k < index THEN g[k]
                                       ELSE IF k <= Limit - lost THEN g[k + lost]
                                       ELSE fresh + (k - (Limit - lost)) - 1
  BY DeletedGrid, GridAfter DEF Grid
<1>6. last >= end => lost = edit.amount
  BY <1>1 DEF LastCut
<1>7. s \in Seq(Nat) /\ Len(s) = n /\ \A k \in 1 .. n : s[k] = g[first + k - 1]
  BY <1>5, LinesAre
<1> HIDE DEF h, s, lost, j
<1>8. t \in Seq(Nat) /\ Len(t) = j.last - j.first + 1
      /\ \A k \in 1 .. j.last - j.first + 1 : t[k] = h[j.first + k - 1]
  BY <1>4, <1>5, LinesAre
<1>9. /\ j.first = (IF first < index THEN first ELSE index)
      /\ j.last = (IF last >= end THEN last - edit.amount ELSE index - 1)
  BY <1>3
<1> HIDE DEF from, to, index, end, first, last, t
<1>10. /\ from \in Nat /\ to \in Nat /\ first <= from /\ from <= to /\ to <= last /\ m \in Nat
  BY <1>1, <1>2 DEF index, end, first, last
<1>11. j.last - j.first + 1 = n - m /\ n - m \in Nat /\ j.last - j.first = (last - first) - m
  BY <1>1, <1>2, <1>3, <1>9
<1> HIDE DEF u
<1>12. /\ u \in Seq(Nat) /\ Len(u) = n - m
       /\ \A k \in 1 .. n - m : u[k] = IF k < from - first + 1 THEN s[k] ELSE s[k + m]
  <2> DEFINE a == from - first + 1
             b == to - first + 1
  <2>1. a \in Nat /\ b \in Nat /\ 1 <= a /\ a <= b + 1 /\ b <= n /\ m = b - a + 1
    BY <1>1, <1>10
  <2> HIDE DEF a, b, m, n
  <2>2. /\ Cut(s, a, b) \in Seq(Nat) /\ Len(Cut(s, a, b)) = Len(s) - m
        /\ \A k \in 1 .. Len(s) - m : Cut(s, a, b)[k] = IF k < a THEN s[k] ELSE s[k + m]
    <3>1. s \in Seq(Nat) /\ b <= Len(s) /\ m \in Nat
      BY <1>7, <1>10, <2>1 DEF m
    <3>2. IsCut(Cut(s, a, b), s, a, b, m)
      BY ONLY <2>1, <3>1, CutOut
    <3> QED BY <3>2, Zenon DEF IsCut
  <2> QED BY <1>7, <2>2 DEF a, b, u
<1> HIDE DEF m, n
<1>13. ASSUME NEW k \in 1 .. n - m PROVE u[k] = t[k]
  <2> DEFINE c == j.first + k - 1
  <2>1. c \in Coordinates
    BY <1>1, <1>4, <1>11, IntervalIs DEF Coordinates
  <2>2. t[k] = h[c]
    BY <1>8, <1>11
  <2>3. k \in Nat /\ 1 <= k /\ k <= n - m
    BY <1>11
  <2>4. CASE c < index
    <3>1. k < from - first + 1 /\ first + k - 1 = c /\ k \in 1 .. n
      BY <1>1, <1>2, <1>9, <1>10, <1>11, <2>3, <2>4 DEF n
    <3>2. s[k] = g[c]
      BY <1>7, <3>1
    <3>3. h[c] = g[c]
      BY <1>5, <2>1, <2>4
    <3> QED BY <1>12, <2>2, <3>1, <3>2, <3>3
  <2>5. CASE ~(c < index)
    <3>1. last >= end
      <4>1. CASE ~(last >= end)
        <5>1. j.last = index - 1 /\ c <= j.last
          BY <1>1, <1>4, <1>9, <1>11, <2>3, <4>1, IntervalIs
        <5> QED BY <1>1, <2>1, <2>5, <5>1, CoordinatesAreNumbers
      <4> QED BY <4>1
    <3>2. lost = edit.amount
      BY <1>6, <3>1
    <3>3. /\ ~(k < from - first + 1) /\ first + (k + m) - 1 = c + lost /\ k + m \in 1 .. n
          /\ c <= Limit - lost
      BY <1>1, <1>2, <1>9, <1>10, <1>11, <2>3, <2>5, <3>1, <3>2 DEF n, m
    <3> DEFINE a == k + m
    <3>4. s[a] = g[first + a - 1]
      BY <1>7, <3>3
    <3>5. h[c] = g[c + lost]
      BY <1>5, <2>1, <2>5, <3>3
    <3> QED BY <1>12, <2>2, <3>3, <3>4, <3>5
  <2> QED BY <2>4, <2>5
<1>14. u = t
  BY <1>8, <1>11, <1>12, <1>13, SameSequence, ZenonT(60)
<1> QED BY <1>4, <1>10, <1>11, <1>14 DEF h, s, t, u, j, from, to, first, last, m

-----------------------------------------------------------------------------
(* Heights, widths and criteria go with their lines.                       *)
LEMMA MapsApart ==
    ASSUME edit \in Edits, NEW c \in Nat, NEW k \in Nat, MapCoordinate(c, edit) # 0,
           MapCoordinate(c, edit) = MapCoordinate(k, edit), 1 <= k
    PROVE  c = k
<1>1. edit.index \in Nat /\ edit.amount \in Nat /\ edit.action \in {"insert", "delete"} /\ 1 <= edit.index
  BY EditIs
<1>2. CASE edit.action = "insert"
  BY <1>1, <1>2 DEF MapCoordinate, CutEnd
<1>3. CASE edit.action = "delete"
  BY <1>1, <1>3 DEF MapCoordinate, CutEnd
<1> QED BY <1>1, <1>2, <1>3

LEMMA DimensionsMove ==
    ASSUME edit \in Edits, fresh \in Nat, NEW g, Grid(g, fresh), NEW d,
           DOMAIN d \subseteq Coordinates, d = [n \in DOMAIN d |-> g[n]],
           edit.action = "insert" => \A n \in DOMAIN d : n < edit.index \/ n <= Limit - edit.amount
    PROVE  /\ DOMAIN MovedDimensions(d) \subseteq Coordinates
           /\ MovedDimensions(d) = [m \in DOMAIN MovedDimensions(d) |-> ShiftedGrid(g)[m]]
           /\ Range(MovedDimensions(d)) = Range(d) \cap Range(ShiftedGrid(g))
<1> DEFINE h == ShiftedGrid(g)
           new == MovedDimensions(d)
           kept == {n \in DOMAIN d : MapCoordinate(n, edit) # 0}
           at(m) == CHOOSE n \in kept : MapCoordinate(n, edit) = m
<1>1. /\ edit.index \in Nat /\ edit.amount \in Nat /\ edit.action \in {"insert", "delete"} /\ Limit \in Nat
      /\ 1 <= edit.index /\ CutEnd(edit) = edit.index + edit.amount
      /\ \A c \in Coordinates : c \in Nat /\ 1 <= c /\ c <= Limit
  BY EditIs, CoordinatesAreNumbers
<1>2. ASSUME NEW n \in DOMAIN d PROVE Survives(n, edit) <=> n \in kept
  <2>1. n \in Nat /\ 1 <= n /\ n <= Limit
    BY <1>1
  <2>2. CASE edit.action = "insert"
    BY <1>1, <2>1, <2>2 DEF Survives, MapCoordinate, Coordinates
  <2>3. CASE edit.action = "delete"
    BY <1>1, <2>1, <2>3 DEF Survives, MapCoordinate, Coordinates
  <2> QED BY <1>1, <2>2, <2>3
<1>3. /\ DOMAIN new = {MapCoordinate(n, edit) : n \in kept}
      /\ \A m \in {MapCoordinate(n, edit) : n \in kept} : new[m] = d[at(m)]
  BY DEF MovedDimensions
<1>4. ASSUME NEW n \in kept
      PROVE  /\ n \in Coordinates /\ MapCoordinate(n, edit) \in Coordinates
             /\ new[MapCoordinate(n, edit)] = g[n] /\ h[MapCoordinate(n, edit)] = g[n]
             /\ d[n] = g[n]
  <2>1. n \in Coordinates /\ Survives(n, edit) /\ d[n] = g[n]
    BY <1>2
  <2>2. h[MapCoordinate(n, edit)] = g[n]
    BY <2>1, LineMoves
  <2> DEFINE m == MapCoordinate(n, edit)
  <2>3. at(m) \in kept /\ MapCoordinate(at(m), edit) = m
    OBVIOUS
  <2>4. at(m) = n
    <3> DEFINE k == at(m)
    <3>1. k \in kept /\ MapCoordinate(k, edit) = m
      BY <2>3
    <3> HIDE DEF k
    <3>2. k \in Nat /\ n \in Nat /\ 1 <= n /\ MapCoordinate(k, edit) # 0
      BY <1>1, <3>1
    <3>3. k = n
      BY <3>1, <3>2, MapsApart
    <3> QED BY <3>3 DEF k
  <2>5. new[m] = d[n]
    BY <1>3, <2>4
  <2> QED BY <2>1, <2>2, <2>5 DEF Survives
<1> HIDE DEF new, h, at
<1>5. DOMAIN new \subseteq Coordinates /\ \A m \in DOMAIN new : new[m] = h[m]
  BY <1>3, <1>4
<1>6. new = [m \in DOMAIN new |-> h[m]]
  <2>1. new = [m \in DOMAIN new |-> new[m]]
    BY DEF new, MovedDimensions
  <2> QED BY <1>5, <2>1
<1>7. Range(new) \subseteq Range(d) \cap Range(h)
  <2>1. ASSUME NEW x \in Range(new) PROVE x \in Range(d) /\ x \in Range(h)
    <3>1. PICK m \in DOMAIN new : x = new[m]
      BY DEF Range
    <3>2. PICK n \in kept : m = MapCoordinate(n, edit)
      BY <1>3, <3>1
    <3>3. x = d[n] /\ n \in DOMAIN d
      BY <1>4, <3>1, <3>2
    <3>4. x = g[n] /\ n \in Coordinates /\ Survives(n, edit)
      BY <1>2, <1>4, <3>1, <3>2
    <3>5. x \in Range(h)
      BY <3>4, LineGone DEF h
    <3> QED BY <3>3, <3>5 DEF Range
  <2> QED BY <2>1
<1>8. Range(d) \cap Range(h) \subseteq Range(new)
  <2>1. ASSUME NEW x \in Range(d), x \in Range(h) PROVE x \in Range(new)
    <3>1. PICK n \in DOMAIN d : x = d[n]
      BY DEF Range
    <3>2. x = g[n] /\ n \in Coordinates
      BY <3>1
    <3>3. Survives(n, edit)
      BY <2>1, <3>2, LineGone DEF h
    <3>4. n \in kept
      BY <1>2, <3>3
    <3>5. MapCoordinate(n, edit) \in DOMAIN new /\ new[MapCoordinate(n, edit)] = x
      BY <1>3, <1>4, <3>2, <3>4
    <3> QED BY <3>5 DEF Range
  <2> QED BY <2>1
<1> QED BY <1>5, <1>6, <1>7, <1>8 DEF new, h

(* A line of an interval that stays is in the rewritten interval.          *)
LEMMA StaysInside ==
    ASSUME edit \in Edits, NEW i \in Intervals, ~PushedOff(i),
           NEW c \in Coordinates, i.first <= c, c <= i.last
    PROVE  MapCoordinate(c, edit) # 0 =>
             /\ Survives(c, edit) /\ Rewrite(i, edit) \in Intervals
             /\ Rewrite(i, edit).first <= MapCoordinate(c, edit)
             /\ MapCoordinate(c, edit) <= Rewrite(i, edit).last
<1> SUFFICES ASSUME MapCoordinate(c, edit) # 0
             PROVE  /\ Survives(c, edit) /\ Rewrite(i, edit) \in Intervals
                    /\ Rewrite(i, edit).first <= MapCoordinate(c, edit)
                    /\ MapCoordinate(c, edit) <= Rewrite(i, edit).last
  OBVIOUS
<1>1. /\ edit.index \in Nat /\ edit.amount \in Nat /\ i.first \in Nat /\ i.last \in Nat /\ Limit \in Nat
      /\ 1 <= edit.index /\ 1 <= i.first /\ i.first <= i.last /\ i.last <= Limit /\ i # Gone
      /\ Rewrite(i, edit) = TransformInterval(i, edit) /\ CutEnd(edit) = edit.index + edit.amount
      /\ c \in Nat /\ 1 <= c /\ c <= Limit /\ edit.action \in {"insert", "delete"} /\ 1 <= edit.amount
  BY EditIs, IntervalIs, CoordinatesAreNumbers
<1> DEFINE m == MapCoordinate(c, edit)
<1>2. CASE edit.action = "insert"
  <2>1. m = IF c >= edit.index THEN c + edit.amount ELSE c
    BY <1>2 DEF MapCoordinate
  <2>2. edit.index <= i.last => i.last <= Limit - edit.amount
    BY <1>1, <1>2 DEF PushedOff, Touches
  <2>3. Rewrite(i, edit) = IF edit.index <= i.first
                           THEN [first |-> i.first + edit.amount, last |-> i.last + edit.amount]
                           ELSE IF edit.index <= i.last THEN [i EXCEPT !.last = i.last + edit.amount]
                           ELSE i
    BY <1>1, <1>2, <2>2 DEF TransformInterval, InsertedInto, Grown
  <2>4. m \in Coordinates
    BY <1>1, <2>1, <2>2 DEF Coordinates
  <2>5. Rewrite(i, edit).first <= m /\ m <= Rewrite(i, edit).last
    BY <1>1, <2>1, <2>3 DEF Intervals
  <2>6. Rewrite(i, edit) \in Intervals
    BY <1>1, <2>2, <2>3 DEF Intervals, Coordinates
  <2> QED BY <2>4, <2>5, <2>6 DEF Survives
<1>3. CASE edit.action = "delete"
  <2>1. m = IF c < edit.index THEN c ELSE IF c < CutEnd(edit) THEN 0 ELSE c - edit.amount
    BY <1>3 DEF MapCoordinate
  <2>2. c < edit.index \/ c >= CutEnd(edit)
    BY <1>1, <2>1
  <2>3. m \in Coordinates
    BY <1>1, <2>1, <2>2 DEF Coordinates
  <2>4. Rewrite(i, edit) # Gone
    BY <1>1, <1>3, <2>2 DEF TransformInterval, DeletedFrom, Gone
  <2>5. Rewrite(i, edit).first <= m /\ m <= Rewrite(i, edit).last
    BY <1>1, <1>3, <2>1, <2>2 DEF TransformInterval, DeletedFrom
  <2> QED BY <2>3, <2>4, <2>5, RewriteStays DEF Survives
<1> QED BY <1>1, <1>2, <1>3

LEMMA CriteriaMove ==
    ASSUME edit \in Edits, fresh \in Nat, NEW g, Grid(g, fresh), NEW i \in Intervals, ~PushedOff(i),
           axis = "column", NEW r, DOMAIN r \subseteq Nat,
           \A n \in DOMAIN r : i.first + n <= i.last,
           r = [n \in DOMAIN r |-> g[i.first + n]]
    PROVE  /\ Rewrite(i, edit) = Gone => DOMAIN FilterColumns(r, i) = {} /\ FilterColumns(r, i) = <<>>
           /\ Rewrite(i, edit) # Gone =>
                /\ DOMAIN FilterColumns(r, i) \subseteq Nat
                /\ \A m \in DOMAIN FilterColumns(r, i) : Rewrite(i, edit).first + m <= Rewrite(i, edit).last
                /\ FilterColumns(r, i) = [m \in DOMAIN FilterColumns(r, i) |->
                                             ShiftedGrid(g)[Rewrite(i, edit).first + m]]
                /\ Range(FilterColumns(r, i)) = Range(r) \cap Range(ShiftedGrid(g))
<1> DEFINE h == ShiftedGrid(g)
           j == Rewrite(i, edit)
           new == FilterColumns(r, i)
           id(n) == MapCoordinate(i.first + n, edit) - j.first
           kept == {n \in DOMAIN r : MapCoordinate(i.first + n, edit) # 0 /\ id(n) >= 0}
           at(m) == CHOOSE n \in kept : id(n) = m
<1>1. j = Gone => new = <<>>
  BY DEF FilterColumns
<1>2. SUFFICES ASSUME j # Gone
      PROVE  /\ DOMAIN new \subseteq Nat
             /\ \A m \in DOMAIN new : j.first + m <= j.last
             /\ new = [m \in DOMAIN new |-> h[j.first + m]]
             /\ Range(new) = Range(r) \cap Range(h)
  BY <1>1
<1>3. j \in Intervals
  BY <1>2, RewriteStays
<1>4. j.first \in Nat /\ j.last \in Nat /\ i.first \in Nat /\ i.last \in Nat /\ Limit \in Nat
      /\ 1 <= i.first /\ i.last <= Limit /\ j.last <= Limit
  BY <1>3, IntervalIs
<1>5. ASSUME NEW n \in DOMAIN r
      PROVE  /\ i.first + n \in Coordinates /\ n \in Nat
             /\ MapCoordinate(i.first + n, edit) \in Int
             /\ Survives(i.first + n, edit) <=> n \in kept
             /\ n \in kept => /\ id(n) \in Nat /\ j.first + id(n) = MapCoordinate(i.first + n, edit)
                              /\ j.first + id(n) <= j.last
  <2> DEFINE c == i.first + n
  <2>1. c \in Coordinates /\ i.first <= c /\ c <= i.last /\ n \in Nat /\ c \in Nat
    BY <1>4 DEF Coordinates
  <2> HIDE DEF c, j
  <2>2. MapCoordinate(c, edit) \in Int
    BY <2>1, EditIs DEF MapCoordinate
  <2>3. MapCoordinate(c, edit) # 0 => /\ Survives(c, edit) /\ j.first <= MapCoordinate(c, edit)
                                      /\ MapCoordinate(c, edit) <= j.last
    BY <2>1, StaysInside DEF j
  <2>4. Survives(c, edit) => MapCoordinate(c, edit) # 0
    BY CoordinatesAreNumbers DEF Survives
  <2> QED BY <1>4, <2>1, <2>2, <2>3, <2>4 DEF c
<1>6. /\ DOMAIN new = {id(n) : n \in kept}
      /\ \A m \in {id(n) : n \in kept} : new[m] = r[at(m)]
      /\ new = [m \in DOMAIN new |-> new[m]]
  BY <1>2 DEF FilterColumns
<1> HIDE DEF new, j, h
<1>7. ASSUME NEW n \in kept
      PROVE  new[id(n)] = r[n] /\ r[n] = g[i.first + n] /\ h[j.first + id(n)] = g[i.first + n]
  <2> DEFINE k == at(id(n))
  <2>1. k \in kept /\ id(k) = id(n)
    OBVIOUS
  <2> HIDE DEF k
  <2>2. MapCoordinate(i.first + k, edit) = MapCoordinate(i.first + n, edit)
    BY <1>4, <1>5, <2>1
  <2>3. i.first + k = i.first + n
    <3>1. /\ i.first + k \in Nat /\ i.first + n \in Nat /\ 1 <= i.first + n
          /\ MapCoordinate(i.first + k, edit) # 0
      BY <1>4, <1>5, <2>1
    <3> QED BY <2>2, <3>1, MapsApart
  <2>4. k = n
    <3>1. k \in Nat /\ n \in Nat
      BY <1>5, <2>1
    <3> QED BY <1>4, <2>3, <3>1
  <2>5. new[id(n)] = r[n]
    BY <1>6, <2>4 DEF k
  <2>6. h[MapCoordinate(i.first + n, edit)] = g[i.first + n]
    <3>1. i.first + n \in Coordinates /\ Survives(i.first + n, edit)
      BY <1>5
    <3> QED BY <3>1, LineMoves DEF h
  <2> QED BY <1>5, <2>5, <2>6
<1>8. ASSUME NEW m \in DOMAIN new
      PROVE  m \in Nat /\ j.first + m <= j.last /\ new[m] = h[j.first + m]
  <2>1. PICK n \in kept : m = id(n)
    BY <1>6
  <2>2. n \in DOMAIN r
    OBVIOUS
  <2> HIDE DEF id, kept
  <2> QED BY <1>5, <1>7, <2>1, <2>2
<1>9. new = [m \in DOMAIN new |-> h[j.first + m]]
  BY <1>6, <1>8
<1>10. ASSUME NEW x \in Range(new) PROVE x \in Range(r) /\ x \in Range(h)
  <2>1. PICK m \in DOMAIN new : x = new[m]
    BY <1>10 DEF Range
  <2>2. PICK n \in kept : m = id(n)
    BY <1>6, <2>1
  <2>3. x = r[n] /\ x = g[i.first + n] /\ n \in DOMAIN r
    BY <1>7, <2>1, <2>2
  <2>4. i.first + n \in Coordinates /\ Survives(i.first + n, edit)
    BY <1>5, <2>3
  <2>5. x \in Range(h)
    BY <2>3, <2>4, LineGone DEF h
  <2> QED BY <2>3, <2>5 DEF Range
<1>11. ASSUME NEW x \in Range(r), x \in Range(h) PROVE x \in Range(new)
  <2>1. PICK n \in DOMAIN r : x = r[n]
    BY <1>11 DEF Range
  <2>2. x = g[i.first + n] /\ i.first + n \in Coordinates
    BY <1>5, <2>1
  <2>3. Survives(i.first + n, edit)
    BY <1>11, <2>2, LineGone DEF h
  <2>4. n \in kept
    BY <1>5, <2>3
  <2>5. id(n) \in DOMAIN new /\ new[id(n)] = x
    BY <1>6, <1>7, <2>1, <2>4
  <2> QED BY <2>5 DEF Range
<1>12. Range(new) = Range(r) \cap Range(h)
  BY <1>10, <1>11
<1> QED BY <1>8, <1>9, <1>12 DEF new, j, h

-----------------------------------------------------------------------------
(* The columns of a table and the fields of a pivot cache follow the lines *)
(* of their ranges; one whose range is pushed off the sheet has too many.  *)
Outside(a, b, n) == {k \in 1 .. n : k < a \/ k > b}

LEMMA CountedBelow ==
    ASSUME NEW a \in Nat, NEW b \in Nat, NEW n \in Nat, 1 <= a, a <= b + 1, b <= n
    PROVE  /\ Cardinality(Outside(a, b, n)) = n - (b - a + 1)
           /\ \A k \in Outside(a, b, n) :
                Cardinality({j \in Outside(a, b, n) : j <= k}) = IF k < a THEN k ELSE k - (b - a + 1)
<1> DEFINE K == {k \in 1 .. n : k < a \/ k > b}
<1>1. ASSUME NEW k \in b .. n
      PROVE  /\ IsFiniteSet({j \in K : j <= k})
             /\ Cardinality({j \in K : j <= k}) = k - (b - a + 1)
  <2> DEFINE low == 1 .. (a - 1)
             high == (b + 1) .. k
  <2>1. {j \in K : j <= k} = low \cup high
    OBVIOUS
  <2>2. IsFiniteSet(low) /\ Cardinality(low) = a - 1
    <3>1. 1 \in Int /\ a - 1 \in Int /\ (IF 1 > a - 1 THEN 0 ELSE (a - 1) - 1 + 1) = a - 1
      OBVIOUS
    <3> QED BY <3>1, FS_Interval
  <2>3. IsFiniteSet(high) /\ Cardinality(high) = k - b
    <3>1. b + 1 \in Int /\ k \in Int /\ (IF b + 1 > k THEN 0 ELSE k - (b + 1) + 1) = k - b
      OBVIOUS
    <3> QED BY <3>1, FS_Interval
  <2>4. low \cap high = {}
    OBVIOUS
  <2> HIDE DEF low, high
  <2>5. Cardinality(low \cap high) = 0
    BY <2>4, FS_EmptySet
  <2>6. IsFiniteSet(low \cup high) /\ Cardinality(low \cup high) = (a - 1) + (k - b) - 0
    BY <2>2, <2>3, <2>5, FS_Union
  <2>7. (a - 1) + (k - b) - 0 = k - (b - a + 1)
    OBVIOUS
  <2> QED BY <2>1, <2>6, <2>7
<1>2. ASSUME NEW k \in K PROVE Cardinality({j \in K : j <= k}) = IF k < a THEN k ELSE k - (b - a + 1)
  <2>1. CASE k < a
    <3>1. {j \in K : j <= k} = 1 .. k /\ k \in Int /\ 1 <= k
      BY <2>1
    <3>2. Cardinality(1 .. k) = k
      <4>1. (IF 1 > k THEN 0 ELSE k - 1 + 1) = k
        BY <3>1
      <4> QED BY <3>1, <4>1, FS_Interval
    <3> QED BY <2>1, <3>1, <3>2
  <2>2. CASE ~(k < a)
    <3>1. k \in b .. n
      BY <2>2
    <3> QED BY <1>1, <2>2, <3>1
  <2> QED BY <2>1, <2>2
<1>3. Cardinality(K) = n - (b - a + 1)
  <2>1. n \in b .. n /\ {j \in K : j <= n} = K
    OBVIOUS
  <2> QED BY <1>1, <2>1
<1> QED BY <1>2, <1>3 DEF Outside

LEMMA EnumeratedIsCut ==
    ASSUME NEW s \in Seq(Nat), NEW a \in Nat, NEW b \in Nat, 1 <= a, a <= b + 1, b <= Len(s)
    PROVE  [m \in 1 .. Cardinality(Outside(a, b, Len(s))) |->
               s[CHOOSE k \in Outside(a, b, Len(s)) :
                   Cardinality({j \in Outside(a, b, Len(s)) : j <= k}) = m]] = Cut(s, a, b)
<1> DEFINE n == Len(s)
           K == Outside(a, b, n)
           d == b - a + 1
           at(m) == CHOOSE k \in K : Cardinality({j \in K : j <= k}) = m
           names == [m \in 1 .. n - d |-> s[at(m)]]
<1>1. n \in Nat /\ d \in Nat /\ n - d \in Nat
  OBVIOUS
<1>2. /\ Cardinality(K) = n - d
      /\ \A k \in K : Cardinality({j \in K : j <= k}) = IF k < a THEN k ELSE k - d
  <2> HIDE DEF n
  <2>1. b <= n /\ n \in Nat
    BY <1>1 DEF n
  <2> QED BY <2>1, CountedBelow
<1>3. ASSUME NEW m \in 1 .. n - d PROVE at(m) = IF m < a THEN m ELSE m + d
  <2> DEFINE e == IF m < a THEN m ELSE m + d
  <2>1. e \in K /\ (IF e < a THEN e ELSE e - d) = m
    BY <1>1 DEF Outside
  <2>2. Cardinality({j \in K : j <= e}) = m
    BY <1>2, <2>1
  <2>3. at(m) \in K /\ Cardinality({j \in K : j <= at(m)}) = m
    BY <2>1, <2>2
  <2> DEFINE k == at(m)
  <2>4. k \in K /\ m = IF k < a THEN k ELSE k - d
    BY <1>2, <2>3
  <2> HIDE DEF k
  <2>5. k = e
    BY <1>1, <2>4 DEF Outside
  <2> QED BY <2>5 DEF k
<1>4. /\ Cut(s, a, b) \in Seq(Nat) /\ Len(Cut(s, a, b)) = n - d
      /\ \A k \in 1 .. n - d : Cut(s, a, b)[k] = IF k < a THEN s[k] ELSE s[k + d]
  <2> HIDE DEF d
  <2>1. d = b - a + 1 /\ d \in Nat
    BY <1>1 DEF d
  <2>2. IsCut(Cut(s, a, b), s, a, b, d)
    BY <1>1, <2>1, CutOut
  <2> QED BY <2>2 DEF IsCut
<1> HIDE DEF at, d
<1>5. ASSUME NEW m \in 1 .. n - d PROVE s[at(m)] \in Nat /\ s[at(m)] = Cut(s, a, b)[m]
  <2>1. s[at(m)] = Cut(s, a, b)[m]
    BY <1>3, <1>4
  <2>2. Cut(s, a, b)[m] \in Nat
    BY <1>4
  <2> QED BY <2>1, <2>2
<1>6. names \in Seq(Nat) /\ Len(names) = n - d /\ \A m \in 1 .. n - d : names[m] = s[at(m)]
  BY <1>1, <1>5
<1> HIDE DEF names
<1>7. names = Cut(s, a, b)
  <2>1. Len(names) = Len(Cut(s, a, b))
    BY <1>4, <1>6
  <2>2. ASSUME NEW m \in 1 .. Len(names) PROVE names[m] = Cut(s, a, b)[m]
    BY <1>5, <1>6
  <2>3. names \in Seq(Nat) /\ Cut(s, a, b) \in Seq(Nat)
    BY <1>4, <1>6
  <2> QED BY <2>1, <2>2, <2>3, SeqEqual
<1> QED BY <1>2, <1>7 DEF names, at

LEMMA CutNothing ==
    ASSUME NEW s \in Seq(Nat), NEW a \in Nat, 1 <= a, a <= Len(s) + 1
    PROVE  Cut(s, a, a - 1) = s
<1>1. Len(s) \in Nat /\ a - 1 \in Nat /\ a - 1 <= Len(s) /\ a <= (a - 1) + 1 /\ 0 = (a - 1) - a + 1
  OBVIOUS
<1> DEFINE b == a - 1
<1>2. b \in Nat /\ a <= b + 1 /\ b <= Len(s) /\ 0 \in Nat /\ 0 = b - a + 1
  BY <1>1
<1> HIDE DEF b
<1>3. /\ Cut(s, a, b) \in Seq(Nat) /\ Len(Cut(s, a, b)) = Len(s) - 0
      /\ \A k \in 1 .. Len(s) - 0 : Cut(s, a, b)[k] = IF k < a THEN s[k] ELSE s[k + 0]
  <2> DEFINE m == 0
  <2>1. m \in Nat /\ m = b - a + 1
    BY <1>2
  <2> HIDE DEF m
  <2>2. IsCut(Cut(s, a, b), s, a, b, m)
    BY <1>2, <2>1, CutOut
  <2> QED BY <2>2, Zenon DEF IsCut, m
<1>4. Len(s) - 0 = Len(s) /\ \A k \in 1 .. Len(s) : k + 0 = k
  OBVIOUS
<1>5. \A k \in 1 .. Len(s) : Cut(s, a, b)[k] = s[k]
  BY <1>3, <1>4
<1>6. Cut(s, a, b) = s
  BY <1>1, <1>3, <1>4, <1>5, SameSequence
<1> QED BY <1>6 DEF b

(* What stays of an interval under a deletion.                             *)
LEMMA KeptOffsets ==
    ASSUME edit \in Edits, edit.action = "delete", NEW i \in Intervals
    PROVE  {n \in 1 .. i.last - i.first + 1 : Survives(i.first + n - 1, edit)}
             = IF edit.index <= i.last /\ i.first < CutEnd(edit)
               THEN {n \in 1 .. i.last - i.first + 1 :
                       n < CutFrom(i) - i.first + 1 \/ n > CutTo(i) - i.first + 1}
               ELSE 1 .. i.last - i.first + 1
<1>1. /\ edit.index \in Nat /\ edit.amount \in Nat /\ i.first \in Nat /\ i.last \in Nat /\ Limit \in Nat
      /\ 1 <= edit.index /\ 1 <= i.first /\ i.first <= i.last /\ i.last <= Limit
      /\ CutEnd(edit) = edit.index + edit.amount
  BY EditIs, IntervalIs
<1>2. ASSUME NEW n \in 1 .. i.last - i.first + 1
      PROVE  Survives(i.first + n - 1, edit)
               <=> (i.first + n - 1 < edit.index \/ i.first + n - 1 >= CutEnd(edit))
  <2> DEFINE c == i.first + n - 1
  <2>1. c \in Nat /\ 1 <= c /\ c <= Limit
    BY <1>1
  <2> HIDE DEF c
  <2>2. Survives(c, edit) <=> c < edit.index \/ c >= CutEnd(edit)
    BY <1>1, <2>1 DEF Survives, MapCoordinate, Coordinates
  <2> QED BY <2>2 DEF c
<1>3. ASSUME NEW n \in 1 .. i.last - i.first + 1
      PROVE  (i.first + n - 1 < edit.index \/ i.first + n - 1 >= CutEnd(edit))
               <=> IF edit.index <= i.last /\ i.first < CutEnd(edit)
                   THEN n < CutFrom(i) - i.first + 1 \/ n > CutTo(i) - i.first + 1 ELSE TRUE
  BY <1>1 DEF CutFrom, CutTo
<1> QED BY <1>2, <1>3

(* A range pushed off the sheet is narrower than its items.                *)
LEMMA PushedIsNarrow ==
    ASSUME edit \in Edits, NEW i \in Intervals, PushedOff(i), Rewrite(i, edit) # Gone
    PROVE  /\ edit.action = "insert" /\ edit.index <= i.last /\ i.last > Limit - edit.amount
           /\ Width(Rewrite(i, edit))
                < Width(i) + (IF edit.index > i.first THEN edit.amount ELSE 0)
<1>1. /\ edit.index \in Nat /\ edit.amount \in Nat /\ i.first \in Nat /\ i.last \in Nat /\ Limit \in Nat
      /\ 1 <= edit.index /\ 1 <= i.first /\ i.first <= i.last /\ i.last <= Limit /\ 1 <= edit.amount
      /\ Rewrite(i, edit) = TransformInterval(i, edit)
  BY EditIs, IntervalIs
<1>2. edit.action = "insert" /\ edit.index <= i.last /\ i.last > Limit - edit.amount
  BY DEF PushedOff, Touches
<1>3. Grown(i.last, edit) = Limit
  BY <1>2 DEF Grown
<1>4. CASE edit.index <= i.first
  <2>1. Rewrite(i, edit) = [first |-> i.first + edit.amount, last |-> Limit]
    BY <1>1, <1>2, <1>3, <1>4 DEF TransformInterval, InsertedInto
  <2> QED BY <1>1, <1>2, <1>4, <2>1 DEF Width
<1>5. CASE ~(edit.index <= i.first)
  <2>1. Rewrite(i, edit) = [i EXCEPT !.last = Limit]
    BY <1>1, <1>2, <1>3, <1>5 DEF TransformInterval, InsertedInto
  <2>2. Rewrite(i, edit).first = i.first /\ Rewrite(i, edit).last = Limit
    BY <2>1 DEF Intervals
  <2> QED BY <1>1, <1>2, <1>5, <2>2 DEF Width
<1> QED BY <1>4, <1>5

LEMMA WidthIs ==
    ASSUME NEW g \in [Coordinates -> Nat], NEW i \in Intervals
    PROVE  Len(Lines(g, i)) = Width(i) /\ Width(i) \in Nat /\ Width(i) >= 1 /\ Lines(g, i) # <<>>
<1>1. Lines(g, i) \in Seq(Nat) /\ Len(Lines(g, i)) = i.last - i.first + 1
  BY LinesAre
<1>2. i.last - i.first + 1 \in Nat /\ i.last - i.first + 1 >= 1
  BY IntervalIs
<1> QED BY <1>1, <1>2 DEF Width

(* What every kind of list that follows its lines does: it is the lines of *)
(* the new range, or it is too long for it.                                *)
Follow(new, g, i) ==
    Rewrite(i, edit) # Gone =>
        IF PushedOff(i) THEN new \in Seq(Nat) /\ Len(new) > Width(Rewrite(i, edit))
        ELSE new = Lines(ShiftedGrid(g), Rewrite(i, edit))

LEMMA InsertionsFollow ==
    ASSUME edit \in Edits, edit.action = "insert", fresh \in Nat, NEW g, Grid(g, fresh), NEW i \in Intervals
    PROVE  /\ Splits(i) => Follow(Put(Lines(g, i), edit.index - i.first + 1, NewLines), g, i)
           /\ ~Splits(i) => Follow(Lines(g, i), g, i)
<1> DEFINE s == Lines(g, i)
<1>1. /\ edit.index \in Nat /\ edit.amount \in Nat /\ i.first \in Nat /\ i.last \in Nat /\ Limit \in Nat
      /\ 1 <= edit.index /\ 1 <= i.first /\ i.first <= i.last /\ i.last <= Limit /\ 1 <= edit.amount
      /\ i # Gone /\ g \in [Coordinates -> Nat]
  BY EditIs, IntervalIs DEF Grid
<1>2. s \in Seq(Nat) /\ Len(s) = Width(i) /\ Width(i) \in Nat /\ Width(i) = i.last - i.first + 1
  BY <1>1, LinesAre, WidthIs DEF Width
<1>3. ASSUME Splits(i), Rewrite(i, edit) # Gone
      PROVE  Follow(Put(s, edit.index - i.first + 1, NewLines), g, i)
  <2> DEFINE at == edit.index - i.first + 1
             m == edit.amount
  <2>1. edit.index > i.first /\ edit.index <= i.last
    BY <1>3 DEF Splits
  <2>2. NewLines \in Seq(Nat) /\ Len(NewLines) = m
    BY NewLinesAre
  <2>3. at \in Nat /\ 1 <= at /\ at <= Len(s) + 1 /\ m \in Nat
    <3>1. Len(s) = i.last - i.first + 1
      BY <1>2
    <3>2. /\ edit.index \in Nat /\ i.first \in Nat /\ i.last \in Nat /\ m \in Nat
          /\ at = edit.index - i.first + 1
      BY <1>1
    <3> HIDE DEF at, m, s
    <3> QED BY ONLY <2>1, <3>1, <3>2
  <2> HIDE DEF at, m
  <2>4. Put(s, at, NewLines) \in Seq(Nat) /\ Len(Put(s, at, NewLines)) = Len(s) + m
    <3>1. s \in Seq(Nat) /\ NewLines \in Seq(Nat) /\ m = Len(NewLines)
      BY <1>2, <2>2
    <3>2. IsPut(Put(s, at, NewLines), s, at, NewLines, m)
      BY ONLY <2>3, <3>1, PutInto
    <3> QED BY <3>2, Zenon DEF IsPut
  <2>5. CASE PushedOff(i)
    <3>1. Width(Rewrite(i, edit)) < Width(i) + m
      BY <1>3, <2>1, <2>5, PushedIsNarrow, <1>1 DEF m
    <3> QED BY <1>2, <2>4, <2>5, <3>1 DEF Follow, at
  <2>6. CASE ~PushedOff(i)
    <3>1. i.last <= Limit - edit.amount
      BY <1>1, <2>1, <2>6 DEF PushedOff, Touches
    <3>2. Lines(ShiftedGrid(g), Rewrite(i, edit)) = Put(s, at, NewLines)
      BY <1>1, <2>1, <3>1, LinesPutIn DEF at
    <3> QED BY <2>6, <3>2 DEF Follow, at
  <2> QED BY <2>5, <2>6
<1>4. ASSUME ~Splits(i), Rewrite(i, edit) # Gone PROVE Follow(s, g, i)
  <2>1. ~(edit.index > i.first) \/ ~(edit.index <= i.last)
    BY <1>4 DEF Splits
  <2>2. CASE PushedOff(i)
    <3>1. Width(Rewrite(i, edit)) < Width(i) + 0
      BY <1>1, <1>4, <2>1, <2>2, PushedIsNarrow
    <3> QED BY <1>2, <2>2, <3>1 DEF Follow
  <2>3. CASE ~PushedOff(i)
    <3>1. CASE edit.index > i.last
      <4>1. ~Touches(edit, i)
        BY <1>1, <3>1 DEF Touches
      <4> QED BY <2>3, <4>1, LinesUntouched DEF Follow
    <3>2. CASE ~(edit.index > i.last)
      <4>1. edit.index <= i.first /\ i.last <= Limit - edit.amount
        BY <1>1, <2>1, <2>3, <3>2 DEF PushedOff, Touches
      <4> QED BY <2>3, <4>1, LinesPushedDown DEF Follow
    <3> QED BY <3>1, <3>2
  <2> QED BY <2>2, <2>3
<1> QED BY <1>3, <1>4 DEF Follow

LEMMA DeletionsFollow ==
    ASSUME edit \in Edits, edit.action = "delete", fresh \in Nat, NEW g, Grid(g, fresh), NEW i \in Intervals,
           Rewrite(i, edit) # Gone
    PROVE  /\ (edit.index <= i.last /\ i.first < CutEnd(edit)) =>
                Follow(Cut(Lines(g, i), CutFrom(i) - i.first + 1, CutTo(i) - i.first + 1), g, i)
           /\ ~(edit.index <= i.last /\ i.first < CutEnd(edit)) => Follow(Lines(g, i), g, i)
<1>1. /\ edit.index \in Nat /\ CutEnd(edit) \in Nat /\ i.first \in Nat /\ i.last \in Nat /\ i # Gone
  BY EditIs, IntervalIs
<1>2. ~PushedOff(i)
  BY DEF PushedOff
<1>3. ASSUME edit.index <= i.last, i.first < CutEnd(edit)
      PROVE  Follow(Cut(Lines(g, i), CutFrom(i) - i.first + 1, CutTo(i) - i.first + 1), g, i)
  BY <1>2, <1>3, LinesCut DEF Follow
<1>4. ASSUME ~(edit.index <= i.last /\ i.first < CutEnd(edit)) PROVE Follow(Lines(g, i), g, i)
  <2>1. CASE edit.index > i.last
    <3>1. ~Touches(edit, i)
      BY <1>1, <2>1 DEF Touches
    <3> QED BY <1>2, <3>1, LinesUntouched DEF Follow
  <2>2. CASE ~(edit.index > i.last)
    <3>1. CutEnd(edit) <= i.first
      BY <1>1, <1>4, <2>2
    <3> QED BY <1>2, <3>1, LinesPulledUp DEF Follow
  <2> QED BY <2>1, <2>2
<1> QED BY <1>3, <1>4

LEMMA TableFollows ==
    ASSUME edit \in Edits, fresh \in Nat, NEW g, Grid(g, fresh), NEW i \in Intervals, axis = "column"
    PROVE  /\ Follow(TableColumns(Lines(g, i), i), g, i)
           /\ TableColumns(Lines(g, i), i) \in Seq(Nat)
<1> DEFINE s == Lines(g, i)
           n == i.last - i.first + 1
<1>1. /\ edit.index \in Nat /\ edit.amount \in Nat /\ i.first \in Nat /\ i.last \in Nat /\ n \in Nat
      /\ g \in [Coordinates -> Nat] /\ edit.action \in {"insert", "delete"} /\ i.first <= i.last
      /\ 1 <= edit.index /\ 1 <= i.first /\ edit.amount >= 1
  BY EditIs, IntervalIs DEF Grid
<1>2. s \in Seq(Nat) /\ Len(s) = n /\ s # <<>>
  BY <1>1, LinesAre, WidthIs
<1>3. CASE Rewrite(i, edit) = Gone
  BY <1>2, <1>3 DEF TableColumns, Follow
<1>4. CASE Rewrite(i, edit) # Gone /\ edit.action = "insert"
  <2>1. CASE Splits(i)
    <3> DEFINE at == edit.index - i.first + 1
               m == edit.amount
    <3>1. TableColumns(s, i) = Put(s, at, NewLines)
      BY <1>2, <1>4, <2>1 DEF TableColumns, Splits
    <3>2. at \in Nat /\ 1 <= at /\ at <= Len(s) + 1 /\ m \in Nat
      <4>1. Len(s) = i.last - i.first + 1
        BY <1>2
      <4>2. /\ edit.index \in Nat /\ i.first \in Nat /\ i.last \in Nat /\ m \in Nat
            /\ at = edit.index - i.first + 1
        BY <1>1
      <4>3. edit.index > i.first /\ edit.index <= i.last
        BY <2>1 DEF Splits
      <4> HIDE DEF at, m, s
      <4> QED BY ONLY <4>1, <4>2, <4>3
    <3>3. s \in Seq(Nat) /\ NewLines \in Seq(Nat) /\ m = Len(NewLines)
      BY <1>2, NewLinesAre
    <3> HIDE DEF s, m
    <3>4. Put(s, at, NewLines) \in Seq(Nat)
      <4> HIDE DEF at
      <4>1. IsPut(Put(s, at, NewLines), s, at, NewLines, m)
        BY ONLY <3>2, <3>3, PutInto
      <4> QED BY <4>1, Zenon DEF IsPut
    <3>5. Follow(Put(s, at, NewLines), g, i)
      BY <1>4, <2>1, InsertionsFollow DEF s
    <3> HIDE DEF at
    <3>6. TableColumns(s, i) \in Seq(Nat) /\ Follow(TableColumns(s, i), g, i)
      BY <3>1, <3>4, <3>5
    <3> QED BY <3>6 DEF s
  <2>2. CASE ~Splits(i)
    <3>1. TableColumns(s, i) = s
      BY <1>2, <1>4, <2>2 DEF TableColumns, Splits
    <3>2. Follow(s, g, i)
      BY <1>4, <2>2, InsertionsFollow
    <3> QED BY <1>2, <3>1, <3>2
  <2> QED BY <2>1, <2>2
<1>5. CASE Rewrite(i, edit) # Gone /\ edit.action = "delete"
  <2> DEFINE kept == {k \in 1 .. n : Survives(i.first + k - 1, edit)}
             names == [m \in 1 .. Cardinality(kept) |->
                         s[CHOOSE k \in kept : Cardinality({j \in kept : j <= k}) = m]]
  <2>1. TableColumns(s, i) = IF names = <<>> THEN s ELSE names
    BY <1>2, <1>5 DEF TableColumns
  <2>2. kept = IF edit.index <= i.last /\ i.first < CutEnd(edit)
               THEN Outside(CutFrom(i) - i.first + 1, CutTo(i) - i.first + 1, n)
               ELSE 1 .. n
    BY <1>5, KeptOffsets DEF Outside
  <2> HIDE DEF kept
  <2>3. ASSUME NEW a \in Nat, NEW b \in Nat, 1 <= a, a <= b + 1, b <= n, kept = Outside(a, b, n)
        PROVE  names = Cut(s, a, b)
    <3> HIDE DEF s, n
    <3>1. [m \in 1 .. Cardinality(Outside(a, b, n)) |->
             s[CHOOSE k \in Outside(a, b, n) :
                 Cardinality({j \in Outside(a, b, n) : j <= k}) = m]] = Cut(s, a, b)
      <4>1. b <= Len(s) /\ Len(s) = n
        BY <1>2, <2>3
      <4>2. [m \in 1 .. Cardinality(Outside(a, b, Len(s))) |->
               s[CHOOSE k \in Outside(a, b, Len(s)) :
                   Cardinality({j \in Outside(a, b, Len(s)) : j <= k}) = m]] = Cut(s, a, b)
        BY <1>2, <2>3, <4>1, EnumeratedIsCut
      <4> QED BY <4>1, <4>2
    <3> QED BY <2>3, <3>1
  <2>4. Follow(names, g, i)
    <3>1. CASE edit.index <= i.last /\ i.first < CutEnd(edit)
      <4> DEFINE a == CutFrom(i) - i.first + 1
                 b == CutTo(i) - i.first + 1
      <4>1. /\ CutFrom(i) \in Nat /\ CutTo(i) \in Nat
            /\ i.first <= CutFrom(i) /\ CutFrom(i) <= CutTo(i) /\ CutTo(i) <= i.last
        BY <1>5, <3>1, LinesCut
      <4>2. a \in Nat /\ b \in Nat /\ 1 <= a /\ a <= b + 1 /\ b <= n
        BY <1>1, <4>1
      <4>3. Follow(Cut(s, a, b), g, i)
        BY <1>5, <3>1, DeletionsFollow
      <4>4. kept = Outside(a, b, n)
        BY <2>2, <3>1
      <4> HIDE DEF a, b, n, s, names
      <4>5. names = Cut(s, a, b)
        BY <2>3, <4>2, <4>4
      <4> QED BY <4>3, <4>5
    <3>2. CASE ~(edit.index <= i.last /\ i.first < CutEnd(edit))
      <4>1. kept = Outside(1, 0, n)
        BY <1>1, <2>2, <3>2 DEF Outside
      <4>2. names = Cut(s, 1, 0)
        <5> HIDE DEF names, s, n
        <5> QED BY <1>1, <2>3, <4>1
      <4>3. Cut(s, 1, 1 - 1) = s
        <5> HIDE DEF s
        <5>1. 1 <= Len(s) + 1
          BY <1>1, <1>2
        <5> QED BY <1>2, <5>1, CutNothing
      <4>4. Follow(s, g, i)
        BY <1>5, <3>2, DeletionsFollow
      <4> HIDE DEF names, s
      <4> QED BY <4>2, <4>3, <4>4
    <3> QED BY <3>1, <3>2
  <2>5. names = Lines(ShiftedGrid(g), Rewrite(i, edit))
    BY <1>5, <2>4 DEF Follow, PushedOff
  <2>6. names \in Seq(Nat) /\ names # <<>>
    <3> HIDE DEF names
    <3>1. ShiftedGrid(g) \in [Coordinates -> Nat] /\ Rewrite(i, edit) \in Intervals
      BY <1>5, GridAfter, RewriteStays DEF Grid
    <3> QED BY <2>5, <3>1, LinesAre, WidthIs
  <2> HIDE DEF names, s
  <2>7. TableColumns(s, i) = names
    BY <2>1, <2>6
  <2> QED BY <2>4, <2>6, <2>7 DEF s
<1> QED BY <1>1, <1>3, <1>4, <1>5

LEMMA FieldsFollow ==
    ASSUME edit \in Edits, fresh \in Nat, NEW g, Grid(g, fresh), NEW i \in Intervals,
           NEW pivot, pivot.items = Lines(g, i), Rewrite(i, edit) # Gone
    PROVE  Follow(Fields(pivot, i), g, i)
<1> DEFINE s == Lines(g, i)
           n == i.last - i.first + 1
<1>1. /\ edit.index \in Nat /\ CutEnd(edit) \in Nat /\ i.first \in Nat /\ i.last \in Nat /\ n \in Nat
      /\ g \in [Coordinates -> Nat] /\ edit.action \in {"insert", "delete"} /\ i.first <= i.last
      /\ edit.index < CutEnd(edit)
  BY EditIs, IntervalIs DEF Grid
<1>2. Len(s) = n
  BY <1>1, LinesAre
<1>3. /\ CutFrom(i) = IF edit.index > i.first THEN edit.index ELSE i.first
      /\ CutTo(i) = IF CutEnd(edit) - 1 < i.last THEN CutEnd(edit) - 1 ELSE i.last
  BY DEF CutFrom, CutTo
<1>4. CASE edit.action = "insert"
  <2>1. CASE Splits(i)
    <3>1. CutFrom(i) = edit.index
      BY <1>3, <2>1 DEF Splits
    <3>2. Fields(pivot, i) = Put(s, edit.index - i.first + 1, NewLines)
      BY <2>1, <3>1 DEF Fields
    <3> QED BY <1>4, <2>1, <3>2, InsertionsFollow
  <2>2. CASE ~Splits(i)
    <3>1. Fields(pivot, i) = s
      BY <1>4, <2>2 DEF Fields
    <3> QED BY <1>4, <2>2, <3>1, InsertionsFollow
  <2> QED BY <2>1, <2>2
<1>5. CASE edit.action = "delete"
  <2>1. ~Splits(i) /\ edit.action # "insert"
    BY <1>5 DEF Splits
  <2>2. CASE edit.index <= i.last /\ i.first < CutEnd(edit)
    <3>1. CutFrom(i) <= CutTo(i) /\ CutFrom(i) - i.first < n
      BY <1>1, <1>3, <2>2
    <3>2. ~(CutFrom(i) > CutTo(i)) /\ ~(CutFrom(i) - i.first >= n)
      BY <1>1, <1>3, <3>1
    <3>3. Fields(pivot, i) = Cut(s, CutFrom(i) - i.first + 1, CutTo(i) - i.first + 1)
      <4> HIDE DEF s, n
      <4>1. pivot.items = s
        BY DEF s
      <4> QED BY <1>2, <2>1, <3>2, <4>1 DEF Fields
    <3> QED BY <1>5, <2>2, <3>3, DeletionsFollow
  <2>3. CASE ~(edit.index <= i.last /\ i.first < CutEnd(edit))
    <3>1. CutFrom(i) > CutTo(i)
      BY <1>1, <1>3, <2>3
    <3>2. Fields(pivot, i) = s
      BY <2>1, <3>1 DEF Fields
    <3> QED BY <1>5, <2>3, <3>2, DeletionsFollow
  <2> QED BY <2>2, <2>3
<1> QED BY <1>1, <1>4, <1>5

(* f says which entry of t each used entry of s has become, or that none.  *)
MovesTo(s, t, U, f) ==
    /\ s \in Seq(Nat) /\ t \in Seq(Nat) /\ U \subseteq Nat /\ f \in [U -> Int]
    /\ \A n \in U : n < Len(s)
    /\ \A n \in U : IF f[n] = -1 THEN s[n + 1] \notin Range(t)
                     ELSE f[n] \in Nat /\ f[n] < Len(t) /\ t[f[n] + 1] = s[n + 1]
MovedTo(s, t, U, f) ==
    /\ {f[n] : n \in U} \ {-1} \subseteq Nat
    /\ {t[k + 1] : k \in {f[n] : n \in U} \ {-1}} = {s[n + 1] : n \in U} \cap Range(t)

LEMMA UsesMove ==
    ASSUME NEW s, NEW t, NEW U, NEW f, MovesTo(s, t, U, f)
    PROVE  MovedTo(s, t, U, f)
<1>0. /\ s \in Seq(Nat) /\ t \in Seq(Nat) /\ U \subseteq Nat /\ f \in [U -> Int]
      /\ \A n \in U : n < Len(s)
      /\ \A n \in U : IF f[n] = -1 THEN s[n + 1] \notin Range(t)
                       ELSE f[n] \in Nat /\ f[n] < Len(t) /\ t[f[n] + 1] = s[n + 1]
  BY DEF MovesTo
<1> DEFINE V == {f[n] : n \in U} \ {-1}
<1>1. V \subseteq Nat
  BY <1>0
<1>2. ASSUME NEW k \in V PROVE t[k + 1] \in {s[n + 1] : n \in U} /\ t[k + 1] \in Range(t)
  <2>1. PICK n \in U : k = f[n] /\ f[n] # -1
    BY <1>0
  <2>2. t[k + 1] = s[n + 1] /\ k \in Nat /\ k < Len(t)
    BY <1>0, <2>1
  <2>3. k + 1 \in DOMAIN t
    BY <1>0, <2>2
  <2> QED BY <2>2, <2>3 DEF Range
<1>3. ASSUME NEW x \in {s[n + 1] : n \in U}, x \in Range(t) PROVE x \in {t[k + 1] : k \in V}
  <2>1. PICK n \in U : x = s[n + 1]
    BY <1>0
  <2>2. f[n] # -1
    BY <1>0, <1>3, <2>1
  <2>3. f[n] \in V /\ t[f[n] + 1] = x
    BY <1>0, <2>1, <2>2
  <2> QED BY <2>3
<1> HIDE DEF V
<1>4. {t[k + 1] : k \in V} \subseteq {s[n + 1] : n \in U} \cap Range(t)
  BY <1>2
<1>5. {s[n + 1] : n \in U} \cap Range(t) \subseteq {t[k + 1] : k \in V}
  BY <1>3
<1> QED BY <1>1, <1>4, <1>5 DEF V, MovedTo

\* Entry k of s, counted from zero, is entry j of t.
KeptAt(s, k, t, j) == j \in Nat /\ j < Len(t) /\ t[j + 1] = s[k + 1]
CutAround(t, s, from, m, k) ==
    /\ Len(t) = Len(s) - m
    /\ k < from - 1 => KeptAt(s, k, t, k)
    /\ k >= from - 1 + m => KeptAt(s, k, t, k - m)
    /\ ~(k < from - 1) /\ ~(k >= from - 1 + m) => \A c \in 1 .. Len(s) - m : t[c] # s[k + 1]

\* The place a field has after new ones were put in, and what is there.
LEMMA KeptThroughPut ==
    ASSUME NEW s \in Seq(Nat), NEW new \in Seq(Nat), NEW at \in Nat, 1 <= at,
           at <= Len(s) + 1, NEW k \in Nat, k < Len(s),
           NEW j, j = IF k >= at - 1 THEN k + Len(new) ELSE k
    PROVE  KeptAt(s, k, Put(s, at, new), j)
<1> DEFINE m == Len(new)
<1>0. IsPut(Put(s, at, new), s, at, new, m)
  BY PutInto
<1> DEFINE n == Len(s)
           t == Put(s, at, new)
<1>a. n \in Nat /\ n = Len(s) /\ m \in Nat /\ m = Len(new)
  OBVIOUS
<1> HIDE DEF t, n, m
<1>1. /\ n \in Nat /\ n = Len(s) /\ m \in Nat /\ m = Len(new)
      /\ Len(t) = n + m
      /\ \A x \in 1 .. n + m : t[x] = IF x < at THEN s[x] ELSE IF x < at + m THEN new[x - at + 1] ELSE s[x - m]
  BY <1>0, <1>a DEF IsPut, t
<1>2. CASE k >= at - 1
  <2> DEFINE c == k + m + 1
  <2>1. c \in 1 .. n + m /\ ~(c < at) /\ ~(c < at + m) /\ c - m = k + 1
    BY <1>1, <1>2
  <2>2. j = k + m /\ j \in Nat /\ j < n + m /\ j + 1 = c
    BY <1>1, <1>2
  <2> HIDE DEF c
  <2>3. t[c] = s[k + 1]
    BY <1>1, <2>1
  <2> QED BY <1>1, <2>2, <2>3 DEF t, KeptAt
<1>3. CASE ~(k >= at - 1)
  <2> DEFINE c == k + 1
  <2>1. j = k /\ j < n + m /\ c \in 1 .. n + m /\ c < at
    BY <1>1, <1>3
  <2> HIDE DEF c
  <2>2. t[c] = s[c]
    BY <1>1, <2>1
  <2> QED BY <1>1, <2>1, <2>2 DEF c, t, KeptAt
<1> QED BY <1>2, <1>3 DEF t, KeptAt

\* The place a field has after others were cut out, or that it is not there.
LEMMA KeptThroughCut ==
    ASSUME NEW s \in Seq(Nat), NEW a \in Nat, NEW b \in Nat, 1 <= a, a <= b, b <= Len(s),
           \A x \in 1 .. Len(s), y \in 1 .. Len(s) : s[x] = s[y] => x = y,
           NEW k \in Nat, k < Len(s), NEW d \in Nat, d = b - a + 1
    PROVE  CutAround(Cut(s, a, b), s, a, d, k)
<1>0. IsCut(Cut(s, a, b), s, a, b, d)
  BY CutOut
<1> DEFINE n == Len(s)
           t == Cut(s, a, b)
<1>1. /\ n \in Nat /\ n = Len(s)
      /\ Len(t) = n - d
      /\ \A c \in 1 .. n - d : t[c] = IF c < a THEN s[c] ELSE s[c + d]
  <2>1. n \in Nat /\ n = Len(s)
    OBVIOUS
  <2>2. /\ Len(t) = n - d
        /\ \A c \in 1 .. n - d : t[c] = IF c < a THEN s[c] ELSE s[c + d]
    BY <1>0, Zenon DEF IsCut
  <2> QED BY <2>1, <2>2, Zenon
<1> HIDE DEF t, n
<1>2. ASSUME k < a - 1 PROVE k < n - d /\ t[k + 1] = s[k + 1]
  <2>1. k + 1 \in 1 .. n - d /\ k + 1 < a /\ k < n - d
    BY <1>1, <1>2
  <2> QED BY <1>1, <2>1
<1>3. ASSUME k >= a - 1 + d PROVE k - d \in Nat /\ k - d < n - d /\ t[(k - d) + 1] = s[k + 1]
  <2>1. (k - d) + 1 \in 1 .. n - d /\ ~((k - d) + 1 < a) /\ (k - d) + 1 + d = k + 1 /\ k - d \in Nat /\ k - d < n - d
    BY <1>1, <1>3
  <2> QED BY <1>1, <2>1
<1>4. ASSUME ~(k < a - 1), ~(k >= a - 1 + d), NEW c \in 1 .. n - d PROVE t[c] # s[k + 1]
  <2>1. t[c] = IF c < a THEN s[c] ELSE s[c + d]
    BY <1>1
  <2> DEFINE x == k + 1
             y == c + d
  <2>2. x \in 1 .. n /\ (c < a => c \in 1 .. n /\ c # x) /\ (~(c < a) => y \in 1 .. n /\ y # x)
    BY <1>1, <1>4
  <2> HIDE DEF x, y
  <2>3. (c < a => s[c] # s[x]) /\ (~(c < a) => s[y] # s[x])
    BY <1>1, <2>2
  <2> QED BY <2>1, <2>3 DEF x, y
<1> QED BY <1>1, <1>2, <1>3, <1>4 DEF t, n, CutAround, KeptAt

LEMMA UsesFollow ==
    ASSUME edit \in Edits, fresh \in Nat, NEW g, Grid(g, fresh), NEW i \in Intervals,
           NEW pivot, pivot.items = Lines(g, i), pivot.used \subseteq Nat,
           \A n \in pivot.used : n < Len(pivot.items), Rewrite(i, edit) # Gone, ~PushedOff(i)
    PROVE  /\ UsedFields(pivot, i) \subseteq Nat
           /\ {Fields(pivot, i)[k + 1] : k \in UsedFields(pivot, i)}
                = {pivot.items[n + 1] : n \in pivot.used} \cap Range(Fields(pivot, i))
<1> DEFINE s == Lines(g, i)
           t == Fields(pivot, i)
           U == pivot.used
           n == i.last - i.first + 1
           offset == CutFrom(i) - i.first
           lost == n - Len(t)
           m == edit.amount
           mapped(k) == IF Splits(i) /\ k >= offset THEN k + m
                        ELSE IF lost <= 0 \/ k < offset THEN k
                        ELSE IF k >= offset + lost THEN k - lost
                        ELSE -1
           f == [k \in U |-> mapped(k)]
<1>1. /\ edit.index \in Nat /\ CutEnd(edit) \in Nat /\ i.first \in Nat /\ i.last \in Nat /\ n \in Nat
      /\ g \in [Coordinates -> Nat] /\ edit.action \in {"insert", "delete"} /\ i.first <= i.last
      /\ edit.index < CutEnd(edit) /\ m \in Nat /\ Rewrite(i, edit) \in Intervals
  <2>1. /\ edit.index \in Nat /\ CutEnd(edit) \in Nat /\ edit.index < CutEnd(edit) /\ m \in Nat
        /\ edit.action \in {"insert", "delete"}
    BY EditIs
  <2>2. i.first \in Nat /\ i.last \in Nat /\ i.first <= i.last
    BY IntervalIs
  <2>3. n \in Nat
    BY ONLY <2>2
  <2>4. Rewrite(i, edit) \in Intervals
    BY RewriteStays
  <2>5. g \in [Coordinates -> Nat]
    BY DEF Grid
  <2> QED BY <2>1, <2>2, <2>3, <2>4, <2>5
<1>2. s \in Seq(Nat) /\ Len(s) = n /\ pivot.items = s /\ U \subseteq Nat /\ \A k \in U : k < n
  BY <1>1, LinesAre
<1>3. t = Lines(ShiftedGrid(g), Rewrite(i, edit))
  BY FieldsFollow DEF Follow
<1>4. t \in Seq(Nat)
  <2> HIDE DEF t
  <2>1. ShiftedGrid(g) \in [Coordinates -> Nat]
    BY GridAfter DEF Grid
  <2> QED BY <1>1, <1>3, <2>1, LinesAre
<1>5. ASSUME NEW a \in 1 .. n, NEW b \in 1 .. n, s[a] = s[b] PROVE a = b
  <2>1. s[a] = g[i.first + a - 1] /\ s[b] = g[i.first + b - 1]
    BY <1>1, LinesAre
  <2>2. i.first + a - 1 \in Coordinates /\ i.first + b - 1 \in Coordinates
    <3>1. 1 <= i.first /\ i.last <= Limit /\ Limit \in Nat
      BY IntervalIs
    <3>2. n = i.last - i.first + 1 /\ i.first \in Nat /\ i.last \in Nat /\ n \in Nat /\ a \in 1 .. n /\ b \in 1 .. n
      BY <1>1
    <3> HIDE DEF n
    <3> QED BY ONLY <3>1, <3>2 DEF Coordinates
  <2>3. i.first + a - 1 = i.first + b - 1
    BY <1>5, <2>1, <2>2 DEF Grid
  <2> QED BY <1>1, <2>3
<1>6. UsedFields(pivot, i) = {mapped(k) : k \in U} \ {-1}
  BY <1>2 DEF UsedFields
<1>7. CutFrom(i) = IF edit.index > i.first THEN edit.index ELSE i.first
  BY DEF CutFrom
<1>8. ASSUME NEW k \in U
      PROVE  /\ mapped(k) \in Int
             /\ IF mapped(k) = -1 THEN s[k + 1] \notin Range(t) ELSE KeptAt(s, k, t, mapped(k))
  <2>1. k \in Nat /\ k < n /\ n = Len(s) /\ k < Len(s)
    BY <1>1, <1>2
  <2>2. CASE Splits(i)
    <3> DEFINE at == offset + 1
    <3>1. CutFrom(i) = edit.index /\ edit.index > i.first /\ edit.index <= i.last
      BY <1>7, <2>2 DEF Splits
    <3>2. t = Put(s, at, NewLines)
      BY <1>2, <2>2, <3>1 DEF Fields
    <3>3. NewLines \in Seq(Nat) /\ Len(NewLines) = m
      BY <1>1, NewLinesAre
    <3>4. at \in Nat /\ 1 <= at /\ at <= n + 1 /\ offset = at - 1
      <4>1. /\ i.first \in Nat /\ i.last \in Nat /\ edit.index \in Nat
            /\ edit.index > i.first /\ edit.index <= i.last
        BY <1>1, <3>1
      <4>2. n = i.last - i.first + 1 /\ offset = edit.index - i.first /\ at = offset + 1
        BY <3>1
      <4> HIDE DEF n, offset, at
      <4> QED BY ONLY <4>1, <4>2
    <3>5. mapped(k) = IF k >= offset THEN k + m ELSE k
      <4>1. IsPut(t, s, at, NewLines, m)
        <5>1. m \in Nat /\ s \in Seq(Nat) /\ at \in Nat /\ 1 <= at /\ at <= Len(s) + 1
          BY <1>1, <1>2, <3>4
        <5> HIDE DEF m, s, t, at
        <5> QED BY <3>2, <3>3, <5>1, PutInto
      <4> HIDE DEF s, t, at
      <4>2. Len(t) = n + m
        BY <1>2, <4>1 DEF IsPut
      <4>3. lost = 0 - m
        BY <1>1, <4>2
      <4>4. k \in Nat /\ m \in Nat
        BY <1>1, <2>1
      <4> QED BY <2>2, <4>3, <4>4
    <3> DEFINE j == mapped(k)
    <3>6. j = IF k >= at - 1 THEN k + Len(NewLines) ELSE k
      BY <3>3, <3>4, <3>5
    <3>7. s \in Seq(Nat) /\ at <= Len(s) + 1
      BY <1>2, <3>4
    <3> HIDE DEF s, t, at, j
    <3>8. KeptAt(s, k, t, j)
      <4> QED BY ONLY <2>1, <3>2, <3>3, <3>4, <3>6, <3>7, KeptThroughPut
    <3>9. j # -1 /\ j \in Int
      BY <3>8 DEF KeptAt
    <3> QED BY <3>8, <3>9 DEF j
  <2>3. CASE ~Splits(i) /\ t = s
    <3>1. lost = 0
      BY <1>1, <2>1, <2>3
    <3>2. mapped(k) = k
      BY <2>3, <3>1
    <3> HIDE DEF mapped
    <3>3. k # -1 /\ k < Len(t) /\ k \in Int
      BY <2>1, <2>3
    <3> QED BY <2>1, <2>3, <3>2, <3>3 DEF KeptAt
  <2>4. CASE ~Splits(i) /\ t # s
    <3> DEFINE a == offset + 1
               b == CutTo(i) - i.first + 1
               d == b - a + 1
    <3>1. edit.action = "delete" /\ ~(CutFrom(i) > CutTo(i)) /\ t = Cut(s, a, b)
      BY <1>1, <1>2, <2>4 DEF Fields
    <3>2. /\ CutFrom(i) \in Nat /\ CutTo(i) \in Nat
          /\ i.first <= CutFrom(i) /\ CutFrom(i) <= CutTo(i) /\ CutTo(i) <= i.last
      <4>1. edit.index <= i.last /\ i.first < CutEnd(edit)
        BY <1>1, <3>1, SMTT(30) DEF CutFrom, CutTo
      <4> QED BY <3>1, <4>1, LinesCut
    <3>3. /\ a \in Nat /\ b \in Nat /\ 1 <= a /\ a <= b /\ b <= n /\ d \in Nat /\ d >= 1
          /\ offset = a - 1 /\ d = b - a + 1
      <4>1. i.first \in Nat /\ i.last \in Nat
        BY <1>1
      <4>2. /\ n = i.last - i.first + 1 /\ offset = CutFrom(i) - i.first /\ a = offset + 1
            /\ b = CutTo(i) - i.first + 1 /\ d = b - a + 1
        OBVIOUS
      <4> HIDE DEF n, offset, a, b, d
      <4> QED BY ONLY <3>2, <4>1, <4>2
    <3>4. s \in Seq(Nat) /\ b <= Len(s) /\ a <= b + 1
      BY <1>1, <1>2, <3>3
    <3> HIDE DEF s, t, a, b, d
    <3>5. IsCut(t, s, a, b, d)
      BY ONLY <3>1, <3>3, <3>4, CutOut
    <3>6. Len(t) = n - d
      BY <1>2, <3>5 DEF IsCut
    <3>7. lost = d
      BY <1>1, <3>3, <3>6
    <3>8. CutAround(t, s, a, d, k)
      <4>1. \A x \in 1 .. Len(s), y \in 1 .. Len(s) : s[x] = s[y] => x = y
        BY <1>2, <1>5
      <4> QED BY ONLY <2>1, <3>1, <3>3, <3>4, <4>1, KeptThroughCut
    <3>9. mapped(k) = IF k < a - 1 THEN k ELSE IF k >= a - 1 + d THEN k - d ELSE -1
      <4>1. ~(lost <= 0) /\ offset = a - 1
        BY <3>3, <3>7
      <4> HIDE DEF offset, lost
      <4> QED BY <2>4, <3>7, <4>1
    <3> HIDE DEF mapped, offset, lost, n
    <3>10. CASE k < a - 1
      <4>1. mapped(k) = k /\ KeptAt(s, k, t, k)
        BY <3>8, <3>9, <3>10 DEF CutAround
      <4> QED BY <2>1, <4>1
    <3>11. CASE ~(k < a - 1) /\ k >= a - 1 + d
      <4>1. mapped(k) = k - d /\ KeptAt(s, k, t, k - d)
        BY <3>8, <3>9, <3>11 DEF CutAround
      <4>2. k - d \in Int /\ k - d # -1
        BY <4>1 DEF KeptAt
      <4> QED BY <4>1, <4>2
    <3>12. CASE ~(k < a - 1) /\ ~(k >= a - 1 + d)
      <4>1. mapped(k) = -1
        BY <3>9, <3>12
      <4>2. \A c \in 1 .. Len(t) : t[c] # s[k + 1]
        BY <3>8, <3>12 DEF CutAround
      <4>3. DOMAIN t = 1 .. Len(t)
        BY <1>4
      <4>4. s[k + 1] \notin Range(t)
        BY <4>2, <4>3 DEF Range
      <4> QED BY <4>1, <4>4
    <3> QED BY <3>10, <3>11, <3>12
  <2> QED BY <2>2, <2>3, <2>4
<1> HIDE DEF mapped, t, s, U
<1>9. f \in [U -> Int] /\ \A k \in U : f[k] = mapped(k)
  BY <1>8
<1> HIDE DEF f
<1>10. /\ \A k \in U : k < Len(s)
       /\ \A k \in U : IF f[k] = -1 THEN s[k + 1] \notin Range(t)
                       ELSE f[k] \in Nat /\ f[k] < Len(t) /\ t[f[k] + 1] = s[k + 1]
  BY <1>2, <1>8, <1>9 DEF KeptAt
<1>11. /\ {f[k] : k \in U} \ {-1} \subseteq Nat
       /\ {t[k + 1] : k \in {f[e] : e \in U} \ {-1}} = {s[k + 1] : k \in U} \cap Range(t)
  <2>1. MovesTo(s, t, U, f)
    BY <1>2, <1>4, <1>9, <1>10 DEF MovesTo
  <2>2. MovedTo(s, t, U, f)
    BY ONLY <2>1, UsesMove
  <2> QED BY <2>2 DEF MovedTo
<1>12. {f[k] : k \in U} = {mapped(k) : k \in U}
  BY <1>9
<1>13. UsedFields(pivot, i) = {f[e] : e \in U} \ {-1}
  BY <1>6, <1>12
<1>14. {pivot.items[k + 1] : k \in U} = {s[k + 1] : k \in U}
  BY <1>2
<1> QED BY <1>11, <1>13, <1>14 DEF t, U

(* The records below a header are the sequence without its first line.     *)
LEMMA TailOfPut ==
    ASSUME NEW s \in Seq(Nat), NEW new \in Seq(Nat), NEW low \in Nat, NEW at \in Nat,
           1 <= low, low <= Len(s), at = low + 1
    PROVE  Tail(Put(s, at, new)) = Put(Tail(s), low, new)
<1> DEFINE n == Len(s)
           m == Len(new)
           r == Tail(s)
           t == Put(s, at, new)
           u == Put(r, low, new)
<1>1. n \in Nat /\ m \in Nat /\ 1 <= n /\ m = Len(new) /\ n = Len(s) /\ 1 <= at /\ at <= Len(s) + 1
  OBVIOUS
<1>2. r \in Seq(Nat) /\ Len(r) = n - 1 /\ \A k \in 1 .. n - 1 : r[k] = s[k + 1]
  BY <1>1, TailOf
<1> HIDE DEF n, m, r
<1>3. IsPut(t, s, at, new, m)
  BY <1>1, PutInto
<1>4. low <= Len(r) + 1
  BY <1>1, <1>2
<1>5. IsPut(u, r, low, new, m)
  BY <1>1, <1>2, <1>4, PutInto
<1> HIDE DEF t, u
<1>6. t \in Seq(Nat) /\ Len(t) = n + m /\ u \in Seq(Nat) /\ Len(u) = n + m - 1
  BY <1>1, <1>2, <1>3, <1>5 DEF IsPut
<1>7. Tail(t) \in Seq(Nat) /\ Len(Tail(t)) = n + m - 1 /\ \A k \in 1 .. n + m - 1 : Tail(t)[k] = t[k + 1]
  BY <1>1, <1>6, TailOf
<1>8. ASSUME NEW k \in 1 .. n + m - 1 PROVE Tail(t)[k] = u[k]
  <2> DEFINE h == k + 1
  <2>1. h \in 1 .. n + m /\ k \in 1 .. (n - 1) + m
    BY <1>1
  <2>2. t[h] = IF h < at THEN s[h] ELSE IF h < at + m THEN new[h - at + 1] ELSE s[h - m]
    <3> HIDE DEF h
    <3> QED BY <1>1, <1>3, <2>1 DEF IsPut
  <2>3. u[k] = IF k < low THEN r[k] ELSE IF k < low + m THEN new[k - low + 1] ELSE r[k - m]
    BY <1>1, <1>2, <1>5, <2>1 DEF IsPut
  <2>4. CASE k < low
    <3>1. k \in 1 .. n - 1 /\ h < at
      BY <1>1, <2>4
    <3> QED BY <1>2, <1>7, <2>2, <2>3, <2>4, <3>1
  <2>5. CASE ~(k < low) /\ k < low + m
    <3>1. ~(h < at) /\ h < at + m /\ h - at + 1 = k - low + 1
      BY <1>1, <2>5
    <3> QED BY <1>7, <2>2, <2>3, <2>5, <3>1
  <2>6. CASE ~(k < low + m)
    <3> DEFINE x == k - m
    <3>1. x \in 1 .. n - 1 /\ ~(h < at) /\ ~(h < at + m) /\ h - m = x + 1 /\ ~(k < low)
      BY <1>1, <2>1, <2>6
    <3>2. r[x] = s[x + 1]
      <4> HIDE DEF x
      <4> QED BY <1>2, <3>1
    <3> QED BY <1>7, <2>2, <2>3, <2>6, <3>1, <3>2
  <2> QED BY <2>4, <2>5, <2>6
<1>9. n + m - 1 \in Nat
  BY <1>1
<1> QED BY <1>6, <1>7, <1>8, <1>9, SameSequence, ZenonT(60) DEF t, u, r

(* "to" is the last one cut when the first line stays, and else the one    *)
(* that becomes the first.                                                 *)
TailsMeet(from, to, low, high) ==
    /\ 1 <= low /\ low <= high
    /\ \/ from = low + 1 /\ to = high + 1
       \/ from = 1 /\ low = 1 /\ to = high

LEMMA TailOfCut ==
    ASSUME NEW s \in Seq(Nat), NEW from \in Nat, NEW to \in Nat, NEW low \in Nat, NEW high \in Nat,
           TailsMeet(from, to, low, high), high < Len(s)
    PROVE  Tail(Cut(s, from, to)) = Cut(Tail(s), low, high)
<1> DEFINE n == Len(s)
           d == high - low + 1
           r == Tail(s)
           t == Cut(s, from, to)
           u == Cut(r, low, high)
<1>1. /\ n \in Nat /\ d \in Nat /\ 1 <= n /\ n = Len(s) /\ d = to - from + 1 /\ d = high - low + 1 /\ d < n
      /\ 1 <= from /\ from <= to + 1 /\ to <= Len(s)
      /\ 1 <= low /\ low <= high /\ high < n
      /\ \/ from = low + 1 /\ to = high + 1
         \/ from = 1 /\ low = 1 /\ to = high
  BY DEF TailsMeet
<1>2. r \in Seq(Nat) /\ Len(r) = n - 1 /\ \A k \in 1 .. n - 1 : r[k] = s[k + 1]
  BY <1>1, TailOf
<1> HIDE DEF n, d, r
<1>3. IsCut(t, s, from, to, d)
  BY <1>1, CutOut
<1>4. low <= high + 1 /\ high <= Len(r)
  <2>1. Len(r) = n - 1
    BY <1>2
  <2>2. n \in Nat /\ low \in Nat /\ high \in Nat /\ low <= high /\ high < n
    BY <1>1
  <2> QED BY ONLY <2>1, <2>2
<1>5. IsCut(u, r, low, high, d)
  BY <1>1, <1>2, <1>4, CutOut
<1> HIDE DEF t, u
<1>6. t \in Seq(Nat) /\ Len(t) = n - d /\ u \in Seq(Nat) /\ Len(u) = n - d - 1
  <2>1. t \in Seq(Nat) /\ Len(t) = n - d
    BY <1>1, <1>3 DEF IsCut
  <2>2. u \in Seq(Nat) /\ Len(u) = (n - 1) - d
    BY <1>2, <1>5 DEF IsCut
  <2>3. (n - 1) - d = n - d - 1
    BY <1>1
  <2> QED BY <2>1, <2>2, <2>3
<1>7. Tail(t) \in Seq(Nat) /\ Len(Tail(t)) = n - d - 1 /\ \A k \in 1 .. n - d - 1 : Tail(t)[k] = t[k + 1]
  BY <1>1, <1>6, TailOf
<1>8. ASSUME NEW k \in 1 .. n - d - 1 PROVE Tail(t)[k] = u[k]
  <2> DEFINE h == k + 1
             x == k + d
  <2>1. h \in 1 .. n - d /\ k \in 1 .. (n - 1) - d /\ h + d = x + 1 /\ x \in 1 .. n - 1 /\ k \in 1 .. n - 1
    BY <1>1
  <2>2. t[h] = IF h < from THEN s[h] ELSE s[h + d]
    <3> HIDE DEF h
    <3> QED BY <1>1, <1>3, <2>1 DEF IsCut
  <2>3. u[k] = IF k < low THEN r[k] ELSE r[k + d]
    BY <1>1, <1>2, <1>5, <2>1 DEF IsCut
  <2>4. h < from <=> k < low
    BY <1>1
  <2>5. r[k] = s[h] /\ r[x] = s[x + 1]
    <3> HIDE DEF x
    <3> QED BY <1>2, <2>1
  <2> QED BY <1>7, <2>1, <2>2, <2>3, <2>4, <2>5
<1>9. n - d - 1 \in Nat
  BY <1>1
<1> QED BY <1>6, <1>7, <1>8, <1>9, SameSequence DEF t, u, r

LEMMA RecordsFollow ==
    ASSUME edit \in Edits, fresh \in Nat, NEW g, Grid(g, fresh), NEW i \in Intervals,
           NEW pivot, pivot.items = Tail(Lines(g, i)), pivot.items # <<>>,
           Rewrite(i, edit) # Gone, ~PushedOff(i)
    PROVE  Records(pivot, i) = Tail(Lines(ShiftedGrid(g), Rewrite(i, edit)))
<1> DEFINE s == Lines(g, i)
           L == Lines(ShiftedGrid(g), Rewrite(i, edit))
<1>1. /\ edit.index \in Nat /\ edit.amount \in Nat /\ 1 <= edit.amount /\ CutEnd(edit) \in Nat
      /\ edit.action \in {"insert", "delete"} /\ edit.index < CutEnd(edit)
      /\ i.first \in Nat /\ i.last \in Nat /\ i.first <= i.last /\ i # Gone
  BY EditIs, IntervalIs
<1>n. /\ edit.index \in Nat /\ edit.amount \in Nat /\ CutEnd(edit) \in Nat /\ edit.index < CutEnd(edit)
      /\ i.first \in Nat /\ i.last \in Nat /\ i.first <= i.last /\ Limit \in Nat
  BY <1>1, IntervalIs
<1>2. /\ s \in Seq(Nat) /\ Len(s) = i.last - i.first + 1 /\ Len(s) \in Nat
      /\ pivot.items = Tail(s)
  BY <1>1, LinesAre DEF Grid
<1> HIDE DEF s, L
<1>3. Len(pivot.items) = i.last - i.first
  <2>1. Len(s) >= 1
    BY <1>1, <1>2
  <2>2. Len(Tail(s)) = Len(s) - 1
    BY <1>2, <2>1, TailOf
  <2>3. Len(s) = i.last - i.first + 1 /\ pivot.items = Tail(s)
    BY <1>2
  <2> QED BY ONLY <1>n, <2>2, <2>3
<1>4. CASE Splits(i)
  <2>1. edit.action = "insert" /\ edit.index > i.first /\ edit.index <= i.last
    BY <1>4 DEF Splits
  <2>2. ~(i.last > Limit - edit.amount)
    BY <1>1, <2>1 DEF PushedOff, Touches
  <2>3. L = Put(s, edit.index - i.first + 1, NewLines)
    <3>1. i.last <= Limit - edit.amount
      BY ONLY <1>n, <2>2
    <3> QED BY <1>1, <2>1, <3>1, LinesPutIn DEF L, s
  <2>4. Records(pivot, i) = Put(Tail(s), edit.index - i.first, NewLines)
    BY <1>2, <1>3, <1>4 DEF Records
  <2> DEFINE low == edit.index - i.first
             at == edit.index - i.first + 1
  <2>5. low \in Nat /\ at \in Nat /\ 1 <= low /\ low <= Len(s) /\ at = low + 1
    <3>1. Len(s) = i.last - i.first + 1
      BY <1>2
    <3> QED BY ONLY <1>n, <2>1, <3>1 DEF low, at
  <2>6. NewLines \in Seq(Nat)
    BY NewLinesAre
  <2> HIDE DEF low, at
  <2>7. Tail(Put(s, at, NewLines)) = Put(Tail(s), low, NewLines)
    BY <1>2, <2>5, <2>6, TailOfPut
  <2> QED BY <2>3, <2>4, <2>7 DEF low, at, L
<1>5. CASE edit.action = "insert" /\ ~Splits(i)
  <2>1. Follow(s, g, i)
    BY <1>5, InsertionsFollow DEF s
  <2>2. L = s
    BY <2>1 DEF Follow, L
  <2>3. Records(pivot, i) = pivot.items
    BY <1>5 DEF Records
  <2> QED BY <1>2, <2>2, <2>3 DEF L
<1>6. CASE edit.action = "delete" /\ ~(edit.index <= i.last /\ i.first < CutEnd(edit))
  <2>1. Follow(s, g, i)
    BY <1>6, DeletionsFollow DEF s
  <2>2. L = s
    BY <2>1 DEF Follow, L
  <2>3. Records(pivot, i) = pivot.items
    <3> DEFINE from == IF edit.index > i.first THEN edit.index ELSE i.first + 1
    <3>1. ~Splits(i) /\ ~(edit.index <= i.first /\ i.first < CutEnd(edit))
      BY <1>1, <1>6 DEF Splits
    <3>2. from > CutTo(i)
      BY <1>1, <1>6 DEF CutTo
    <3> QED BY <3>1, <3>2 DEF Records
  <2> QED BY <1>2, <2>2, <2>3 DEF L
<1>7. CASE edit.action = "delete" /\ edit.index <= i.last /\ i.first < CutEnd(edit)
  <2>1. /\ CutFrom(i) \in Nat /\ CutTo(i) \in Nat
        /\ i.first <= CutFrom(i) /\ CutFrom(i) <= CutTo(i) /\ CutTo(i) <= i.last
        /\ L = Cut(s, CutFrom(i) - i.first + 1, CutTo(i) - i.first + 1)
    BY <1>7, LinesCut DEF L, s
  <2>2. ~Splits(i)
    BY <1>7 DEF Splits
  <2> DEFINE from == CutFrom(i) - i.first + 1
             to == CutTo(i) - i.first + 1
  <2>3. CASE edit.index > i.first
    <3> DEFINE low == CutFrom(i) - i.first
               high == CutTo(i) - i.first
    <3>1. CutFrom(i) = edit.index /\ ~(CutFrom(i) > CutTo(i)) /\ ~(edit.index <= i.first)
      BY <1>1, <2>1, <2>3 DEF CutFrom
    <3>2. Records(pivot, i) = Cut(Tail(s), low, high)
      BY <1>2, <1>3, <1>7, <2>2, <2>3, <3>1 DEF Records
    <3>3. /\ from \in Nat /\ to \in Nat /\ low \in Nat /\ high \in Nat /\ 1 <= low /\ low <= high /\ high < Len(s)
          /\ from = low + 1 /\ to = high + 1
      <4>1. Len(s) = i.last - i.first + 1
        BY <1>2
      <4>2. /\ CutFrom(i) \in Nat /\ CutTo(i) \in Nat /\ CutFrom(i) <= CutTo(i) /\ CutTo(i) <= i.last
            /\ i.first < CutFrom(i)
        BY <2>1, <2>3, <3>1
      <4>3. low = CutFrom(i) - i.first /\ high = CutTo(i) - i.first /\ from = low + 1 /\ to = high + 1
        OBVIOUS
      <4> HIDE DEF from, to, low, high
      <4>4. low \in Nat /\ high \in Nat /\ 1 <= low /\ low <= high /\ high < i.last - i.first + 1
        BY ONLY <1>n, <4>2, <4>3
      <4>5. from \in Nat /\ to \in Nat
        BY ONLY <4>3, <4>4
      <4> QED BY <4>1, <4>3, <4>4, <4>5
    <3> HIDE DEF from, to, low, high
    <3>4. Tail(Cut(s, from, to)) = Cut(Tail(s), low, high)
      <4>1. s \in Seq(Nat) /\ high < Len(s)
        BY <1>2, <3>3
      <4>2. from \in Nat /\ to \in Nat /\ low \in Nat /\ high \in Nat
        BY <3>3
      <4>3. TailsMeet(from, to, low, high)
        BY <3>3 DEF TailsMeet
      <4> QED BY ONLY <4>1, <4>2, <4>3, TailOfCut
    <3> QED BY <2>1, <3>2, <3>4 DEF from, to, L
  <2>4. CASE ~(edit.index > i.first)
    <3>1. CutEnd(edit) <= i.last
      <4>1. Rewrite(i, edit) = DeletedFrom(i, edit)
        BY <1>1, <1>7 DEF Rewrite, TransformInterval
      <4>2. ~(CutEnd(edit) <= i.first) /\ ~(edit.index > i.last) /\ ~(i.first < edit.index)
        BY <1>1, <1>7, <2>4
      <4>3. i.last >= CutEnd(edit)
        BY <4>1, <4>2 DEF DeletedFrom
      <4> QED BY <1>1, <4>3
    <3>2. CutFrom(i) = i.first /\ CutTo(i) = CutEnd(edit) - 1
      BY <1>1, <2>4, <3>1 DEF CutFrom, CutTo
    <3> DEFINE high == CutEnd(edit) - i.first
    <3>3. Records(pivot, i) = Cut(Tail(s), (i.first + 1) - i.first, high)
      <4>1. edit.index <= i.first /\ i.first < CutEnd(edit) /\ ~(i.first + 1 > CutEnd(edit))
        BY <1>1, <1>7, <2>4
      <4>2. pivot.items # <<>> /\ ~(Len(pivot.items) # i.last - i.first) /\ edit.action # "insert"
        BY <1>3, <1>7
      <4> HIDE DEF high
      <4>3. Records(pivot, i) = Cut(pivot.items, (i.first + 1) - i.first, CutEnd(edit) - i.first)
        BY <2>2, <2>4, <3>1, <4>1, <4>2 DEF Records
      <4> QED BY <1>2, <4>3 DEF high
    <3>4. /\ high \in Nat /\ 1 <= high /\ high < Len(s) /\ (i.first + 1) - i.first = 1
          /\ to \in Nat /\ from = 1 /\ to = high
      <4>1. Len(s) = i.last - i.first + 1 /\ i.first < CutEnd(edit)
        BY <1>2, <1>7
      <4>2. from = i.first - i.first + 1 /\ to = (CutEnd(edit) - 1) - i.first + 1 /\ high = CutEnd(edit) - i.first
        BY <3>2
      <4> DEFINE end == CutEnd(edit)
                 len == Len(s)
      <4>3. i.first \in Nat /\ i.last \in Nat /\ end \in Nat
        BY <1>n
      <4>4. len = i.last - i.first + 1 /\ i.first < end /\ end <= i.last
        BY <3>1, <4>1
      <4>5. from = i.first - i.first + 1 /\ to = (end - 1) - i.first + 1 /\ high = end - i.first
        BY <4>2
      <4> HIDE DEF from, to, high, end, len
      <4>6. /\ high \in Nat /\ 1 <= high /\ high < len /\ (i.first + 1) - i.first = 1
            /\ to \in Nat /\ from = 1 /\ to = high
        BY ONLY <4>3, <4>4, <4>5
      <4> QED BY <4>6 DEF len
    <3> HIDE DEF from, to, high
    <3> DEFINE low == 1
    <3> HIDE DEF low
    <3>5. low = 1
      BY DEF low
    <3>6. Tail(Cut(s, from, to)) = Cut(Tail(s), low, high)
      <4>1. s \in Seq(Nat) /\ high < Len(s)
        BY <1>2, <3>4
      <4>2. from \in Nat /\ to \in Nat /\ low \in Nat /\ high \in Nat
        BY <3>4, <3>5
      <4>3. TailsMeet(from, to, low, high)
        BY <3>4, <3>5 DEF TailsMeet
      <4> QED BY ONLY <4>1, <4>2, <4>3, TailOfCut
    <3> QED BY <2>1, <3>3, <3>4, <3>5, <3>6 DEF from, to, L
  <2> QED BY <2>3, <2>4
<1> QED BY <1>1, <1>4, <1>5, <1>6, <1>7 DEF Splits

LEMMA PositionKept ==
    ASSUME edit \in Edits, fresh \in Nat, NEW g, Grid(g, fresh), NEW c \in Coordinates,
           g[c] \in Range(ShiftedGrid(g))
    PROVE  ShiftedGrid(g)[TransformPosition(c, edit)] = g[c]
<1>1. Survives(c, edit)
  BY LineGone
<1>2. /\ edit.index \in Nat /\ edit.amount \in Nat /\ 1 <= edit.amount /\ CutEnd(edit) = edit.index + edit.amount
      /\ Limit \in Nat /\ c \in Nat /\ edit.action \in {"insert", "delete"}
  BY EditIs, LimitAssumption DEF Coordinates
<1>3. MapCoordinate(c, edit) \in Nat /\ 1 <= MapCoordinate(c, edit) /\ MapCoordinate(c, edit) <= Limit
  BY <1>1, <1>2 DEF Survives, Coordinates
<1>4. TransformPosition(c, edit) = MapCoordinate(c, edit)
  <2>1. CASE edit.action = "insert"
    <3>1. c >= edit.index => ~(c > Limit - edit.amount)
      BY <1>2, <1>3, <2>1 DEF MapCoordinate
    <3>2. MapCoordinate(c, edit) = IF c >= edit.index THEN c + edit.amount ELSE c
      BY <2>1 DEF MapCoordinate
    <3>3. TransformPosition(c, edit) = IF c < edit.index THEN c ELSE Grown(c, edit)
      BY <2>1 DEF TransformPosition
    <3> QED BY <1>2, <3>1, <3>2, <3>3 DEF Grown
  <2>2. CASE edit.action = "delete"
    <3>1. MapCoordinate(c, edit) = IF c < edit.index THEN c ELSE IF c < CutEnd(edit) THEN 0 ELSE c - edit.amount
      BY <2>2 DEF MapCoordinate
    <3>2. TransformPosition(c, edit) = IF c >= CutEnd(edit) THEN c - edit.amount
                                       ELSE IF c >= edit.index THEN edit.index ELSE c
      BY <2>2 DEF TransformPosition
    <3> QED BY <1>2, <1>3, <3>1, <3>2
  <2> QED BY <1>2, <2>1, <2>2
<1> QED BY <1>1, <1>4, LineMoves

(* A pivot table before and after the edit: i its source, pv its cache and *)
(* uses before, np after.                                                  *)
PivotBefore(pv, g, i) ==
    /\ (i # Gone /\ pv.items # <<>>) => pv.items = Lines(g, i)
    /\ pv.items \in Seq(Nat) /\ pv.used \subseteq Nat /\ \A n \in pv.used : n < Len(pv.items)
PivotAfter(np, pv, g, i) ==
    LET j == Rewrite(i, edit)
    IN  /\ (j # Gone /\ np.items # <<>>) => np.items = Lines(ShiftedGrid(g), j)
        /\ np.items \in Seq(Nat) /\ np.used \subseteq Nat
        /\ j # Gone => UsedLines(np) = UsedLines(pv) \cap Range(np.items)

LEMMA EmptyUses ==
    ASSUME NEW pv, pv.items \in Seq(Nat), pv.used \subseteq Nat, \A n \in pv.used : n < Len(pv.items),
           pv.items = <<>>
    PROVE  pv.used = {}
<1>1. Len(pv.items) = 0
  OBVIOUS
<1> QED BY <1>1

LEMMA UsesAreLines ==
    ASSUME NEW pv, pv.items \in Seq(Nat), pv.used \subseteq Nat, \A n \in pv.used : n < Len(pv.items)
    PROVE  UsedLines(pv) = UsedLines(pv) \cap Range(pv.items)
<1>1. ASSUME NEW n \in pv.used PROVE pv.items[n + 1] \in Range(pv.items)
  <2>1. n + 1 \in DOMAIN pv.items
    OBVIOUS
  <2> QED BY <2>1 DEF Range
<1> QED BY <1>1 DEF UsedLines

LEMMA PivotFollows ==
    ASSUME edit \in Edits, fresh \in Nat, NEW g, Grid(g, fresh), axis = "column",
           NEW i \in Intervals \cup {Gone}, NEW pv, PivotBefore(pv, g, i), ~FieldsThrow(pv, i),
           NEW np, np = RepairedPivot(pv, i, TRUE),
           i # Gone /\ Rewrite(i, edit) # Gone => ~WrongWidth(np.items, Rewrite(i, edit))
    PROVE  PivotAfter(np, pv, g, i)
<1>0. /\ pv.items \in Seq(Nat) /\ pv.used \subseteq Nat /\ \A n \in pv.used : n < Len(pv.items)
      /\ (i # Gone /\ pv.items # <<>>) => pv.items = Lines(g, i)
  BY DEF PivotBefore
<1>1. CASE np = pv /\ (Rewrite(i, edit) # Gone => i \in Intervals /\ ~Touches(edit, i))
  <2>1. UsedLines(pv) = UsedLines(pv) \cap Range(pv.items)
    BY <1>0, UsesAreLines
  <2>2. ASSUME Rewrite(i, edit) # Gone, pv.items # <<>>
        PROVE  pv.items = Lines(ShiftedGrid(g), Rewrite(i, edit))
    <3>1. i \in Intervals /\ ~Touches(edit, i) /\ i # Gone
      BY <1>1, <2>2, IntervalIs
    <3>2. Rewrite(i, edit) = i /\ Lines(ShiftedGrid(g), i) = Lines(g, i)
      BY <3>1, LinesUntouched
    <3> QED BY <1>0, <2>2, <3>1, <3>2
  <2> QED BY <1>0, <1>1, <2>1, <2>2 DEF PivotAfter
<1>2. CASE i \in Intervals /\ Touches(edit, i) /\ Rewrite(i, edit) # Gone
  <2>1. np = [items |-> Fields(pv, i), used |-> UsedFields(pv, i)]
    BY <1>2 DEF RepairedPivot
  <2>a. np.items = Fields(pv, i) /\ np.used = UsedFields(pv, i)
    BY ONLY <2>1
  <2>2. i # Gone /\ edit.action \in {"insert", "delete"}
    BY <1>2, IntervalIs, EditIs
  <2>3. CASE pv.items = <<>>
    <3>1. ~Splits(i)
      <4>1. Len(pv.items) = 0
        BY <2>3
      <4>2. Splits(i) => edit.index - i.first > 0
        BY <1>2, EditIs, IntervalIs DEF Splits
      <4> QED BY <1>2, <2>2, <4>1, <4>2 DEF FieldsThrow
    <3>2. Fields(pv, i) = <<>>
      <4>1. CutFrom(i) - i.first >= Len(pv.items)
        <5>1. CutFrom(i) \in Nat /\ CutFrom(i) >= i.first /\ i.first \in Nat
          BY <1>2, EditIs, IntervalIs DEF CutFrom
        <5>2. Len(pv.items) = 0
          BY <2>3
        <5> QED BY ONLY <5>1, <5>2
      <4> QED BY <2>3, <3>1, <4>1 DEF Fields
    <3>3. pv.used = {}
      BY <1>0, <2>3, EmptyUses
    <3>4. UsedFields(pv, i) = {}
      BY <3>3 DEF UsedFields
    <3>5. np.items = <<>> /\ np.used = {} /\ np.items \in Seq(Nat)
      BY <1>0, <2>3, <2>a, <3>2, <3>4
    <3>6. UsedLines(np) = {} /\ UsedLines(pv) = {}
      BY <3>3, <3>5 DEF UsedLines
    <3> QED BY <3>5, <3>6 DEF PivotAfter
  <2>4. CASE pv.items # <<>>
    <3>1. pv.items = Lines(g, i)
      BY <1>0, <2>2, <2>4
    <3>2. Follow(Fields(pv, i), g, i)
      BY <1>2, <3>1, FieldsFollow
    <3>3. ~PushedOff(i)
      <4> SUFFICES ASSUME PushedOff(i) PROVE FALSE
        OBVIOUS
      <4>1. Fields(pv, i) \in Seq(Nat) /\ Len(Fields(pv, i)) > Width(Rewrite(i, edit))
        BY <1>2, <3>2 DEF Follow
      <4>2. Rewrite(i, edit) \in Intervals
        BY <1>2, RewriteStays
      <4>3. Width(Rewrite(i, edit)) \in Nat
        <5> DEFINE j == Rewrite(i, edit)
        <5>1. j.first \in Nat /\ j.last \in Nat /\ j.first <= j.last
          BY <4>2, IntervalIs
        <5> HIDE DEF j
        <5>2. j.last - j.first + 1 \in Nat
          BY <5>1
        <5> QED BY <5>2 DEF Width, j
      <4>4. Fields(pv, i) # <<>> /\ Len(Fields(pv, i)) # Width(Rewrite(i, edit))
        <5> DEFINE w == Width(Rewrite(i, edit))
                   f == Fields(pv, i)
        <5>1. f \in Seq(Nat) /\ Len(f) > w /\ w \in Nat
          BY <4>1, <4>3
        <5> HIDE DEF w, f
        <5>2. f # <<>> /\ Len(f) # w
          BY <5>1
        <5> QED BY <5>2 DEF w, f
      <4>5. WrongWidth(np.items, Rewrite(i, edit))
        BY <1>2, <2>a, <4>4 DEF WrongWidth
      <4> QED BY <1>2, <2>2, <4>5
    <3>4. Fields(pv, i) = Lines(ShiftedGrid(g), Rewrite(i, edit))
      BY <1>2, <3>2, <3>3 DEF Follow
    <3>5. /\ UsedFields(pv, i) \subseteq Nat
          /\ {Fields(pv, i)[k + 1] : k \in UsedFields(pv, i)}
               = {pv.items[n + 1] : n \in pv.used} \cap Range(Fields(pv, i))
      BY <1>0, <1>2, <3>1, <3>3, UsesFollow
    <3>6. np.items \in Seq(Nat)
      <4>1. ShiftedGrid(g) \in [Coordinates -> Nat]
        BY GridAfter DEF Grid
      <4>2. Rewrite(i, edit) \in Intervals
        BY <1>2, RewriteStays
      <4>3. Lines(ShiftedGrid(g), Rewrite(i, edit)) \in Seq(Nat)
        BY ONLY <4>1, <4>2, LinesAre
      <4> QED BY <2>a, <3>4, <4>3
    <3>8. UsedLines(np) = UsedLines(pv) \cap Range(np.items)
      BY ONLY <2>a, <3>5 DEF UsedLines
    <3> QED BY <2>a, <3>4, <3>5, <3>6, <3>8 DEF PivotAfter
  <2> QED BY <2>3, <2>4
<1>3. CASE ~(i \in Intervals /\ Touches(edit, i) /\ Rewrite(i, edit) # Gone)
  <2>1. i = Gone => Rewrite(i, edit) = Gone /\ ~Touches(edit, i)
    BY DEF Rewrite, Touches
  <2>2. np = pv
    BY <1>3, <2>1 DEF RepairedPivot
  <2> QED BY <1>1, <1>3, <2>1, <2>2
<1> QED BY <1>2, <1>3

(* At the end of an edit that goes through.                                *)
LEMMA EditDone ==
    ASSUME EditInv, ItemsInv, pc = "validation"
    PROVE  /\ edit \in Edits /\ fresh \in Nat /\ Grid(snapshot.grid, fresh)
           /\ book.grid = ShiftedGrid(snapshot.grid)
           /\ \A p \in PivotPlaces \cup {"table", "filter"} :
                /\ snapshot.refs[p] \in Intervals \cup {Gone}
                /\ book.refs[p] = Rewrite(snapshot.refs[p], edit)
           /\ \A p \in PivotPlaces :
                /\ ~FieldsThrow(snapshot.pivots[p], snapshot.refs[p])
                /\ book.pivots[p] = RepairedPivot(snapshot.pivots[p], snapshot.refs[p], TRUE)
           /\ ItemsHalfway /\ ItemsRight(snapshot)
<1>1. edit \in Edits /\ ReferencesOnSheet(snapshot) /\ Halfway /\ ItemsHalfway /\ ItemsRight(snapshot)
  BY DEF EditInv, TypeOK, ItemsInv
<1>2. Passed = Places
  BY DEF Passed, Places, LocalPlaces, AreaPlaces, CellPlaces, FormulaPlaces, ChartPlaces, PivotPlaces
<1>3. ASSUME NEW p \in PivotPlaces \cup {"table", "filter"}
      PROVE  /\ snapshot.refs[p] \in Intervals \cup {Gone}
             /\ book.refs[p] = Rewrite(snapshot.refs[p], edit)
  <2>1. p \in Places /\ p \notin CellPlaces /\ p # "merge"
    BY DEF Places, AreaPlaces, CellPlaces, PivotPlaces
  <2> QED BY <1>1, <1>2, <2>1 DEF Halfway, MovedRef, ReferencesOnSheet
<1>4. PivotPlaces \subseteq Passed
  BY <1>2 DEF Places
<1>5. book.grid = ShiftedGrid(snapshot.grid)
  BY <1>1 DEF Halfway
<1> QED BY <1>1, <1>3, <1>4, <1>5 DEF EditInv, ItemsHalfway

LEMMA ListedOr ==
    ASSUME NEW b, NEW i \in Intervals \cup {Gone}, i # Gone
    PROVE  i \in Intervals /\ Listed(b, i) = Lines(b.grid, i)
BY ListedIs

(* No table and no cache of a pivot table is of another width than its     *)
(* range, before the edit nor after one that is not rejected.              *)
LEMMA WidthsBefore ==
    ASSUME EditInv, ItemsRight(snapshot), axis = "column"
    PROVE  ModelErrors(snapshot) = {}
<1>1. /\ snapshot.grid \in [Coordinates -> Nat]
      /\ \A p \in Places : snapshot.refs[p] \in Intervals \cup {Gone}
      /\ TableRight(snapshot) /\ FieldsRight(snapshot)
  BY DEF EditInv, TypeOK, ReferencesOnSheet, Grid, ItemsRight
<1>2. ASSUME NEW p \in Places, NEW items,
             snapshot.refs[p] # Gone /\ items # <<>> => items = Listed(snapshot, snapshot.refs[p])
      PROVE  ~WrongWidth(items, snapshot.refs[p])
  <2> SUFFICES ASSUME snapshot.refs[p] # Gone, items # <<>> PROVE Len(items) = Width(snapshot.refs[p])
    BY DEF WrongWidth
  <2>1. snapshot.refs[p] \in Intervals /\ items = Lines(snapshot.grid, snapshot.refs[p])
    BY <1>1, <1>2, ListedOr
  <2> QED BY <1>1, <2>1, WidthIs
<1>3. ASSUME NEW p \in PivotPlaces PROVE p \notin PivotErrors(snapshot)
  <2>1. /\ InStep(snapshot, p) /\ snapshot.pivots[p].items \in Seq(Nat) /\ snapshot.pivots[p].used \subseteq Nat
        /\ \A n \in snapshot.pivots[p].used : n < Len(snapshot.pivots[p].items)
    BY <1>1 DEF FieldsRight
  <2>2. ~WrongWidth(snapshot.pivots[p].items, snapshot.refs[p])
    <3>1. p \in Places
      BY DEF Places
    <3>2. snapshot.refs[p] # Gone /\ snapshot.pivots[p].items # <<>>
            => snapshot.pivots[p].items = Listed(snapshot, snapshot.refs[p])
      BY <2>1 DEF InStep, HeaderOff
    <3> QED BY <1>2, <3>1, <3>2
  <2>3. ASSUME NEW n \in snapshot.pivots[p].used PROVE ~(n >= Len(snapshot.pivots[p].items))
    <3>1. n \in Nat /\ n < Len(snapshot.pivots[p].items) /\ Len(snapshot.pivots[p].items) \in Nat
      BY <2>1
    <3> QED BY ONLY <3>1
  <2> QED BY <2>2, <2>3 DEF PivotErrors
<1>4. PivotErrors(snapshot) = {}
  BY <1>3 DEF PivotErrors
<1>5. ~WrongWidth(snapshot.columns, snapshot.refs.table)
  <2>1. "table" \in Places
    BY DEF Places, AreaPlaces
  <2> QED BY <1>1, <1>2, <2>1 DEF TableRight
<1> QED BY <1>4, <1>5 DEF ModelErrors

LEMMA WidthsAfter ==
    ASSUME EditInv, ItemsRight(snapshot), axis = "column", ~Rejected
    PROVE  /\ ~WrongWidth(book.columns, book.refs.table)
           /\ \A p \in PivotPlaces : /\ ~WrongWidth(book.pivots[p].items, book.refs[p])
                                     /\ \A n \in book.pivots[p].used : ~(n >= Len(book.pivots[p].items))
<1>1. ModelErrors(book) = {}
  BY WidthsBefore DEF Rejected
<1>2. PivotErrors(book) = {} /\ ~WrongWidth(book.columns, book.refs.table)
  BY <1>1 DEF ModelErrors
<1> QED BY <1>2 DEF PivotErrors

LEMMA PivotsAfter ==
    ASSUME EditInv, ItemsInv, pc = "validation", ~Rejected, axis = "column", NEW p \in PivotPlaces
    PROVE  PivotAfter(book.pivots[p], snapshot.pivots[p], snapshot.grid, snapshot.refs[p])
<1>1. PivotBefore(snapshot.pivots[p], snapshot.grid, snapshot.refs[p])
  <2>1. /\ InStep(snapshot, p) /\ snapshot.pivots[p].items \in Seq(Nat) /\ snapshot.pivots[p].used \subseteq Nat
        /\ \A n \in snapshot.pivots[p].used : n < Len(snapshot.pivots[p].items)
    BY EditDone DEF ItemsRight, FieldsRight
  <2>2. snapshot.refs[p] # Gone => Listed(snapshot, snapshot.refs[p]) = Lines(snapshot.grid, snapshot.refs[p])
    BY EditDone, ListedOr
  <2> QED BY <2>1, <2>2 DEF InStep, HeaderOff, PivotBefore
<1>2. ~WrongWidth(book.pivots[p].items, Rewrite(snapshot.refs[p], edit))
  BY WidthsAfter, EditDone
<1> DEFINE np == book.pivots[p]
           pv == snapshot.pivots[p]
           i == snapshot.refs[p]
           g == snapshot.grid
<1>3. /\ edit \in Edits /\ fresh \in Nat /\ Grid(g, fresh) /\ i \in Intervals \cup {Gone}
      /\ ~FieldsThrow(pv, i) /\ np = RepairedPivot(pv, i, TRUE)
  BY EditDone
<1> HIDE DEF np, pv, i, g
<1>4. PivotAfter(np, pv, g, i)
  BY <1>1, <1>2, <1>3, PivotFollows DEF np, pv, i, g
<1> QED BY <1>4 DEF np, pv, i, g

LEMMA TableAfter ==
    ASSUME EditInv, ItemsInv, pc = "validation", ~Rejected, axis = "column"
    PROVE  /\ TableRight(book)
           /\ snapshot.refs.table # Gone /\ book.refs.table # Gone => ~PushedOff(snapshot.refs.table)
<1> DEFINE i == snapshot.refs.table
           g == snapshot.grid
           j == Rewrite(i, edit)
           c == TableColumns(snapshot.columns, i)
<1>1. /\ edit \in Edits /\ fresh \in Nat /\ Grid(g, fresh) /\ i \in Intervals \cup {Gone}
      /\ book.refs.table = j /\ book.grid = ShiftedGrid(g) /\ book.columns = c
      /\ snapshot.columns \in Seq(Nat) /\ (i # Gone => snapshot.columns = Listed(snapshot, i))
  BY EditDone DEF ItemsHalfway, ItemsRight, TableRight
<1>2. CASE i = Gone
  <2>1. j = Gone
    BY <1>2 DEF Rewrite
  <2>2. c = snapshot.columns
    BY <2>1 DEF TableColumns
  <2> QED BY <1>1, <1>2, <2>1, <2>2 DEF TableRight
<1>3. CASE i # Gone
  <2>1. i \in Intervals /\ snapshot.columns = Lines(g, i)
    BY <1>1, <1>3, ListedOr
  <2>2. Follow(c, g, i) /\ c \in Seq(Nat)
    <3> HIDE DEF i, g
    <3> QED BY <1>1, <2>1, TableFollows
  <2>3. ~WrongWidth(c, j)
    BY <1>1, EditDone, WidthsAfter
  <2> HIDE DEF c, i, g
  <2>4. ASSUME j # Gone PROVE j \in Intervals /\ ~PushedOff(i)
    <3>1. j \in Intervals
      BY <1>1, <2>1, <2>4, RewriteStays
    <3>2. SUFFICES ASSUME PushedOff(i) PROVE FALSE
      BY <3>1
    <3>3. Len(c) > Width(j)
      BY <2>2, <2>4, <3>2 DEF Follow
    <3>4. Width(j) \in Nat
      <4> HIDE DEF j
      <4>1. j.first \in Nat /\ j.last \in Nat /\ j.first <= j.last
        BY <3>1, IntervalIs
      <4>2. j.last - j.first + 1 \in Nat
        BY <4>1
      <4> QED BY <4>2 DEF Width
    <3> HIDE DEF j
    <3>5. c # <<>> /\ Len(c) # Width(j)
      BY <2>2, <3>3, <3>4
    <3> QED BY <2>3, <2>4, <3>5 DEF WrongWidth
  <2>5. ASSUME j # Gone PROVE c = Listed(book, j)
    <3>1. c = Lines(ShiftedGrid(g), j)
      BY <2>2, <2>4, <2>5 DEF Follow
    <3> QED BY <1>1, <2>4, <2>5, <3>1, ListedIs
  <2> QED BY <1>1, <2>2, <2>4, <2>5 DEF TableRight, i
<1> QED BY <1>2, <1>3

LEMMA CriteriaAfter ==
    ASSUME EditInv, ItemsInv, pc = "validation", ~Rejected, axis = "column"
    PROVE  /\ CriteriaRight(book)
           /\ book.refs.filter # Gone =>
                Range(book.criteria) = Range(snapshot.criteria) \cap Range(book.grid)
<1> DEFINE i == snapshot.refs.filter
           g == snapshot.grid
           j == Rewrite(i, edit)
           r == snapshot.criteria
           c == FilterColumns(r, i)
<1>1. /\ edit \in Edits /\ fresh \in Nat /\ Grid(g, fresh) /\ i \in Intervals \cup {Gone}
      /\ book.refs.filter = j /\ book.grid = ShiftedGrid(g) /\ book.criteria = c
      /\ i = snapshot.refs.table /\ DOMAIN r \subseteq Nat
      /\ \A n \in DOMAIN r : i # Gone /\ i.first + n <= i.last
      /\ r = [n \in DOMAIN r |-> g[i.first + n]]
      /\ book.refs.table = book.refs.filter
  BY EditDone DEF ItemsHalfway, ItemsRight, CriteriaRight
<1>2. i = Gone => j = Gone
  BY DEF Rewrite
<1>3. CASE j = Gone
  <2>1. c = <<>>
    BY <1>3 DEF FilterColumns
  <2>2. DOMAIN c = {} /\ c = [n \in DOMAIN c |-> book.grid[book.refs.filter.first + n]]
    BY <2>1
  <2> HIDE DEF c, j
  <2>3. DOMAIN book.criteria = {}
    BY <1>1, <2>2
  <2> QED BY <1>1, <1>3, <2>2, <2>3 DEF CriteriaRight
<1>4. CASE j # Gone
  <2>1. i \in Intervals /\ ~PushedOff(i)
    BY <1>1, <1>2, <1>4, TableAfter
  <2>2. /\ DOMAIN c \subseteq Nat
        /\ \A m \in DOMAIN c : j.first + m <= j.last
        /\ c = [m \in DOMAIN c |-> ShiftedGrid(g)[j.first + m]]
        /\ Range(c) = Range(r) \cap Range(ShiftedGrid(g))
    <3> HIDE DEF i, g, r
    <3> QED BY <1>1, <1>4, <2>1, CriteriaMove
  <2> HIDE DEF c, j, i, g, r
  <2>3. book.criteria = c /\ book.refs.filter = j /\ book.grid = ShiftedGrid(g)
    BY <1>1
  <2>4. CriteriaRight(book)
    BY <1>1, <1>4, <2>2, <2>3 DEF CriteriaRight
  <2>5. Range(book.criteria) = Range(r) \cap Range(book.grid)
    BY <2>2, <2>3
  <2> QED BY <2>4, <2>5 DEF r
<1> QED BY <1>3, <1>4

LEMMA DimensionsAfter ==
    ASSUME EditInv, ItemsInv, pc = "validation"
    PROVE  /\ DOMAIN book.dimensions \subseteq Coordinates
           /\ book.dimensions = [n \in DOMAIN book.dimensions |-> book.grid[n]]
           /\ Range(book.dimensions) = Range(snapshot.dimensions) \cap Range(book.grid)
<1> DEFINE d == snapshot.dimensions
           g == snapshot.grid
<1>1. /\ edit \in Edits /\ fresh \in Nat /\ Grid(g, fresh)
      /\ book.grid = ShiftedGrid(g) /\ book.dimensions = MovedDimensions(d)
      /\ DOMAIN d \subseteq Coordinates /\ d = [n \in DOMAIN d |-> g[n]]
      /\ edit.action = "insert" => \A n \in DOMAIN d : n < edit.index \/ n <= Limit - edit.amount
  BY EditDone DEF ItemsHalfway, ItemsRight, Parts
<1> HIDE DEF d, g
<1>2. /\ DOMAIN MovedDimensions(d) \subseteq Coordinates
      /\ MovedDimensions(d) = [m \in DOMAIN MovedDimensions(d) |-> ShiftedGrid(g)[m]]
      /\ Range(MovedDimensions(d)) = Range(d) \cap Range(ShiftedGrid(g))
  BY <1>1, DimensionsMove
<1> QED BY <1>1, <1>2 DEF d

LEMMA ItemsAfter ==
    ASSUME EditInv, ItemsInv, pc = "validation", ~Rejected
    PROVE  ItemsRight(book)
<1>1. DOMAIN book.pivots = PivotPlaces
  BY EditDone DEF ItemsHalfway
<1>2. ASSUME NEW p \in PivotPlaces PROVE DOMAIN book.pivots[p] = {"items", "used"}
  <2>1. book.pivots[p] = RepairedPivot(snapshot.pivots[p], snapshot.refs[p], TRUE)
    BY EditDone
  <2>2. DOMAIN snapshot.pivots[p] = {"items", "used"}
    BY EditDone DEF ItemsRight, Parts
  <2> QED BY <2>1, <2>2 DEF RepairedPivot
<1>3. Parts(book)
  BY <1>1, <1>2, DimensionsAfter DEF Parts
<1>4. ASSUME axis = "column", NEW p \in PivotPlaces
      PROVE  /\ InStep(book, p)
             /\ book.pivots[p].items \in Seq(Nat) /\ book.pivots[p].used \subseteq Nat
             /\ \A n \in book.pivots[p].used : n < Len(book.pivots[p].items)
  <2>1. PivotAfter(book.pivots[p], snapshot.pivots[p], snapshot.grid, snapshot.refs[p])
    BY <1>4, PivotsAfter
  <2>2. /\ book.refs[p] = Rewrite(snapshot.refs[p], edit) /\ book.grid = ShiftedGrid(snapshot.grid)
        /\ snapshot.refs[p] \in Intervals \cup {Gone} /\ edit \in Edits
    BY EditDone
  <2>3. /\ (book.refs[p] # Gone /\ book.pivots[p].items # <<>>)
              => book.pivots[p].items = Lines(book.grid, book.refs[p])
        /\ book.pivots[p].items \in Seq(Nat) /\ book.pivots[p].used \subseteq Nat
    BY <2>1, <2>2 DEF PivotAfter
  <2>4. book.refs[p] # Gone => Listed(book, book.refs[p]) = Lines(book.grid, book.refs[p])
    BY <2>2, RewriteStays, ListedOr
  <2>5. InStep(book, p)
    BY <1>4, <2>3, <2>4 DEF InStep, HeaderOff
  <2>6. ASSUME NEW n \in book.pivots[p].used PROVE n < Len(book.pivots[p].items)
    <3>1. ~(n >= Len(book.pivots[p].items))
      BY <1>4, EditDone, WidthsAfter
    <3>2. n \in Nat /\ Len(book.pivots[p].items) \in Nat
      BY <2>3
    <3> QED BY ONLY <3>1, <3>2
  <2> QED BY <2>3, <2>5, <2>6
<1>5. axis = "column" => FieldsRight(book)
  BY <1>4 DEF FieldsRight
<1>6. axis = "column" => TableRight(book) /\ CriteriaRight(book)
  BY TableAfter, CriteriaAfter
<1> QED BY <1>3, <1>5, <1>6 DEF ItemsRight

(* What UsesAndAnchorsFollow asks of the end of an edit.                   *)
UsesAndAnchorsOf(b, a) ==
    /\ axis = "column" => SelectionsKept(b, a)
    /\ Range(a.dimensions) = Range(b.dimensions) \cap Range(a.grid)
    /\ \A p \in PivotPlaces : InStep(b, p) /\ ~PushedOff(b.refs[p]) => InStep(a, p)
    /\ Follows(b, a, b.pane, a.pane)
    /\ Follows(b, a, b.anchor.from, a.anchor.from)
    /\ Follows(b, a, b.anchor.to, a.anchor.to)
    /\ 1 <= a.anchor.from /\ a.anchor.from <= a.anchor.to /\ a.anchor.to <= Limit

LEMMA RecordsAfter ==
    ASSUME EditInv, ItemsInv, pc = "validation", axis = "row", NEW p \in PivotPlaces,
           InStep(snapshot, p), ~PushedOff(snapshot.refs[p])
    PROVE  InStep(book, p)
<1> DEFINE np == book.pivots[p]
           pv == snapshot.pivots[p]
           i == snapshot.refs[p]
           g == snapshot.grid
           j == Rewrite(i, edit)
<1>1. /\ edit \in Edits /\ fresh \in Nat /\ Grid(g, fresh) /\ i \in Intervals \cup {Gone}
      /\ np = RepairedPivot(pv, i, TRUE) /\ book.refs[p] = j /\ book.grid = ShiftedGrid(g)
      /\ DOMAIN pv = {"items", "used"}
      /\ (i # Gone /\ pv.items # <<>>) => pv.items = HeaderOff(Listed(snapshot, i))
  BY EditDone DEF ItemsRight, Parts, InStep
<1>2. ASSUME NEW b, NEW k \in Intervals, b.grid \in [Coordinates -> Nat]
      PROVE  HeaderOff(Listed(b, k)) = Tail(Lines(b.grid, k))
  <2>1. Listed(b, k) = Lines(b.grid, k) /\ Lines(b.grid, k) # <<>>
    BY <1>2, ListedIs, WidthIs
  <2>2. axis # "column"
    OBVIOUS
  <2> QED BY <2>1, <2>2 DEF HeaderOff
<1>3. SUFFICES ASSUME j # Gone, np.items # <<>> PROVE np.items = Tail(Lines(ShiftedGrid(g), j))
  <2>1. j # Gone => j \in Intervals
    BY <1>1, RewriteStays
  <2>2. book.grid \in [Coordinates -> Nat]
    BY <1>1, GridAfter DEF Grid
  <2> QED BY <1>1, <1>2, <2>1, <2>2 DEF InStep
<1>4. i \in Intervals /\ i # Gone
  BY <1>1, <1>3 DEF Rewrite
<1>5. pv.items # <<>> => pv.items = Tail(Lines(g, i))
  <2>1. snapshot.grid \in [Coordinates -> Nat]
    BY <1>1 DEF Grid
  <2> QED BY <1>1, <1>2, <1>4, <2>1
<1> HIDE DEF np, pv, i, g
<1>6. CASE Touches(edit, i)
  <2>1. np = [pv EXCEPT !.items = Records(pv, i)]
    BY <1>1, <1>3, <1>6 DEF RepairedPivot
  <2>2. np.items = Records(pv, i)
    BY <1>1, <2>1
  <2>3. pv.items # <<>>
    BY <1>3, <2>2 DEF Records
  <2>4. ~PushedOff(i)
    BY DEF i
  <2> QED BY <1>1, <1>3, <1>4, <1>5, <2>2, <2>3, <2>4, RecordsFollow
<1>7. CASE ~Touches(edit, i)
  <2>1. np = pv
    BY <1>1, <1>7 DEF RepairedPivot
  <2>2. j = i /\ Lines(ShiftedGrid(g), i) = Lines(g, i)
    BY <1>1, <1>4, <1>7, LinesUntouched
  <2> QED BY <1>3, <1>5, <2>1, <2>2
<1> QED BY <1>6, <1>7

LEMMA UsesAndAnchorsAfter ==
    ASSUME EditInv, ItemsInv, pc = "validation", ~Rejected
    PROVE  UsesAndAnchorsOf(snapshot, book)
<1>1. axis = "column" => SelectionsKept(snapshot, book)
  <2> SUFFICES ASSUME axis = "column" PROVE SelectionsKept(snapshot, book)
    OBVIOUS
  <2>1. ASSUME NEW p \in PivotPlaces, book.refs[p] # Gone
        PROVE  UsedLines(book.pivots[p]) = UsedLines(snapshot.pivots[p]) \cap Range(book.pivots[p].items)
    <3>1. PivotAfter(book.pivots[p], snapshot.pivots[p], snapshot.grid, snapshot.refs[p])
      BY PivotsAfter
    <3>2. Rewrite(snapshot.refs[p], edit) # Gone
      BY <2>1, EditDone
    <3> QED BY <3>1, <3>2 DEF PivotAfter
  <2> QED BY <2>1, CriteriaAfter DEF SelectionsKept
<1>2. Range(book.dimensions) = Range(snapshot.dimensions) \cap Range(book.grid)
  BY DimensionsAfter
<1>3. ASSUME NEW p \in PivotPlaces, InStep(snapshot, p), ~PushedOff(snapshot.refs[p])
      PROVE  InStep(book, p)
  <2>1. CASE axis = "column"
    BY <2>1, ItemsAfter DEF ItemsRight, FieldsRight
  <2>2. CASE axis = "row"
    BY <1>3, <2>2, RecordsAfter
  <2> QED BY <2>1, <2>2 DEF EditInv, TypeOK
<1>4. /\ edit \in Edits /\ fresh \in Nat /\ Grid(snapshot.grid, fresh)
      /\ book.grid = ShiftedGrid(snapshot.grid)
      /\ book.pane = TransformPosition(snapshot.pane, edit)
      /\ book.anchor.from = TransformPosition(snapshot.anchor.from, edit)
      /\ book.anchor.to = TransformPosition(snapshot.anchor.to, edit)
  BY EditDone DEF ItemsHalfway, MovedPane
<1>5. /\ snapshot.pane \in Coordinates /\ snapshot.anchor.from \in Coordinates /\ snapshot.anchor.to \in Coordinates
      /\ book.anchor.from \in Coordinates /\ book.anchor.to \in Coordinates /\ book.anchor.from <= book.anchor.to
  BY DEF EditInv, TypeOK, ReferencesOnSheet
<1>6. ASSUME NEW c \in Coordinates, snapshot.grid[c] \in Range(book.grid)
      PROVE  book.grid[TransformPosition(c, edit)] = snapshot.grid[c]
  BY <1>4, <1>6, PositionKept
<1>7. /\ Follows(snapshot, book, snapshot.pane, book.pane)
      /\ Follows(snapshot, book, snapshot.anchor.from, book.anchor.from)
      /\ Follows(snapshot, book, snapshot.anchor.to, book.anchor.to)
  BY <1>4, <1>5, <1>6 DEF Follows
<1>8. 1 <= book.anchor.from /\ book.anchor.to <= Limit
  BY <1>5 DEF Coordinates
<1> QED BY <1>1, <1>2, <1>3, <1>5, <1>7, <1>8 DEF UsesAndAnchorsOf

LEMMA SameRepairs ==
    ASSUME UNCHANGED <<axis, edit, fresh, snapshot>>
    PROVE  /\ MovedDimensions(snapshot.dimensions)' = MovedDimensions(snapshot.dimensions)
           /\ MovedPane(snapshot.pane)' = MovedPane(snapshot.pane)
           /\ TransformPosition(snapshot.anchor.from, edit)' = TransformPosition(snapshot.anchor.from, edit)
           /\ TransformPosition(snapshot.anchor.to, edit)' = TransformPosition(snapshot.anchor.to, edit)
           /\ TableColumns(snapshot.columns, snapshot.refs.table)'
                = TableColumns(snapshot.columns, snapshot.refs.table)
           /\ FilterColumns(snapshot.criteria, snapshot.refs.filter)'
                = FilterColumns(snapshot.criteria, snapshot.refs.filter)
           /\ \A p : /\ FieldsThrow(snapshot.pivots[p], snapshot.refs[p])'
                          <=> FieldsThrow(snapshot.pivots[p], snapshot.refs[p])
                     /\ RepairedPivot(snapshot.pivots[p], snapshot.refs[p], TRUE)'
                          = RepairedPivot(snapshot.pivots[p], snapshot.refs[p], TRUE)
<1>1. MovedDimensions(snapshot.dimensions)' = MovedDimensions(snapshot.dimensions)
  BY DEF MovedDimensions
<1>2. MovedPane(snapshot.pane)' = MovedPane(snapshot.pane)
  BY Zenon DEF MovedPane
<1>3. /\ TransformPosition(snapshot.anchor.from, edit)' = TransformPosition(snapshot.anchor.from, edit)
      /\ TransformPosition(snapshot.anchor.to, edit)' = TransformPosition(snapshot.anchor.to, edit)
  BY Zenon
<1>4. NewLines' = NewLines
  BY Zenon DEF NewLines
<1>5. TableColumns(snapshot.columns, snapshot.refs.table)' = TableColumns(snapshot.columns, snapshot.refs.table)
  BY <1>4 DEF TableColumns, Put
<1>6. FilterColumns(snapshot.criteria, snapshot.refs.filter)' = FilterColumns(snapshot.criteria, snapshot.refs.filter)
  BY DEF FilterColumns
<1>7. ASSUME NEW p
      PROVE  /\ FieldsThrow(snapshot.pivots[p], snapshot.refs[p])'
                  <=> FieldsThrow(snapshot.pivots[p], snapshot.refs[p])
             /\ RepairedPivot(snapshot.pivots[p], snapshot.refs[p], TRUE)'
                  = RepairedPivot(snapshot.pivots[p], snapshot.refs[p], TRUE)
  <2> DEFINE pv == snapshot.pivots[p]
             i == snapshot.refs[p]
  <2>1. /\ Splits(i)' <=> Splits(i)
        /\ CutFrom(i)' = CutFrom(i)
        /\ CutTo(i)' = CutTo(i)
    BY Zenon DEF Splits, CutFrom, CutTo
  <2>2. FieldsThrow(pv, i)' <=> FieldsThrow(pv, i)
    BY <2>1, Zenon DEF FieldsThrow
  <2>3. Fields(pv, i)' = Fields(pv, i)
    BY <1>4, <2>1, Zenon DEF Fields, Put, Cut
  <2>4. UsedFields(pv, i)' = UsedFields(pv, i)
    BY <2>1, <2>3, Zenon DEF UsedFields
  <2>5. Records(pv, i)' = Records(pv, i)
    BY <1>4, <2>1, Zenon DEF Records, Put, Cut
  <2>6. RepairedPivot(pv, i, TRUE)' = RepairedPivot(pv, i, TRUE)
    BY <2>3, <2>4, <2>5, Zenon DEF RepairedPivot
  <2> QED BY <2>2, <2>6
<1> QED BY <1>1, <1>2, <1>3, <1>5, <1>6, <1>7

(* A pass after that over the sheet, of pivot tables or of others.         *)
SheetKept ==
    /\ book'.dimensions = book.dimensions /\ book'.pane = book.pane /\ book'.anchor = book.anchor
    /\ book'.columns = book.columns /\ book'.criteria = book.criteria

LEMMA PassKeepsItems ==
    ASSUME ItemsInv, pc \notin {"idle", "shift"}, UNCHANGED <<axis, edit, fresh, snapshot, spelling>>, SheetKept,
           DOMAIN book'.pivots = PivotPlaces,
           \A p \in PivotPlaces :
               IF p \in Passed' \ Passed
               THEN /\ ~FieldsThrow(snapshot.pivots[p], snapshot.refs[p])
                    /\ book'.pivots[p] = RepairedPivot(snapshot.pivots[p], snapshot.refs[p], TRUE)
               ELSE book'.pivots[p] = book.pivots[p],
           Passed \subseteq Passed'
    PROVE  ItemsInv'
<1>1. ItemsHalfway /\ ItemsRight(snapshot) /\ spelling = "exact"
  BY DEF ItemsInv
<1>2. ItemsRight(snapshot)'
  BY <1>1, Zenon DEF ItemsRight, Parts, TableRight, CriteriaRight, FieldsRight, InStep, HeaderOff, Listed
<1>3. ASSUME NEW p \in PivotPlaces
      PROVE  IF p \in Passed'
             THEN /\ ~FieldsThrow(snapshot.pivots[p], snapshot.refs[p])'
                  /\ book'.pivots[p] = RepairedPivot(snapshot.pivots[p], snapshot.refs[p], TRUE)'
             ELSE book'.pivots[p] = snapshot'.pivots[p]
  <2>1. /\ FieldsThrow(snapshot.pivots[p], snapshot.refs[p])' <=> FieldsThrow(snapshot.pivots[p], snapshot.refs[p])
        /\ RepairedPivot(snapshot.pivots[p], snapshot.refs[p], TRUE)'
             = RepairedPivot(snapshot.pivots[p], snapshot.refs[p], TRUE)
    BY SameRepairs
  <2>2. IF p \in Passed
        THEN /\ ~FieldsThrow(snapshot.pivots[p], snapshot.refs[p])
             /\ book.pivots[p] = RepairedPivot(snapshot.pivots[p], snapshot.refs[p], TRUE)
        ELSE book.pivots[p] = snapshot.pivots[p]
    BY <1>1 DEF ItemsHalfway
  <2> QED BY <2>1, <2>2
<1>4. /\ book'.dimensions = MovedDimensions(snapshot.dimensions)'
      /\ book'.pane = MovedPane(snapshot.pane)'
      /\ book'.columns = TableColumns(snapshot.columns, snapshot.refs.table)'
      /\ book'.criteria = FilterColumns(snapshot.criteria, snapshot.refs.filter)'
  BY <1>1, SameRepairs DEF ItemsHalfway, SheetKept
<1>5. book'.anchor = [from |-> TransformPosition(snapshot.anchor.from, edit)',
                      to |-> TransformPosition(snapshot.anchor.to, edit)']
  BY <1>1, SameRepairs DEF ItemsHalfway, SheetKept
<1>6. (edit.action = "insert" =>
         \A n \in DOMAIN snapshot.dimensions : n < edit.index \/ n <= Limit - edit.amount)'
  BY <1>1 DEF ItemsHalfway
<1>7. ItemsHalfway'
  BY <1>3, <1>4, <1>5, <1>6 DEF ItemsHalfway
<1> QED BY <1>1, <1>2, <1>7 DEF ItemsInv

LEMMA ShiftedItems ==
    ASSUME NEW b, ReferencesOnSheet(b), DOMAIN b.pivots = PivotPlaces
    PROVE  /\ ShiftedBook(b).dimensions = MovedDimensions(b.dimensions)
           /\ ShiftedBook(b).pane = MovedPane(b.pane)
           /\ ShiftedBook(b).anchor = [from |-> TransformPosition(b.anchor.from, edit),
                                       to   |-> TransformPosition(b.anchor.to, edit)]
           /\ ShiftedBook(b).columns = TableColumns(b.columns, b.refs.table)
           /\ ShiftedBook(b).criteria = FilterColumns(b.criteria, b.refs.filter)
           /\ ShiftedBook(b).pivots
                = [b.pivots EXCEPT !.localPivot = RepairedPivot(@, b.refs.localPivot, TRUE)]
BY DEF ReferencesOnSheet, ShiftedBook

LEMMA ShiftKeepsItems == EditInv /\ ItemsInv /\ ShiftStructure => ItemsInv'
<1> SUFFICES ASSUME EditInv, ItemsInv, ShiftStructure PROVE ItemsInv'
  OBVIOUS
<1>1. /\ pc = "shift" /\ pc' = "formulas" /\ book = snapshot /\ book' = ShiftedBook(book)
      /\ UNCHANGED <<axis, edit, fresh, snapshot, spelling, home, populated>>
      /\ ~PushesCellsOut /\ edit \in Edits /\ ReferencesOnSheet(book)
      /\ ~FieldsThrow(book.pivots.localPivot, book.refs.localPivot)
  BY DEF ShiftStructure, Running, Goto, Same, Constant, EditInv, TypeOK
<1>2. ItemsRight(snapshot) /\ spelling = "exact" /\ Parts(snapshot)
  BY DEF ItemsInv, ItemsRight
<1>3. ItemsRight(snapshot)'
  BY <1>1, <1>2, Zenon DEF ItemsRight, Parts, TableRight, CriteriaRight, FieldsRight, InStep, HeaderOff, Listed
<1>4. DOMAIN snapshot.pivots = PivotPlaces /\ DOMAIN snapshot.dimensions \subseteq Coordinates
  BY <1>2 DEF Parts
<1>5. Passed' \cap PivotPlaces = {"localPivot"} /\ PivotPlaces = {"localPivot", "otherPivot"}
  BY <1>1 DEF Passed, LocalPlaces, AreaPlaces, CellPlaces, PivotPlaces
<1>6. book'.pivots = [snapshot.pivots EXCEPT !.localPivot = RepairedPivot(@, snapshot.refs.localPivot, TRUE)]
  BY <1>1, <1>4, ShiftedItems
<1>7. ASSUME NEW p \in PivotPlaces
      PROVE  IF p \in Passed'
             THEN /\ ~FieldsThrow(snapshot.pivots[p], snapshot.refs[p])'
                  /\ book'.pivots[p] = RepairedPivot(snapshot.pivots[p], snapshot.refs[p], TRUE)'
             ELSE book'.pivots[p] = snapshot'.pivots[p]
  <2>1. /\ FieldsThrow(snapshot.pivots[p], snapshot.refs[p])' <=> FieldsThrow(snapshot.pivots[p], snapshot.refs[p])
        /\ RepairedPivot(snapshot.pivots[p], snapshot.refs[p], TRUE)'
             = RepairedPivot(snapshot.pivots[p], snapshot.refs[p], TRUE)
    BY <1>1, SameRepairs
  <2>2. CASE p = "localPivot"
    <3>1. book'.pivots[p] = RepairedPivot(snapshot.pivots[p], snapshot.refs[p], TRUE)
      BY <1>4, <1>5, <1>6, <2>2
    <3>2. ~FieldsThrow(snapshot.pivots[p], snapshot.refs[p])
      BY <1>1, <2>2
    <3> QED BY <1>5, <2>1, <2>2, <3>1, <3>2
  <2>3. CASE p # "localPivot"
    BY <1>1, <1>4, <1>5, <1>6, <2>3
  <2> QED BY <2>2, <2>3
<1>8. /\ book'.dimensions = MovedDimensions(snapshot.dimensions)'
      /\ book'.pane = MovedPane(snapshot.pane)'
      /\ book'.columns = TableColumns(snapshot.columns, snapshot.refs.table)'
      /\ book'.criteria = FilterColumns(snapshot.criteria, snapshot.refs.filter)'
      /\ book'.anchor = [from |-> TransformPosition(snapshot.anchor.from, edit)',
                         to |-> TransformPosition(snapshot.anchor.to, edit)']
  BY <1>1, <1>4, SameRepairs, ShiftedItems
<1>9. ASSUME edit.action = "insert", NEW n \in DOMAIN snapshot.dimensions
      PROVE  n < edit.index \/ n <= Limit - edit.amount
  <2>1. n \in Nat /\ n <= Limit /\ Limit \in Nat /\ edit.index \in Nat /\ edit.amount \in Nat
    BY <1>1, <1>4, EditIs, LimitAssumption DEF Coordinates
  <2>2. ~(n \in edit.index .. Limit /\ n > Limit - edit.amount)
    BY <1>1, <1>9 DEF PushesCellsOut
  <2> QED BY ONLY <2>1, <2>2
<1>10. DOMAIN book'.pivots = PivotPlaces
  BY <1>4, <1>6
<1>11. ItemsHalfway'
  BY <1>1, <1>7, <1>8, <1>9, <1>10 DEF ItemsHalfway
<1> QED BY <1>1, <1>2, <1>3, <1>11 DEF ItemsInv

LEMMA InitItems == Init => ItemsInv
<1> SUFFICES ASSUME Init PROVE ItemsInv
  OBVIOUS
<1>1. PICK i \in Intervals, filled \in BOOLEAN : book = Book(i, filled)
  BY DEF Init
<1> DEFINE ids == [n \in Coordinates |-> n]
           span == SubSeq(ids, i.first, i.last)
           w == i.last - i.first + 1
           own == IF filled THEN i.first .. i.last ELSE IF home = 1 THEN {i.first} ELSE {}
           items == IF ~filled THEN <<>> ELSE IF axis = "row" THEN Tail(span) ELSE span
           used == IF axis = "column" /\ filled THEN {0, Len(span) - 1} ELSE {}
<1>2. /\ snapshot.grid = ids
      /\ snapshot.dimensions = [n \in own |-> n]
      /\ \A p \in Places : snapshot.refs[p] = IF p = "merge" THEN MergeLeft(i) ELSE i
      /\ snapshot.columns = IF axis = "column" THEN span ELSE <<>>
      /\ snapshot.criteria = IF axis = "column" THEN [n \in 0 .. Len(span) - 1 |-> span[n + 1]] ELSE <<>>
      /\ snapshot.pivots = [p \in PivotPlaces |-> [items |-> items, used |-> used]]
      /\ pc = "idle" /\ spelling = "exact"
  BY <1>1 DEF Init, Book
<1>3. /\ i.first \in Nat /\ i.last \in Nat /\ 1 <= i.first /\ i.first <= i.last /\ i.last <= Limit
      /\ i # Gone /\ Limit \in Nat
  BY IntervalIs
<1>4. /\ span \in Seq(Nat) /\ Len(span) = w /\ w \in Nat /\ 1 <= w
      /\ \A k \in 1 .. w : span[k] = i.first + k - 1
  <2>1. ids \in [Coordinates -> Nat]
    BY CoordinatesAreNumbers
  <2>2. /\ Lines(ids, i) \in Seq(Nat) /\ Len(Lines(ids, i)) = i.last - i.first + 1
        /\ \A k \in 1 .. i.last - i.first + 1 : Lines(ids, i)[k] = ids[i.first + k - 1]
    <3> HIDE DEF ids
    <3> QED BY <2>1, LinesAre
  <2>3. ASSUME NEW k \in 1 .. w PROVE i.first + k - 1 \in Coordinates
    BY ONLY <1>3, <2>3 DEF Coordinates, w
  <2>4. w \in Nat /\ 1 <= w
    BY ONLY <1>3 DEF w
  <2> QED BY <2>2, <2>3, <2>4 DEF Lines
<1> HIDE DEF ids, span, w, own, items, used
<1>5. Parts(snapshot)
  <2>1. own \subseteq Coordinates
    <3>1. i.first .. i.last \subseteq Coordinates
      BY ONLY <1>3 DEF Coordinates
    <3>2. i.first \in Coordinates
      BY ONLY <1>3 DEF Coordinates
    <3> QED BY <3>1, <3>2 DEF own
  <2>2. [n \in own |-> n] = [n \in own |-> ids[n]]
    BY <2>1 DEF ids
  <2>3. DOMAIN snapshot.dimensions = own
    BY <1>2
  <2> QED BY <1>2, <2>1, <2>2, <2>3 DEF Parts
<1>6. ASSUME axis = "column" PROVE TableRight(snapshot) /\ CriteriaRight(snapshot) /\ FieldsRight(snapshot)
  <2>1. \A p \in PivotPlaces \cup {"table", "filter"} : snapshot.refs[p] = i
    BY <1>2 DEF Places, AreaPlaces, PivotPlaces
  <2>2. Listed(snapshot, i) = span
    BY <1>2, <1>3 DEF Listed, span
  <2>3. TableRight(snapshot)
    BY <1>2, <1>4, <1>6, <2>1, <2>2 DEF TableRight
  <2>4. CriteriaRight(snapshot)
    <3>1. snapshot.criteria = [n \in 0 .. w - 1 |-> span[n + 1]] /\ DOMAIN snapshot.criteria = 0 .. w - 1
      BY <1>2, <1>4, <1>6
    <3>2. ASSUME NEW n \in 0 .. w - 1
          PROVE  n \in Nat /\ i.first + n <= i.last /\ span[n + 1] = ids[i.first + n]
      <4>1. n \in Nat /\ n + 1 \in 1 .. w /\ i.first + n <= i.last /\ i.first + n \in Coordinates
            /\ i.first + (n + 1) - 1 = i.first + n
        <5>1. w = i.last - i.first + 1
          BY DEF w
        <5>2. /\ i.first \in Nat /\ i.last \in Nat /\ Limit \in Nat
              /\ 1 <= i.first /\ i.first <= i.last /\ i.last <= Limit
          BY <1>3
        <5>3. n \in Nat /\ n <= w - 1
          BY ONLY <3>2, <5>1, <5>2
        <5>4. n + 1 \in 1 .. w /\ i.first + n <= i.last /\ i.first + (n + 1) - 1 = i.first + n
          BY ONLY <5>1, <5>2, <5>3
        <5>5. i.first + n \in 1 .. Limit
          BY ONLY <5>2, <5>3, <5>4
        <5> QED BY <5>3, <5>4, <5>5 DEF Coordinates
      <4>2. span[n + 1] = i.first + (n + 1) - 1
        <5> DEFINE k == n + 1
        <5>1. k \in 1 .. w
          BY <4>1
        <5> HIDE DEF k
        <5>2. span[k] = i.first + k - 1
          BY <1>4, <5>1
        <5> QED BY <5>2 DEF k
      <4> QED BY <4>1, <4>2 DEF ids
    <3>3. snapshot.criteria = [n \in 0 .. w - 1 |-> snapshot.grid[snapshot.refs.filter.first + n]]
      <4>1. snapshot.refs.filter = i /\ snapshot.grid = ids
        BY <1>2, <2>1
      <4>2. [n \in 0 .. w - 1 |-> span[n + 1]] = [n \in 0 .. w - 1 |-> ids[i.first + n]]
        BY <3>2
      <4> QED BY <3>1, <4>1, <4>2
    <3>4. DOMAIN snapshot.criteria \subseteq Nat
      BY <3>1, <3>2
    <3>5. ASSUME NEW n \in DOMAIN snapshot.criteria
          PROVE  snapshot.refs.filter # Gone /\ snapshot.refs.filter.first + n <= snapshot.refs.filter.last
      BY <1>3, <2>1, <3>1, <3>2
    <3> QED BY <2>1, <3>1, <3>3, <3>4, <3>5 DEF CriteriaRight
  <2>5. ASSUME NEW p \in PivotPlaces
        PROVE  /\ InStep(snapshot, p)
               /\ snapshot.pivots[p].items \in Seq(Nat) /\ snapshot.pivots[p].used \subseteq Nat
               /\ \A n \in snapshot.pivots[p].used : n < Len(snapshot.pivots[p].items)
    <3>1. snapshot.pivots[p].items = items /\ snapshot.pivots[p].used = used /\ snapshot.refs[p] = i
      BY <1>2, <2>1
    <3>2. CASE filled
      <4>1. items = span /\ used = {0, w - 1}
        BY <1>4, <1>6, <3>2 DEF items, used
      <4>2. 0 \in Nat /\ w - 1 \in Nat /\ 0 < w /\ w - 1 < w
        BY <1>4
      <4>3. InStep(snapshot, p)
        BY <1>6, <2>2, <3>1, <4>1 DEF InStep, HeaderOff
      <4> QED BY <1>4, <3>1, <4>1, <4>2, <4>3
    <3>3. CASE ~filled
      <4>1. items = <<>> /\ used = {}
        BY <3>3 DEF items, used
      <4> QED BY <3>1, <4>1 DEF InStep
    <3> QED BY <3>2, <3>3
  <2> QED BY <2>3, <2>4, <2>5 DEF FieldsRight
<1> QED BY <1>2, <1>5, <1>6 DEF ItemsInv, ItemsRight

LEMMA PassesKeepItems ==
    EditInv /\ ItemsInv /\ (\/ RewriteFormulas \/ RewriteNames \/ RewriteCharts \/ RewritePivots
                            \/ SynchronizeCaches \/ RequestRecalculation) => ItemsInv'
<1> SUFFICES ASSUME EditInv, ItemsInv,
                    \/ RewriteFormulas \/ RewriteNames \/ RewriteCharts \/ RewritePivots
                    \/ SynchronizeCaches \/ RequestRecalculation
             PROVE  ItemsInv'
  OBVIOUS
<1> USE DEF Running, Goto, Same, Constant
<1>1. /\ ReferencesOnSheet(book) /\ Halfway
      /\ UNCHANGED <<axis, edit, fresh, snapshot, spelling>>
      /\ pc \notin {"idle", "shift"} /\ pc' \notin {"idle", "shift"}
  BY DEF EditInv, TypeOK, RewriteFormulas, RewriteNames, RewriteCharts, RewritePivots, SynchronizeCaches,
         RequestRecalculation
<1>2. ItemsHalfway /\ DOMAIN book.pivots = PivotPlaces /\ spelling = "exact"
  BY <1>1 DEF ItemsInv, ItemsHalfway
<1>3. SheetKept
  BY <1>1 DEF SheetKept, ReferencesOnSheet, RewriteFormulas, RewriteNames, RewriteCharts, RewritePivots,
              SynchronizeCaches, RequestRecalculation
<1>4. ASSUME book'.pivots = book.pivots, Passed \subseteq Passed', PivotPlaces \cap Passed' \subseteq Passed
      PROVE  ItemsInv'
  BY <1>1, <1>2, <1>3, <1>4, PassKeepsItems
<1>5. CASE RewriteFormulas
  <2>1. book'.pivots = book.pivots
    BY <1>1, <1>5 DEF RewriteFormulas, ReferencesOnSheet
  <2>2. Passed' = Passed \cup {"otherFormula"}
    BY <1>5 DEF RewriteFormulas, Passed
  <2> QED BY <1>4, <2>1, <2>2 DEF PivotPlaces
<1>6. CASE RewriteNames
  <2>1. book'.pivots = book.pivots
    BY <1>1, <1>6 DEF RewriteNames, ReferencesOnSheet
  <2>2. Passed' = Passed \cup {"name"}
    BY <1>6 DEF RewriteNames, Passed
  <2> QED BY <1>4, <2>1, <2>2 DEF PivotPlaces
<1>7. CASE RewriteCharts
  <2>1. book'.pivots = book.pivots
    BY <1>1, <1>7 DEF RewriteCharts, ReferencesOnSheet
  <2>2. Passed' = Passed \cup {"otherChart"}
    BY <1>7 DEF RewriteCharts, Passed
  <2> QED BY <1>4, <2>1, <2>2 DEF PivotPlaces
<1>8. CASE RewritePivots
  <2>1. "otherPivot" \notin Passed /\ Passed' = Passed \cup {"otherPivot"} /\ "otherPivot" \in Places
    BY <1>8 DEF RewritePivots, Passed, LocalPlaces, AreaPlaces, CellPlaces, Places, PivotPlaces
  <2>2. /\ book.refs.otherPivot = snapshot.refs.otherPivot
        /\ book.pivots.otherPivot = snapshot.pivots.otherPivot
    BY <1>1, <1>2, <2>1 DEF Halfway, ItemsHalfway, PivotPlaces
  <2>3. /\ ~FieldsThrow(book.pivots.otherPivot, book.refs.otherPivot)
        /\ book'.pivots = [book.pivots EXCEPT !.otherPivot = RepairedPivot(@, book.refs.otherPivot, TRUE)]
    BY <1>1, <1>2, <1>8 DEF RewritePivots, ReferencesOnSheet
  <2>4. DOMAIN book'.pivots = PivotPlaces
    BY <1>2, <2>3
  <2>5. ASSUME NEW p \in PivotPlaces
        PROVE  IF p \in Passed' \ Passed
               THEN /\ ~FieldsThrow(snapshot.pivots[p], snapshot.refs[p])
                    /\ book'.pivots[p] = RepairedPivot(snapshot.pivots[p], snapshot.refs[p], TRUE)
               ELSE book'.pivots[p] = book.pivots[p]
    <3>1. CASE p = "otherPivot"
      BY <1>2, <2>1, <2>2, <2>3, <3>1
    <3>2. CASE p # "otherPivot"
      BY <1>2, <2>1, <2>3, <3>2
    <3> QED BY <3>1, <3>2
  <2> QED BY <1>1, <1>3, <2>1, <2>4, <2>5, PassKeepsItems
<1>9. CASE SynchronizeCaches
  <2>1. book'.pivots = book.pivots
    BY <1>1, <1>9 DEF SynchronizeCaches, ReferencesOnSheet
  <2>2. Passed' = Passed
    BY <1>9 DEF SynchronizeCaches, Passed
  <2> QED BY <1>4, <2>1, <2>2
<1>10. CASE RequestRecalculation
  <2>1. book'.pivots = book.pivots
    BY <1>1, <1>10 DEF RequestRecalculation, ReferencesOnSheet
  <2>2. Passed' = Passed
    BY <1>10 DEF RequestRecalculation, Passed
  <2> QED BY <1>4, <2>1, <2>2
<1> QED BY <1>5, <1>6, <1>7, <1>8, <1>9, <1>10

LEMMA StepItems ==
    RollbackOnFailure /\ Spellings = {"exact"} /\ EditInv /\ ItemsInv /\ [Next]_vars => ItemsInv'
<1> SUFFICES ASSUME RollbackOnFailure, Spellings = {"exact"}, EditInv, ItemsInv, [Next]_vars PROVE ItemsInv'
  OBVIOUS
<1> USE DEF Running, Goto, Same, Constant, Done
<1>1. ASSUME pc' \in {"idle", "shift"}, spelling' = "exact", axis' = axis,
             \/ snapshot' = snapshot
             \/ snapshot' = book /\ ItemsRight(book)
      PROVE  ItemsInv'
  <2>1. ItemsRight(snapshot)'
    <3>1. CASE snapshot' = snapshot
      <4>1. ItemsRight(snapshot)
        BY DEF ItemsInv
      <4> QED BY <1>1, <3>1, <4>1, ZenonT(60)
            DEF ItemsRight, Parts, TableRight, CriteriaRight, FieldsRight, InStep, HeaderOff, Listed
    <3>2. CASE snapshot' = book /\ ItemsRight(book)
      BY <1>1, <3>2, ZenonT(60)
         DEF ItemsRight, Parts, TableRight, CriteriaRight, FieldsRight, InStep, HeaderOff, Listed
    <3> QED BY <1>1, <3>1, <3>2
  <2> QED BY <1>1, <2>1 DEF ItemsInv
<1>2. ASSUME NEW e \in Edits, NEW s \in Spellings, Begin(e, s) PROVE ItemsInv'
  <2>1. pc' = "shift" /\ snapshot' = book /\ book = snapshot /\ axis' = axis /\ spelling' = "exact"
    BY <1>2 DEF Begin, EditInv
  <2> QED BY <1>1, <2>1
<1>3. CASE Commit
  <2>1. pc = "validation" /\ ~Rejected /\ pc' = "idle" /\ snapshot' = book /\ axis' = axis /\ spelling' = "exact"
    BY <1>3 DEF Commit
  <2>2. ItemsRight(book)
    BY <2>1, ItemsAfter
  <2> QED BY <1>1, <2>1, <2>2
<1>4. CASE Abort
  <2>1. pc' = "idle" /\ snapshot' = snapshot /\ axis' = axis /\ spelling' = "exact"
    BY <1>4 DEF Abort
  <2> QED BY <1>1, <2>1
<1>5. CASE UNCHANGED vars
  <2>1. /\ UNCHANGED <<axis, edit, fresh, snapshot, spelling, book, pc>> /\ Passed' = Passed
    BY <1>5 DEF vars, Passed
  <2>2. CASE pc \in {"idle", "shift"}
    <3>1. spelling = "exact"
      BY DEF ItemsInv
    <3> QED BY <1>1, <2>1, <2>2, <3>1
  <2>3. CASE pc \notin {"idle", "shift"}
    <3>1. SheetKept /\ DOMAIN book'.pivots = PivotPlaces
      BY <2>1, <2>3 DEF SheetKept, ItemsInv, ItemsHalfway
    <3> QED BY <2>1, <2>3, <3>1, PassKeepsItems
  <2> QED BY <2>2, <2>3
<1> QED BY <1>2, <1>3, <1>4, <1>5, ShiftKeepsItems, PassesKeepItems DEF Next

LEMMA ItemsHold == RollbackOnFailure /\ Spellings = {"exact"} /\ Spec => [](EditInv /\ ItemsInv)
<1> SUFFICES ASSUME RollbackOnFailure, Spellings = {"exact"} PROVE Spec => [](EditInv /\ ItemsInv)
  OBVIOUS
<1>1. Init => ItemsInv
  BY InitItems
<1>2. EditInv /\ ItemsInv /\ [Next]_vars => ItemsInv'
  BY StepItems
<1> QED BY <1>1, <1>2, EditHolds, PTL DEF Spec

(* Where callers spell the sheet as the workbook does and a failed edit is *)
(* rolled back, shiftStructure, repairColumns and the validation between   *)
(* them leave no table without a column for each line of its range, no     *)
(* criteria, height or width on another line, and no pivot cache with      *)
(* fields of other columns, on a sheet of any size.                        *)
THEOREM ItemsStayOnTheirLines == RollbackOnFailure /\ Spellings = {"exact"} /\ Spec => []ItemsFollowLines
<1> SUFFICES ASSUME RollbackOnFailure, Spellings = {"exact"} PROVE Spec => []ItemsFollowLines
  OBVIOUS
<1>1. EditInv /\ ItemsInv => ItemsFollowLines
  <2> SUFFICES ASSUME EditInv, ItemsInv, pc = "idle" PROVE ItemsFollowLines
    BY DEF ItemsFollowLines, Running
  <2>1. ItemsRight(book)
    BY DEF EditInv, ItemsInv
  <2>2. \A n \in DOMAIN book.dimensions : book.dimensions[n] = book.grid[n]
    BY <2>1 DEF ItemsRight, Parts
  <2>3. ColumnsFollow(book)
    BY <2>1 DEF ItemsRight, TableRight, CriteriaRight, ColumnsFollow
  <2>4. axis = "column" => \A p \in PivotPlaces : InStep(book, p)
    BY <2>1 DEF ItemsRight, FieldsRight
  <2> QED BY <2>2, <2>3, <2>4 DEF ItemsFollowLines
<1> QED BY <1>1, ItemsHold, PTL

LEMMA RolledBackIsSame ==
    ASSUME EditInv, ItemsInv
    PROVE  UsesAndAnchorsOf(snapshot, snapshot)
<1>1. ItemsRight(snapshot) /\ ReferencesOnSheet(snapshot) /\ Grid(snapshot.grid, fresh)
  BY DEF ItemsInv, EditInv, TypeOK
<1>2. axis = "column" => SelectionsKept(snapshot, snapshot)
  <2> SUFFICES ASSUME axis = "column" PROVE SelectionsKept(snapshot, snapshot)
    OBVIOUS
  <2>1. ASSUME NEW p \in PivotPlaces
        PROVE  UsedLines(snapshot.pivots[p]) = UsedLines(snapshot.pivots[p]) \cap Range(snapshot.pivots[p].items)
    BY <1>1, UsesAreLines DEF ItemsRight, FieldsRight
  <2>2. Range(snapshot.criteria) = Range(snapshot.criteria) \cap Range(snapshot.grid)
    <3> DEFINE r == snapshot.criteria
               i == snapshot.refs.filter
               g == snapshot.grid
    <3>1. /\ DOMAIN r \subseteq Nat /\ i \in Intervals \cup {Gone}
          /\ \A n \in DOMAIN r : i # Gone /\ i.first + n <= i.last /\ r[n] = g[i.first + n]
          /\ g \in [Coordinates -> Nat]
      BY <1>1 DEF ItemsRight, CriteriaRight, ReferencesOnSheet, Grid, Places, AreaPlaces
    <3> HIDE DEF r, i, g
    <3>2. ASSUME NEW n \in DOMAIN r PROVE r[n] \in Range(g)
      <4>1. i \in Intervals /\ n \in Nat /\ i.first + n <= i.last
        BY <3>1
      <4>2. i.first \in Nat /\ 1 <= i.first /\ i.last \in Nat /\ i.last <= Limit /\ Limit \in Nat
        BY <4>1, IntervalIs
      <4>3. i.first + n \in Coordinates
        BY ONLY <4>1, <4>2 DEF Coordinates
      <4> QED BY <3>1, <4>3 DEF Range
    <3>3. Range(r) \subseteq Range(g)
      BY <3>2 DEF Range
    <3> QED BY <3>3 DEF r, g
  <2> QED BY <2>1, <2>2 DEF SelectionsKept
<1>3. Range(snapshot.dimensions) = Range(snapshot.dimensions) \cap Range(snapshot.grid)
  <2> DEFINE d == snapshot.dimensions
             g == snapshot.grid
  <2>1. DOMAIN d \subseteq Coordinates /\ d = [n \in DOMAIN d |-> g[n]] /\ g \in [Coordinates -> Nat]
    BY <1>1 DEF ItemsRight, Parts, Grid
  <2> HIDE DEF d, g
  <2>2. ASSUME NEW n \in DOMAIN d PROVE d[n] \in Range(g)
    BY <2>1 DEF Range
  <2>3. Range(d) \subseteq Range(g)
    BY <2>2 DEF Range
  <2> QED BY <2>3 DEF d, g
<1>4. 1 <= snapshot.anchor.from /\ snapshot.anchor.from <= snapshot.anchor.to /\ snapshot.anchor.to <= Limit
  BY <1>1 DEF ReferencesOnSheet, Coordinates
<1> QED BY <1>2, <1>3, <1>4 DEF UsesAndAnchorsOf, Follows

(* An edit that goes through keeps every use of a field of a pivot table   *)
(* (mapFieldIndex), every filter criterion, height and width, and loses    *)
(* only those whose line is gone; the records of a pivot source stay those *)
(* of its rows while no row of it is pushed off the sheet; the frozen pane *)
(* and the anchors of drawings stay on their lines, the right way round    *)
(* and on the sheet.                                                       *)
THEOREM UsesFollowTheirLines == RollbackOnFailure /\ Spellings = {"exact"} /\ Spec => UsesAndAnchorsFollow
<1> SUFFICES ASSUME RollbackOnFailure, Spellings = {"exact"} PROVE Spec => UsesAndAnchorsFollow
  OBVIOUS
<1>1. ASSUME EditInv, ItemsInv, [Next]_vars, pc = "validation", pc' = "idle"
      PROVE  UsesAndAnchorsOf(snapshot, book')
  <2>1. Commit \/ Abort
    BY <1>1 DEF Next, Begin, ShiftStructure, RewriteFormulas, RewriteNames, RewriteCharts, RewritePivots,
                SynchronizeCaches, RequestRecalculation, vars, Running, Goto, Same, Constant
  <2>2. CASE Commit
    <3>1. book' = book /\ ~Rejected
      BY <2>2 DEF Commit
    <3>2. UsesAndAnchorsOf(snapshot, book)
      BY <1>1, <3>1, UsesAndAnchorsAfter
    <3> QED BY <3>1, <3>2
  <2>3. CASE Abort
    <3>1. book' = snapshot
      BY <2>3 DEF Abort
    <3> QED BY <1>1, <3>1, RolledBackIsSame
  <2> QED BY <2>1, <2>2, <2>3
<1>2. EditInv /\ ItemsInv /\ [Next]_vars
        => [(pc = "validation" /\ pc' = "idle") =>
              /\ axis = "column" => SelectionsKept(snapshot, book')
              /\ Range(book'.dimensions) = Range(snapshot.dimensions) \cap Range(book'.grid)
              /\ \A p \in PivotPlaces :
                   InStep(snapshot, p) /\ ~PushedOff(snapshot.refs[p]) => InStep(book', p)
              /\ Follows(snapshot, book', snapshot.pane, book'.pane)
              /\ Follows(snapshot, book', snapshot.anchor.from, book'.anchor.from)
              /\ Follows(snapshot, book', snapshot.anchor.to, book'.anchor.to)
              /\ 1 <= book'.anchor.from /\ book'.anchor.from <= book'.anchor.to
              /\ book'.anchor.to <= Limit]_vars
  BY <1>1 DEF UsesAndAnchorsOf
<1> QED BY <1>2, ItemsHold, PTL DEF Spec, UsesAndAnchorsFollow

=============================================================================
