------------------------ MODULE MCDrawingPreservation ------------------------
(* DrawingPreservation for TLC: the packages a workbook is loaded from.     *)
EXTENDS DrawingPreservation

CONSTANTS here, there, small, large, red, blue, sales, costs, note, none

Anchor(id, kind, rel, place) ==
  [id |-> id, kind |-> kind, rel |-> rel, place |-> place, size |-> small, text |-> none]
Shape(id) == [Anchor(id, "shape", 0, none) EXCEPT !.size = none, !.text = note]

Media(n) == <<"media", n, "png">>
Chart(n) == <<"chart", n, "xml">>

OneDrawing(anchors, rels, parts) ==
  [owned |-> <<1>>, anchors |-> (1 :> anchors), rels |-> (1 :> rels), parts |-> parts]

\* Two pictures with a relationship and a media part each, a chart, a shape.
Plain ==
  OneDrawing(<<Anchor(2, "pic", 1, here), Shape(3), Anchor(4, "pic", 2, there), Anchor(5, "chart", 3, there)>>,
             <<Media(1), Media(2), Chart(1)>>,
             (Media(1) :> red) @@ (Media(2) :> blue) @@ (Chart(1) :> sales))

\* Two pictures and two relationships, one media part (main.cpp:3163-3177).
SharedMedia ==
  OneDrawing(<<Anchor(4, "pic", 2, here), Anchor(5, "pic", 3, there)>>,
             (2 :> Media(1)) @@ (3 :> Media(1)), Media(1) :> red)

\* Two pictures, one relationship.
SharedRelationship ==
  OneDrawing(<<Anchor(2, "pic", 1, here), Anchor(3, "pic", 1, there)>>,
             <<Media(1)>>, Media(1) :> red)

\* Two drawings, both with a chart of the same object id.
TwoDrawings ==
  [owned   |-> <<1, 2>>,
   anchors |-> <<<<Anchor(2, "chart", 1, here)>>, <<Anchor(3, "pic", 1, there), Anchor(2, "chart", 2, here)>>>>,
   rels    |-> <<<<Chart(1)>>, <<Media(1), Chart(2)>>>>,
   parts   |-> (Chart(1) :> sales) @@ (Chart(2) :> costs) @@ (Media(1) :> red)]

\* One picture and a shape.
Small ==
  OneDrawing(<<Shape(1), Anchor(2, "pic", 1, here)>>, <<Media(1)>>, Media(1) :> red)

EditSources == {Plain, SharedMedia, TwoDrawings, Small}
PlainOnly == {Plain}
SmallOnly == {Small}
SharedRelationshipOnly == {SharedRelationship}
SharedMediaOnly == {SharedMedia}
=============================================================================
