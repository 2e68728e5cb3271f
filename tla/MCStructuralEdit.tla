-------------------------- MODULE MCStructuralEdit --------------------------
(* Two edits in a row on a sheet of four lines, everything that refers to  *)
(* it starting on the same interval.                                       *)
EXTENDS StructuralEdit
=============================================================================
