----------------------------- MODULE AtomicEdit -----------------------------
(***************************************************************************)
(* What a structural edit promises: the lines of the edited sheet are      *)
(* inserted or deleted and everything that refers to them follows, or      *)
(* nothing happens at all.  Lines have identities here, so that no         *)
(* coordinate arithmetic is needed to say what "follows" means: after the  *)
(* edit a reference covers the lines it covered that are still there, and  *)
(* the new ones between them.                                              *)
(***************************************************************************)
EXTENDS Naturals, Sequences

CONSTANTS Limit,            \* the number of lines of a sheet
          Places,           \* the references that are followed
          InCell            \* those of them that are written in one cell of the sheet

VARIABLES grid,             \* the identity of each line of the edited sheet
          covers,           \* the lines each reference covers
          home              \* the line of that cell

vars == <<grid, covers, home>>

Lines(g) == {g[k] : k \in 1 .. Len(g)}

(* The lines from the first to the last line of s, in the order of g.      *)
Hull(s, g) ==
    {g[k] : k \in {n \in 1 .. Len(g) : \E a, b \in 1 .. Len(g) :
                       a <= n /\ n <= b /\ g[a] \in s /\ g[b] \in s}}

(* A merge of a single cell is no merge.                                   *)
Alone(s) == \E x \in s : s = {x}

Follow(p, long) ==
    IF p \in InCell /\ home \notin Lines(long) THEN {}
    ELSE LET left == Hull(covers[p], long) \cap Lines(SubSeq(long, 1, Limit))
         IN  IF p = "merge" /\ Alone(left) THEN {} ELSE left

(* long: the lines after the edit before the sheet is cut to its size.     *)
Becomes(long) ==
    /\ grid' = SubSeq(long, 1, Limit)
    /\ covers' = [p \in Places |-> Follow(p, long)]
    /\ UNCHANGED home

(* New lines get identities that were never used.                          *)
Fresh(s) == /\ \A k, n \in 1 .. Len(s) : s[k] = s[n] => k = n
            /\ Lines(s) \cap (Lines(grid) \cup UNION {covers[p] : p \in Places}) = {}

Insert(index, new) ==
    /\ Fresh(new)
    /\ Becomes(SubSeq(grid, 1, index - 1) \o new \o SubSeq(grid, index, Limit))

Delete(index, new) ==
    /\ Fresh(new)
    /\ index + Len(new) <= Limit + 1
    /\ Becomes(SubSeq(grid, 1, index - 1) \o SubSeq(grid, index + Len(new), Limit) \o new)

(* The new lines are read off the state after the step.                    *)
Edit == \E index \in 1 .. Limit : \E last \in index .. Limit :
            \/ Insert(index, SubSeq(grid', index, last))
            \/ Delete(index, SubSeq(grid', Limit - (last - index), Limit))

Init == /\ grid \in Seq(Nat)
        /\ Len(grid) = Limit
        /\ covers \in [Places -> SUBSET Lines(grid)]
        /\ home \in Lines(grid)

Spec == Init /\ [][Edit]_vars
=============================================================================
