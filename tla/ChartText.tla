----------------------------- MODULE ChartText -----------------------------
(***************************************************************************)
(* A chart part as XL++ edits it: a text in which elements are found by    *)
(* their tag at any depth and replaced where the same text first occurs    *)
(* (XML/XmlUtilities.h, Workbook/WorkbookChartSerializer.cpp).  The text   *)
(* is a sequence of tags.  An element that holds elements is an opening    *)
(* and a closing tag; an element with one value, an attribute or a text,   *)
(* is one tag.  No element of a chart holds another of its own name.       *)
(***************************************************************************)
EXTENDS Naturals, Sequences, SequencesExt

Leaf(tag, v) == << <<"leaf", tag, v>> >>
Node(tag, body) == << <<"open", tag, "">> >> \o body \o << <<"close", tag, "">> >>

\* A patch function that returned false.
Fail == <<>>

Indices(t) == [i \in 1..Len(t) |-> i]
Starts(t, tags) == SelectSeq(Indices(t), LAMBDA i : t[i][2] \in tags /\ t[i][1] # "close")
EndOf(t, i) ==
  IF t[i][1] = "leaf" THEN i
  ELSE CHOOSE j \in i..Len(t) : /\ t[j] = <<"close", t[i][2], "">>
                                /\ \A k \in i..(j - 1) : t[k] # t[j]

\* The elements of these tags, at any depth, in document order.
AnyTags(t, tags) ==
  LET s == Starts(t, tags) IN [k \in DOMAIN s |-> SubSeq(t, s[k], EndOf(t, s[k]))]
drawingTags(t, tag) == AnyTags(t, {tag})
Has(t, tag) == Starts(t, {tag}) # <<>>
First(t, tag) == LET s == Starts(t, {tag}) IN IF s = <<>> THEN <<>> ELSE SubSeq(t, Head(s), EndOf(t, Head(s)))
Value(t, tag) == LET s == Starts(t, {tag}) IN IF s = <<>> THEN "" ELSE t[Head(s)][3]

\* string::find: where s first occurs, 0 when it does not.
Find(t, s) ==
  LET at == SelectSeq(Indices(t), LAMBDA i : /\ t[i] = s[1]
                                             /\ i + Len(s) - 1 <= Len(t)
                                             /\ SubSeq(t, i, i + Len(s) - 1) = s)
  IN IF s = <<>> \/ at = <<>> THEN 0 ELSE Head(at)
Splice(t, at, n, new) == SubSeq(t, 1, at - 1) \o new \o SubSeq(t, at + n, Len(t))
Swap(t, old, new) == Splice(t, Find(t, old), Len(old), new)

\* rfind("</"): the last closing tag, 0 in an element that closes itself.
LastClose(t) ==
  LET at == SelectSeq(Indices(t), LAMBDA i : t[i][1] = "close")
  IN IF at = <<>> THEN 0 ELSE Last(at)
PutAt(t, at, new) == IF at = 0 THEN Fail ELSE Splice(t, at, 0, new)

\* Before the first element of the first of these tags that occurs, else at the end.
InsertBefore(t, tags, new) ==
  LET present == SelectSeq(tags, LAMBDA tag : Has(t, tag))
  IN PutAt(t, IF present = <<>> THEN LastClose(t) ELSE Find(t, First(t, Head(present))), new)

\* Before whichever element of these tags comes first, else at the end.
InsertBeforeAny(t, tags, new) ==
  LET at == Starts(t, ToSet(tags))
  IN PutAt(t, IF at = <<>> THEN LastClose(t) ELSE Head(at), new)

\* removeDrawingChild: every element of the tag.
RemoveAll(t, tag) ==
  LET starts == Starts(t, {tag})
      kept == SelectSeq(Indices(t), LAMBDA i :
                \A k \in DOMAIN starts : i \notin starts[k]..EndOf(t, starts[k]))
  IN [k \in DOMAIN kept |-> t[kept[k]]]
DropFirst(t, tag) == IF Has(t, tag) THEN Swap(t, First(t, tag), <<>>) ELSE t

\* patchOrInsertValChild
SetVal(t, tag, v) ==
  IF Has(t, tag) THEN [t EXCEPT ![Head(Starts(t, {tag}))][3] = v]
  ELSE PutAt(t, LastClose(t), Leaf(tag, v))
\* The same with a blank argument, which leaves the text alone.
SetGiven(t, tag, v) == IF v = "" THEN t ELSE SetVal(t, tag, v)

\* The first element of the tag whose text occurs in no element of `owners`.
Outside(t, tag, owners) ==
  LET nested == AnyTags(t, owners)
      own == SelectSeq(drawingTags(t, tag), LAMBDA n : \A k \in DOMAIN nested : Find(nested[k], n) = 0)
  IN IF own = <<>> THEN <<>> ELSE Head(own)

\* Patch one element and put it back where its old text first occurs.
Within(t, n, Patch(_)) ==
  IF n = <<>> THEN Fail
  ELSE LET p == Patch(n) IN IF p = Fail THEN Fail ELSE Swap(t, n, p)
InNth(t, tag, i, Patch(_)) ==
  LET all == drawingTags(t, tag) IN IF i \in DOMAIN all THEN Within(t, all[i], Patch) ELSE Fail
InFirst(t, tag, Patch(_)) == InNth(t, tag, 1, Patch)

\* Patch the element `old` of o or, when there is none, put a patched new one in.
InOrNew(o, old, fresh, Insert(_), Patch(_)) ==
  IF old # <<>> THEN Within(o, old, Patch)
  ELSE LET made == Patch(fresh) IN IF made = Fail THEN Fail ELSE Insert(made)

\* Where each opening tag is closed, 0 when it is not.
Ends(t) ==
  [i \in {n \in DOMAIN t : t[n][1] = "open"} |->
     IF \E j \in i..Len(t) : t[j] = <<"close", t[i][2], "">> THEN EndOf(t, i) ELSE 0]
\* Elements nest: each closing tag closes one opening, and no two elements overlap.
Nests(t, ends) ==
  /\ {ends[i] : i \in DOMAIN ends} = {n \in DOMAIN t : t[n][1] = "close"}
  /\ \A i, j \in DOMAIN ends : i < j /\ j < ends[i] => ends[j] < ends[i]
\* The openings of the elements that hold the one at i.
Holders(ends, i) == {j \in DOMAIN ends : j < i /\ i < ends[j]}
=============================================================================
