---------------------- MODULE DrawingPreservationProofs ----------------------
(***************************************************************************)
(* A save that patches the preserved drawing leaves alone what no edit is   *)
(* for, and what save writes is a closed package again.                     *)
(*                                                                          *)
(* The passes of a save are folds over the edits and the added objects, so  *)
(* what they keep is an invariant of the package under way: Kept(out, done),*)
(* when the edits of the objects in `done` have been replayed.  It says that*)
(* anchors and relationships of the other objects are as they were, that a  *)
(* part of the source is dropped or written again only for an object that   *)
(* has it for itself, that every other relationship leads to a new part,    *)
(* and that a part is dropped with the one relationship that led to it.     *)
(* Every operation keeps it: a move, a removal, a replacement of bytes or   *)
(* of a title, an added object (MoveKeeps, RemovalKeeps, RetargetKeeps,     *)
(* WriteKeeps, AppendKeeps); numbers are new because they are above every   *)
(* number in use (NumberIsNew, FreeIdIsNew).                                *)
(*                                                                          *)
(* Over the steps of the worksheet the invariant is IInv: the package is    *)
(* Regular, the objects come from its anchors, and no two edits are for one *)
(* object.  That a saved package is Regular again (SavedIsRegular) carries  *)
(* it over a reload, so the results hold after any number of saves and      *)
(* loads.                                                                   *)
(***************************************************************************)
EXTENDS DrawingPreservation, FiniteSetTheorems, WellFoundedInduction, TLAPS

IsSeq(s) == s \in Seq(Range(s))

Kinds == {"pic", "chart"}

\* Where a picture or a chart of the loaded package is.
OriginIn(P, o, kind) ==
  \E d \in Range(P.owned) : \E i \in DOMAIN P.anchors[d] :
    /\ P.anchors[d][i].kind = kind
    /\ P.anchors[d][i].rel \in DOMAIN P.rels[d]
    /\ o = Origin(P, d, P.anchors[d][i])

IsOrigin(o, kind) == OriginIn(package, o, kind)

\* Every object has no source or comes from an anchor of its kind.
ImageFields == {"source", "place", "size", "bytes", "ext"}
ChartFields == {"source", "place", "size", "title"}

FromAnchors(objects, kind, fields) ==
  /\ IsSeq(objects)
  /\ \A i \in DOMAIN objects : /\ DOMAIN objects[i] = fields
                               /\ objects[i].source = None \/ IsOrigin(objects[i].source, kind)

\* Every edit is for an object of its kind, no two for one.
EditsApart(edits, kind) ==
  /\ IsSeq(edits)
  /\ \A i \in DOMAIN edits : /\ DOMAIN edits[i] = {"object", "flags"}
                             /\ IsOrigin(edits[i].object.source, kind)
  /\ \A i, j \in DOMAIN edits : i # j => edits[i].object.source # edits[j].object.source

IInv ==
  /\ Regular(package)
  /\ FromAnchors(images, "pic", ImageFields) /\ FromAnchors(charts, "chart", ChartFields)
  /\ EditsApart(imageEdits, "pic") /\ EditsApart(chartEdits, "chart")
  /\ IsSeq(shapes)
  /\ loadedImages \in Nat /\ loadedCharts \in Nat

-----------------------------------------------------------------------------
(* What a pass over the preserved drawings keeps of the package, when the   *)
(* edits of the objects in `done` have been replayed.                       *)

OutFields == {"anchors", "rels", "parts", "written", "dropped"}
NewParts(out) == DOMAIN out.parts \ DOMAIN package.parts

KeptShape(out) ==
  /\ DOMAIN out = OutFields
  /\ DOMAIN out.anchors = DOMAIN package.anchors
  /\ DOMAIN out.rels = DOMAIN package.rels

KeptDrawings(out) ==
  \A d \in Range(package.owned) : /\ RegularDrawing(out.anchors[d], out.rels[d])
                                  /\ ChartsApart(out.anchors, out.rels, d)

\* A relationship is one of the package, to a part that stays, or leads to a new part.
FromPackage(out, d, r) ==
  /\ r \in DOMAIN package.rels[d]
  /\ out.rels[d][r] = package.rels[d][r]
  /\ package.rels[d][r] \notin out.dropped

KeptRels(out) ==
  \A d \in DOMAIN package.rels :
    /\ IsFiniteSet(DOMAIN out.rels[d]) /\ DOMAIN out.rels[d] \subseteq Nat \ {0}
    /\ \A r \in DOMAIN out.rels[d] : FromPackage(out, d, r) \/ out.rels[d][r] \in NewParts(out)

\* A part of the package is dropped or written again for an object that has it
\* for itself.
KeptParts(out, done) ==
  /\ RegularParts(DOMAIN out.parts)
  /\ out.dropped \intersect DOMAIN out.parts = {}
  /\ \A p \in DOMAIN package.parts :
       p \in out.dropped \union DOMAIN out.parts => \E o \in done : o.part = p /\ ~Shared(o)
  /\ out.dropped \subseteq DOMAIN package.parts

KeptOthers(out, done) ==
  /\ \A d \in DOMAIN package.rels : \A r \in DOMAIN package.rels[d] :
       (\A o \in done : ~(o.drawing = d /\ o.rel = r))
         => r \in DOMAIN out.rels[d] /\ out.rels[d][r] = package.rels[d][r]
  /\ \A d \in Range(package.owned) : \A i \in DOMAIN package.anchors[d] :
       (\A o \in done : ~(o.drawing = d /\ o.id = package.anchors[d][i].id))
         => package.anchors[d][i] \in Range(out.anchors[d])

\* A part only one relationship led to is dropped when that goes.
KeptLinks(out) ==
  \A d \in DOMAIN package.rels : \A r \in DOMAIN package.rels[d] :
    \/ r \in DOMAIN out.rels[d] /\ out.rels[d][r] = package.rels[d][r]
    \/ package.rels[d][r] \in out.dropped
    \/ ~LeadsAlone(package.rels, d, r)

Kept(out, done) ==
  /\ KeptShape(out) /\ KeptDrawings(out) /\ KeptRels(out) /\ KeptParts(out, done)
  /\ KeptOthers(out, done) /\ KeptLinks(out)

\* The next edit is for object o.
Facing(out, done, o, kind) ==
  /\ Regular(package) /\ Kept(out, done)
  /\ kind \in Kinds /\ IsOrigin(o, kind)
  /\ \A q \in done : \E k \in Kinds : IsOrigin(q, k)
  /\ o \notin done

-----------------------------------------------------------------------------
(* Numbers *)

LEMMA LeastNatural ==
  ASSUME NEW T \in SUBSET Nat, T # {}
  PROVE  \E n \in T : \A m \in T : n <= m
<1> DEFINE R == OpToRel(<, Nat)
<1>1. IsWellFoundedOn(R, Nat)
  BY NatLessThanWellFounded
<1>2. \A x, y \in Nat : x < y => <<x, y>> \in R
  BY DEF OpToRel
<1> HIDE DEF R
<1>3. PICK x \in T : \A y \in T : ~ (<<y, x>> \in R)
  BY <1>1, WFMin
<1>4. ASSUME NEW m \in T PROVE x <= m
  <2>1. m \in Nat /\ x \in Nat
    OBVIOUS
  <2>2. ~ (m < x)
    BY ONLY <1>2, <1>3, <2>1, m \in T
  <2> QED BY ONLY <2>1, <2>2
<1> QED BY <1>4

LEMMA NatInd ==
  ASSUME NEW S, 0 \in S, \A n \in Nat : n \in S => n + 1 \in S
  PROVE  Nat \subseteq S
<1> DEFINE T == Nat \ S
<1>1. SUFFICES ASSUME T # {} PROVE FALSE
  OBVIOUS
<1>2. PICK n \in T : \A m \in T : n <= m
  BY <1>1, LeastNatural
<1>3. n \in Nat /\ n # 0
  BY <1>2
<1>4. n - 1 \in Nat /\ n - 1 \notin T
  BY <1>2, <1>3
<1>5. n - 1 \in S
  BY <1>4
<1>6. n - 1 + 1 \in S
  BY <1>4, <1>5
<1> QED BY <1>3, <1>6, <1>2

\* A finite set of numbers has a largest.
LEMMA FiniteBounded ==
  ASSUME NEW S \in SUBSET Nat, IsFiniteSet(S)
  PROVE  \E b \in Nat : \A n \in S : n <= b
<1> DEFINE B(U) == \E b \in Nat : \A n \in U : n <= b
           Good == {c \in Nat : \A U \in SUBSET Nat : IsFiniteSet(U) /\ Cardinality(U) = c => B(U)}
<1>1. 0 \in Good
  <2>1. ASSUME NEW U \in SUBSET Nat, IsFiniteSet(U), Cardinality(U) = 0 PROVE B(U)
    <3>1. U = {}
      BY <2>1, FS_EmptySet
    <3> QED BY <3>1
  <2> QED BY <2>1
<1>2. ASSUME NEW c \in Nat, c \in Good PROVE c + 1 \in Good
  <2>1. ASSUME NEW U \in SUBSET Nat, IsFiniteSet(U), Cardinality(U) = c + 1 PROVE B(U)
    <3>1. U # {}
      BY <2>1, FS_EmptySet
    <3>2. PICK x : x \in U
      BY <3>1
    <3>a. IsFiniteSet(U \ {x}) /\ Cardinality(U \ {x}) = Cardinality(U) - 1
      BY <2>1, <3>2, FS_RemoveElement
    <3>b. c + 1 - 1 = c
      BY c \in Nat
    <3>3. IsFiniteSet(U \ {x}) /\ Cardinality(U \ {x}) = c /\ U \ {x} \in SUBSET Nat
      <4>1. Cardinality(U \ {x}) = c
        BY ONLY <2>1, <3>a, <3>b
      <4> QED BY <3>a, <4>1
    <3>4. B(U \ {x})
      BY <3>3, <1>2
    <3>5. PICK b \in Nat : \A n \in U \ {x} : n <= b
      BY <3>4
    <3> DEFINE top == IF x <= b THEN b ELSE x
    <3>6. x \in Nat /\ top \in Nat /\ \A n \in U : n <= top
      BY <3>2, <3>5
    <3> QED BY <3>6
  <2>2. c + 1 \in Nat
    OBVIOUS
  <2> HIDE DEF B
  <2> QED BY <2>1, <2>2
<1> HIDE DEF B
<1>3. \A n \in Nat : n \in Good => n + 1 \in Good
  BY <1>2
<1> HIDE DEF Good
<1>4. Nat \subseteq Good
  BY <1>1, <1>3, NatInd
<1>5. Cardinality(S) \in Nat
  BY FS_CardinalityType
<1>6. B(S)
  BY <1>4, <1>5 DEF Good
<1> QED BY <1>6 DEF B

LEMMA MaxIsLargest ==
  ASSUME NEW S \in SUBSET Nat, S # {}, IsFiniteSet(S)
  PROVE  Max(S) \in S /\ \A n \in S : n <= Max(S)
<1> DEFINE T == {b \in Nat : \A n \in S : n <= b}
<1>1. T # {}
  BY FiniteBounded
<1>2. PICK b \in T : \A m \in T : b <= m
  BY <1>1, LeastNatural
<1>3. b \in S
  <2>1. SUFFICES ASSUME b \notin S PROVE FALSE
    OBVIOUS
  <2>2. PICK x \in S : TRUE
    OBVIOUS
  <2>3. b # 0
    BY <1>2, <2>1, <2>2
  <2>4. b - 1 \in T
    BY <1>2, <2>1, <2>3
  <2> QED BY <1>2, <2>4
<1>4. \A n \in S : b >= n
  BY <1>2
<1>5. Max(S) \in S /\ \A n \in S : Max(S) >= n
  BY <1>3, <1>4 DEF Max
<1> QED BY <1>5

LEMMA MinIsLeast ==
  ASSUME NEW S \in SUBSET Nat, S # {}
  PROVE  Min(S) \in S /\ \A n \in S : Min(S) <= n
<1>1. PICK n \in S : \A m \in S : n <= m
  BY LeastNatural
<1> QED BY <1>1 DEF Min

\* 1 + Max({0} \union S) is in no finite set S of numbers.
LEMMA AboveAll ==
  ASSUME NEW S \in SUBSET Nat, IsFiniteSet(S)
  PROVE  Max({0} \union S) \in Nat /\ \A n \in S : n <= Max({0} \union S)
<1>1. IsFiniteSet({0} \union S)
  BY FS_Singleton, FS_Union
<1>2. {0} \union S \in SUBSET Nat /\ {0} \union S # {}
  OBVIOUS
<1> QED BY <1>1, <1>2, MaxIsLargest

\* The first number after all parts of a kind is no part's of that kind.
LEMMA NumberIsNew ==
  ASSUME NEW parts, RegularParts(parts), NEW kind
  PROVE  /\ NextNumber(kind, parts) \in Nat \ {0}
         /\ \A q \in parts : q[1] = kind => q[2] < NextNumber(kind, parts)
<1> DEFINE mine == {q \in parts : q[1] = kind}
           S == {q[2] : q \in mine}
<1>1. IsFiniteSet(mine)
  BY FS_Subset DEF RegularParts
<1>2. IsFiniteSet(S)
  <2> DEFINE f == [q \in mine |-> q[2]]
  <2>1. f \in Surjection(mine, S)
    BY DEF Surjection
  <2> QED BY <1>1, <2>1, FS_Surjection
<1>3. S \in SUBSET Nat
  BY DEF RegularParts
<1>4. Max({0} \union S) \in Nat /\ \A n \in S : n <= Max({0} \union S)
  BY <1>2, <1>3, AboveAll
<1>5. NextNumber(kind, parts) = 1 + Max({0} \union S)
  BY DEF NextNumber
<1>6. \A q \in parts : q[1] = kind => q[2] \in S
  OBVIOUS
<1> HIDE DEF S
<1>7. \A n \in S : n \in Nat
  BY <1>3
<1> QED BY <1>4, <1>5, <1>6, <1>7

LEMMA FreeIdIsNew ==
  ASSUME NEW used \in SUBSET (Nat \ {0}), IsFiniteSet(used)
  PROVE  FreeId(used) \in Nat \ {0} /\ FreeId(used) \notin used
<1> DEFINE n == Cardinality(used)
           all == 1 .. n + 1
<1>1. n \in Nat
  BY FS_CardinalityType
<1>2. Cardinality(all) = n + 1
  BY <1>1, FS_Interval
<1>3. all \ used # {}
  <2>1. SUFFICES ASSUME all \subseteq used PROVE FALSE
    OBVIOUS
  <2>2. Cardinality(all) <= n
    BY <2>1, FS_Subset
  <2> QED BY <1>1, <1>2, <2>2
<1>4. all \ used \in SUBSET Nat
  BY <1>1
<1>5. Min(all \ used) \in all \ used
  BY <1>3, <1>4, MinIsLeast
<1> QED BY <1>1, <1>5 DEF FreeId

-----------------------------------------------------------------------------
(* Sequences of anchors *)

LEMMA ConcatenationAt ==
  ASSUME NEW S, NEW s \in Seq(S), NEW t \in Seq(S), NEW i \in 1 .. Len(s) + Len(t)
  PROVE  (s \o t)[i] = IF i <= Len(s) THEN s[i] ELSE t[i - Len(s)]
OBVIOUS

LEMMA FunctionIsSeq ==
  ASSUME NEW n \in Nat, NEW f, f = [i \in 1 .. n |-> f[i]]
  PROVE  IsSeq(f) /\ Len(f) = n /\ DOMAIN f = 1 .. n
<1>1. f \in [1 .. n -> Range(f)]
  BY DEF Range
<1> QED BY <1>1 DEF IsSeq

LEMMA RemoveAtIs ==
  ASSUME NEW s, IsSeq(s), NEW k \in DOMAIN s
  PROVE  /\ IsSeq(RemoveAt(s, k))
         /\ Len(RemoveAt(s, k)) = Len(s) - 1 /\ Len(s) \in Nat \ {0}
         /\ DOMAIN RemoveAt(s, k) = 1 .. Len(s) - 1
         /\ \A i \in 1 .. Len(s) - 1 : RemoveAt(s, k)[i] = IF i < k THEN s[i] ELSE s[i + 1]
<1> DEFINE S == Range(s)
<1>0. s \in Seq(S)
  BY DEF IsSeq
<1> HIDE DEF S
<1>1. k \in 1 .. Len(s) /\ Len(s) \in Nat
  BY <1>0
<1> DEFINE front == SubSeq(s, 1, k - 1)
           back == SubSeq(s, k + 1, Len(s))
<1>2. /\ front \in Seq(S) /\ Len(front) = k - 1
      /\ \A i \in 1 .. k - 1 : front[i] = s[i]
  BY <1>0, <1>1
<1>3. /\ back \in Seq(S) /\ Len(back) = Len(s) - k
      /\ \A i \in 1 .. Len(s) - k : back[i] = s[k + i]
  BY <1>0, <1>1
<1>4. RemoveAt(s, k) = front \o back
  BY DEF RemoveAt
<1> HIDE DEF front, back
<1>5. front \o back \in Seq(S) /\ Len(front \o back) = Len(s) - 1
  BY <1>1, <1>2, <1>3
<1>6. ASSUME NEW i \in 1 .. Len(s) - 1
      PROVE  (front \o back)[i] = IF i < k THEN s[i] ELSE s[i + 1]
  <2>1. CASE i < k
    BY <1>1, <1>2, <1>3, <2>1
  <2>2. CASE ~(i < k)
    <3>1. i \in 1 .. Len(front) + Len(back) /\ ~(i <= Len(front))
      BY <1>1, <1>2, <1>3, <2>2
    <3>2. (front \o back)[i] = back[i - Len(front)]
      BY ONLY <1>2, <1>3, <3>1, ConcatenationAt
    <3>3. i - Len(front) \in 1 .. Len(s) - k /\ k + (i - Len(front)) = i + 1
      BY <1>1, <1>2, <2>2
    <3>4. back[i - Len(front)] = s[k + (i - Len(front))]
      BY ONLY <1>3, <3>3
    <3> QED BY <2>2, <3>2, <3>3, <3>4
  <2> QED BY <2>1, <2>2
<1>7. DOMAIN RemoveAt(s, k) = 1 .. Len(s) - 1
  BY <1>4, <1>5
<1>8. IsSeq(RemoveAt(s, k))
  <2>1. RemoveAt(s, k) \in Seq(S)
    BY <1>4, <1>5
  <2> QED BY <2>1 DEF IsSeq, Range
<1> QED BY <1>1, <1>4, <1>5, <1>6, <1>7, <1>8

\* What is left of a sequence is where it was, or one place further.
LEMMA Survivors ==
  ASSUME NEW s, IsSeq(s), NEW k \in DOMAIN s
  PROVE  LET t == RemoveAt(s, k)
             from == [i \in DOMAIN t |-> IF i < k THEN i ELSE i + 1]
         IN  /\ IsSeq(t)
             /\ \A i \in DOMAIN t : from[i] \in DOMAIN s /\ from[i] # k /\ t[i] = s[from[i]]
             /\ \A i, j \in DOMAIN t : i # j => from[i] # from[j]
             /\ \A j \in DOMAIN s : j # k => \E i \in DOMAIN t : t[i] = s[j]
<1> DEFINE t == RemoveAt(s, k)
           from == [i \in DOMAIN t |-> IF i < k THEN i ELSE i + 1]
<1>1. /\ IsSeq(t) /\ Len(s) \in Nat \ {0} /\ DOMAIN t = 1 .. Len(s) - 1
      /\ \A i \in 1 .. Len(s) - 1 : t[i] = IF i < k THEN s[i] ELSE s[i + 1]
  BY RemoveAtIs
<1> HIDE DEF t
<1>2. DOMAIN s = 1 .. Len(s)
  BY DEF IsSeq
<1>3. \A i \in DOMAIN t : from[i] \in DOMAIN s /\ from[i] # k /\ t[i] = s[from[i]]
  BY <1>1, <1>2
<1>4. \A i, j \in DOMAIN t : i # j => from[i] # from[j]
  BY <1>1, <1>2
<1>5. ASSUME NEW j \in DOMAIN s, j # k PROVE \E i \in DOMAIN t : t[i] = s[j]
  <2>1. CASE j < k
    <3>1. j \in DOMAIN t /\ t[j] = s[j]
      BY <1>1, <1>2, <2>1
    <3> QED BY <3>1
  <2>2. CASE j > k
    <3>1. j - 1 \in 1 .. Len(s) - 1 /\ ~(j - 1 < k) /\ j - 1 + 1 = j
      BY <1>1, <1>2, <2>2
    <3>2. t[j - 1] = s[j - 1 + 1]
      BY ONLY <3>1, <1>1
    <3> QED BY <1>1, <3>1, <3>2
  <2> QED BY <1>2, <1>5, <2>1, <2>2
<1> QED BY <1>1, <1>3, <1>4, <1>5 DEF t

LEMMA PlaceOfIs ==
  ASSUME NEW s, IsSeq(s), NEW id, \E i \in DOMAIN s : s[i].id = id
  PROVE  PlaceOf(s, id) \in DOMAIN s /\ s[PlaceOf(s, id)].id = id
<1> DEFINE I == {i \in 1 .. Len(s) : s[i].id = id}
<1>1. PlaceOf(s, id) = IF I # {} THEN Min(I) ELSE 0
  BY DEF PlaceOf, SelectInSeq
<1>2. DOMAIN s = 1 .. Len(s) /\ Len(s) \in Nat
  BY DEF IsSeq
<1>3. I # {} /\ I \in SUBSET Nat
  BY <1>2
<1>4. Min(I) \in I
  BY <1>3, MinIsLeast
<1> QED BY <1>1, <1>2, <1>3, <1>4

\* A drawing without one of its pictures or charts.
LEMMA DrawingLoses ==
  ASSUME NEW s, NEW R, RegularDrawing(s, R), NEW k \in DOMAIN s, s[k].kind # "shape",
         NEW Q, DOMAIN Q = DOMAIN R \ {s[k].rel}
  PROVE  /\ RegularDrawing(RemoveAt(s, k), Q)
         /\ \A a \in Range(RemoveAt(s, k)) : a \in Range(s) /\ a.id # s[k].id /\ a.rel # s[k].rel
         /\ \A a \in Range(s) : a.id # s[k].id => a \in Range(RemoveAt(s, k))
<1> DEFINE t == RemoveAt(s, k)
           from == [i \in DOMAIN t |-> IF i < k THEN i ELSE i + 1]
<1>0. IsSeq(s)
  BY DEF RegularDrawing, IsSeq
<1>1. /\ IsSeq(t)
      /\ \A i \in DOMAIN t : from[i] \in DOMAIN s /\ from[i] # k /\ t[i] = s[from[i]]
      /\ \A i, j \in DOMAIN t : i # j => from[i] # from[j]
      /\ \A j \in DOMAIN s : j # k => \E i \in DOMAIN t : t[i] = s[j]
  BY <1>0, Survivors
<1> HIDE DEF t, from
<1>2. ASSUME NEW i \in DOMAIN t
      PROVE  /\ t[i] = s[from[i]] /\ from[i] \in DOMAIN s
             /\ DOMAIN t[i] = AnchorFields /\ t[i].id \in Nat
             /\ t[i].id # s[k].id /\ t[i].rel # s[k].rel
             /\ IF t[i].kind = "shape" THEN t[i].rel = 0 ELSE t[i].rel \in DOMAIN Q
  <2>1. from[i] \in DOMAIN s /\ from[i] # k /\ t[i] = s[from[i]]
    BY <1>1
  <2>2. s[from[i]].id # s[k].id /\ s[k].rel # s[from[i]].rel
    BY <2>1 DEF RegularDrawing
  <2> QED BY <2>1, <2>2 DEF RegularDrawing
<1>3. ASSUME NEW i \in DOMAIN t, NEW j \in DOMAIN t, i # j
      PROVE  t[i].id # t[j].id /\ (t[i].kind # "shape" => t[i].rel # t[j].rel)
  <2>1. from[i] \in DOMAIN s /\ from[j] \in DOMAIN s /\ from[i] # from[j]
    BY <1>1, <1>3
  <2> QED BY <1>2, <2>1 DEF RegularDrawing
<1>4. RegularDrawing(t, Q)
  BY <1>1, <1>2, <1>3 DEF RegularDrawing, IsSeq
<1>5. \A a \in Range(t) : a \in Range(s) /\ a.id # s[k].id /\ a.rel # s[k].rel
  BY <1>2 DEF Range
<1>6. \A a \in Range(s) : a.id # s[k].id => a \in Range(t)
  BY <1>1 DEF Range
<1> QED BY <1>4, <1>5, <1>6 DEF t

\* A drawing with one anchor put elsewhere or given another size.
PutAt(s, k, p, z) == [s EXCEPT ![k].place = p, ![k].size = z]

LEMMA DrawingMoves ==
  ASSUME NEW s, NEW R, RegularDrawing(s, R), NEW k \in DOMAIN s, NEW p, NEW z,
         NEW t, t = PutAt(s, k, p, z)
  PROVE  /\ RegularDrawing(t, R)
         /\ DOMAIN t = DOMAIN s
         /\ \A i \in DOMAIN s : t[i].id = s[i].id /\ t[i].kind = s[i].kind /\ t[i].rel = s[i].rel
         /\ \A i \in DOMAIN s : i # k => t[i] = s[i]
<1>1. \A i \in DOMAIN s : DOMAIN s[i] = AnchorFields
  BY DEF RegularDrawing
<1>2. DOMAIN t = DOMAIN s /\ \A i \in DOMAIN s : i # k => t[i] = s[i]
  BY DEF PutAt
<1>3. t[k] = [s[k] EXCEPT !.place = p, !.size = z]
  BY DEF PutAt
<1>4. /\ DOMAIN t[k] = AnchorFields
      /\ t[k].id = s[k].id /\ t[k].kind = s[k].kind /\ t[k].rel = s[k].rel
  BY <1>1, <1>3 DEF AnchorFields
<1>5. IsSeq(t)
  <2>1. s \in Seq(Range(s))
    BY DEF RegularDrawing
  <2>2. Len(s) \in Nat /\ s = [i \in 1 .. Len(s) |-> s[i]]
    BY <2>1
  <2>3. t = [i \in 1 .. Len(s) |-> t[i]]
    BY <2>2 DEF PutAt
  <2> QED BY ONLY <2>2, <2>3, FunctionIsSeq
<1>6. \A i \in DOMAIN s : /\ t[i].id = s[i].id /\ t[i].kind = s[i].kind /\ t[i].rel = s[i].rel
                          /\ DOMAIN t[i] = AnchorFields
  BY <1>1, <1>2, <1>4
<1>7. RegularDrawing(t, R)
  BY <1>2, <1>5, <1>6 DEF RegularDrawing, IsSeq
<1> QED BY <1>2, <1>6, <1>7

\* A drawing with one more picture or chart.
LEMMA DrawingGains ==
  ASSUME NEW s, NEW R, RegularDrawing(s, R), NEW a, DOMAIN a = AnchorFields, a.id \in Nat,
         a.kind # "shape", a.rel \notin DOMAIN R, a.rel # 0,
         \A b \in Range(s) : b.id # a.id,
         NEW Q, DOMAIN Q = DOMAIN R \union {a.rel}
  PROVE  /\ RegularDrawing(Append(s, a), Q)
         /\ Range(Append(s, a)) = Range(s) \union {a}
<1> DEFINE t == Append(s, a)
           n == Len(s)
<1>1. s \in Seq(Range(s)) /\ n \in Nat /\ DOMAIN s = 1 .. n
  BY DEF RegularDrawing
<1>2. /\ DOMAIN t = 1 .. n + 1 /\ t[n + 1] = a /\ \A i \in 1 .. n : t[i] = s[i]
      /\ t \in Seq(Range(s) \union {a})
  BY <1>1
<1> HIDE DEF t, n
<1>3. Range(t) = Range(s) \union {a}
  <2>1. Range(t) \subseteq Range(s) \union {a}
    BY <1>1, <1>2 DEF Range
  <2>2. ASSUME NEW i \in 1 .. n PROVE s[i] \in Range(t)
    <3>1. i \in DOMAIN t /\ t[i] = s[i]
      BY <1>1, <1>2
    <3> QED BY <3>1 DEF Range
  <2>3. a \in Range(t)
    <3>1. n + 1 \in DOMAIN t
      BY <1>1, <1>2
    <3> QED BY <1>2, <3>1 DEF Range
  <2> QED BY <1>1, <2>1, <2>2, <2>3 DEF Range
<1>4. ASSUME NEW i \in DOMAIN t
      PROVE  /\ DOMAIN t[i] = AnchorFields /\ t[i].id \in Nat
             /\ IF t[i].kind = "shape" THEN t[i].rel = 0 ELSE t[i].rel \in DOMAIN Q
  BY <1>1, <1>2 DEF RegularDrawing
<1>5. ASSUME NEW i \in DOMAIN t, NEW j \in DOMAIN t, i # j
      PROVE  t[i].id # t[j].id /\ (t[i].kind # "shape" => t[i].rel # t[j].rel)
  <2>1. ASSUME NEW m \in 1 .. n
        PROVE  /\ s[m].id # a.id /\ s[m].rel # a.rel
    <3>1. m \in DOMAIN s
      BY <1>1
    <3> QED BY <3>1 DEF RegularDrawing, Range
  <2>2. CASE i \in 1 .. n /\ j \in 1 .. n
    BY <1>1, <1>2, <1>5, <2>2 DEF RegularDrawing
  <2>3. CASE i = n + 1 \/ j = n + 1
    <3>1. (i = n + 1 /\ j \in 1 .. n) \/ (j = n + 1 /\ i \in 1 .. n)
      BY <1>1, <1>2, <1>5, <2>3
    <3> QED BY <1>2, <2>1, <3>1
  <2> QED BY <1>1, <1>2, <2>2, <2>3
<1>6. RegularDrawing(t, Q)
  BY <1>2, <1>3, <1>4, <1>5 DEF RegularDrawing
<1> QED BY <1>3, <1>6 DEF t

-----------------------------------------------------------------------------
(* Objects and where they come from *)

LEMMA OriginIs ==
  ASSUME Regular(package), NEW o, NEW kind \in Kinds, IsOrigin(o, kind)
  PROVE  /\ o.drawing \in Range(package.owned) /\ o.drawing \in DOMAIN package.rels
         /\ o.drawing \in DOMAIN package.anchors
         /\ o.rel \in DOMAIN package.rels[o.drawing]
         /\ o.part = package.rels[o.drawing][o.rel]
         /\ o.part \in DOMAIN package.parts
         /\ \E i \in DOMAIN package.anchors[o.drawing] :
              /\ package.anchors[o.drawing][i].kind = kind
              /\ package.anchors[o.drawing][i].id = o.id
              /\ package.anchors[o.drawing][i].rel = o.rel
         /\ o = [drawing |-> o.drawing, id |-> o.id, rel |-> o.rel, part |-> o.part]
<1>a. PICK d \in Range(package.owned) : \E i \in DOMAIN package.anchors[d] :
         /\ package.anchors[d][i].kind = kind
         /\ package.anchors[d][i].rel \in DOMAIN package.rels[d]
         /\ o = Origin(package, d, package.anchors[d][i])
  BY DEF IsOrigin, OriginIn
<1>1. PICK i \in DOMAIN package.anchors[d] :
         /\ package.anchors[d][i].kind = kind
         /\ package.anchors[d][i].rel \in DOMAIN package.rels[d]
         /\ o = Origin(package, d, package.anchors[d][i])
  BY <1>a
<1>2. /\ o.drawing = d /\ o.id = package.anchors[d][i].id /\ o.rel = package.anchors[d][i].rel
      /\ o.part = package.rels[d][o.rel]
      /\ o = [drawing |-> o.drawing, id |-> o.id, rel |-> o.rel, part |-> o.part]
  BY <1>1 DEF Origin
<1>3. d \in DOMAIN package.anchors /\ d \in DOMAIN package.rels
  BY DEF Regular, Range
<1>4. o.part \in DOMAIN package.parts
  BY <1>1, <1>2, <1>3 DEF Regular, RegularRels
<1> QED BY <1>1, <1>2, <1>3, <1>4

\* An object id or a relationship of a drawing belongs to one object.
LEMMA OriginsApart ==
  ASSUME Regular(package), NEW o, NEW q, NEW k \in Kinds, NEW m \in Kinds,
         IsOrigin(o, k), IsOrigin(q, m), o.drawing = q.drawing, o.id = q.id \/ o.rel = q.rel
  PROVE  o = q /\ k = m
<1> DEFINE s == package.anchors[o.drawing]
<1>1. PICK i \in DOMAIN s : s[i].kind = k /\ s[i].id = o.id /\ s[i].rel = o.rel
  BY OriginIs
<1>2. PICK j \in DOMAIN s : s[j].kind = m /\ s[j].id = q.id /\ s[j].rel = q.rel
  BY OriginIs
<1>3. RegularDrawing(s, package.rels[o.drawing])
  BY OriginIs DEF Regular
<1>4. i = j
  BY <1>1, <1>2, <1>3 DEF RegularDrawing, Kinds
<1>5. o.rel = q.rel /\ o.id = q.id
  BY ONLY <1>1, <1>2, <1>4
<1>6. o.part = package.rels[o.drawing][o.rel] /\ q.part = package.rels[q.drawing][q.rel]
  <2>1. o.part = package.rels[o.drawing][o.rel]
    BY OriginIs
  <2>2. q.part = package.rels[q.drawing][q.rel]
    BY OriginIs
  <2> QED BY <2>1, <2>2
<1>7. o.part = q.part
  BY ONLY <1>5, <1>6, o.drawing = q.drawing
<1>8. /\ o = [drawing |-> o.drawing, id |-> o.id, rel |-> o.rel, part |-> o.part]
      /\ q = [drawing |-> q.drawing, id |-> q.id, rel |-> q.rel, part |-> q.part]
  BY OriginIs
<1> QED BY <1>1, <1>2, <1>4, <1>5, <1>7, <1>8

LEMMA SharedIs ==
  ASSUME Regular(package), NEW o, NEW kind \in Kinds, IsOrigin(o, kind)
  PROVE  Shared(o) <=> ~LeadsAlone(package.rels, o.drawing, o.rel)
<1>1. o.part = package.rels[o.drawing][o.rel]
  BY OriginIs
<1> QED BY <1>1 DEF Shared, LeadsAlone

\* A chart has its part for itself.
LEMMA ChartNotShared ==
  ASSUME Regular(package), NEW o, IsOrigin(o, "chart")
  PROVE  ~Shared(o)
<1>0. "chart" \in Kinds
  BY DEF Kinds
<1>1. PICK i \in DOMAIN package.anchors[o.drawing] :
         package.anchors[o.drawing][i].kind = "chart" /\ package.anchors[o.drawing][i].rel = o.rel
  BY <1>0, OriginIs
<1>2. o.drawing \in Range(package.owned)
  BY <1>0, OriginIs
<1>3. LeadsAlone(package.rels, o.drawing, o.rel)
  BY <1>1, <1>2 DEF Regular, ChartsApart
<1> QED BY <1>0, <1>3, SharedIs

\* The anchor and the relationship the next edit is for are as they were, and
\* a part the object has for itself was left alone.
AnchorFound(out, o, kind) ==
  LET d == o.drawing
      k == PlaceOf(out.anchors[d], o.id)
  IN  /\ d \in Range(package.owned) /\ d \in DOMAIN package.rels /\ d \in DOMAIN package.anchors
      /\ RegularDrawing(out.anchors[d], out.rels[d])
      /\ k \in DOMAIN out.anchors[d]
      /\ out.anchors[d][k].id = o.id
      /\ out.anchors[d][k].kind = kind /\ out.anchors[d][k].kind # "shape"
      /\ out.anchors[d][k].rel = o.rel
      /\ o.rel \in DOMAIN out.rels[d] /\ out.rels[d][o.rel] = o.part
      /\ o.rel \in DOMAIN package.rels[d] /\ package.rels[d][o.rel] = o.part
      /\ o.part \in DOMAIN package.parts
      /\ ~Shared(o) => o.part \notin out.dropped \union DOMAIN out.parts

LEMMA EditFindsItsAnchor ==
  ASSUME NEW out, NEW done, NEW o, NEW kind, Facing(out, done, o, kind)
  PROVE  AnchorFound(out, o, kind)
<1> DEFINE d == o.drawing
           s == out.anchors[d]
           k == PlaceOf(s, o.id)
<1>0. /\ Regular(package) /\ kind \in Kinds /\ IsOrigin(o, kind) /\ o \notin done
      /\ \A q \in done : \E m \in Kinds : IsOrigin(q, m)
      /\ KeptDrawings(out) /\ KeptOthers(out, done) /\ KeptParts(out, done)
  BY DEF Facing, Kept
<1>1. /\ d \in Range(package.owned) /\ d \in DOMAIN package.rels /\ d \in DOMAIN package.anchors
      /\ o.rel \in DOMAIN package.rels[d] /\ package.rels[d][o.rel] = o.part
      /\ o.part \in DOMAIN package.parts
  BY <1>0, OriginIs
<1>2. PICK j \in DOMAIN package.anchors[d] :
         /\ package.anchors[d][j].kind = kind /\ package.anchors[d][j].id = o.id
         /\ package.anchors[d][j].rel = o.rel
  BY <1>0, OriginIs
<1>3. \A q \in done : ~(q.drawing = d /\ q.id = o.id) /\ ~(q.drawing = d /\ q.rel = o.rel)
  BY <1>0, OriginsApart
<1>4. package.anchors[d][j] \in Range(s)
  BY <1>0, <1>1, <1>2, <1>3 DEF KeptOthers
<1>5. o.rel \in DOMAIN out.rels[d] /\ out.rels[d][o.rel] = o.part
  BY <1>0, <1>1, <1>3 DEF KeptOthers
<1>6. RegularDrawing(s, out.rels[d])
  BY <1>0, <1>1 DEF KeptDrawings
<1>7. PICK i \in DOMAIN s : s[i] = package.anchors[d][j]
  BY <1>4 DEF Range
<1>8. k \in DOMAIN s /\ s[k].id = o.id
  <2>1. IsSeq(s)
    BY <1>6 DEF RegularDrawing, IsSeq
  <2>2. s[i].id = o.id
    BY <1>2, <1>7
  <2> QED BY <2>1, <2>2, PlaceOfIs
<1>9. k = i
  BY <1>2, <1>6, <1>7, <1>8 DEF RegularDrawing
<1>10. s[k].kind = kind /\ s[k].rel = o.rel /\ kind # "shape"
  BY <1>0, <1>2, <1>7, <1>9 DEF Kinds
<1>11. ASSUME ~Shared(o) PROVE o.part \notin out.dropped \union DOMAIN out.parts
  <2>1. SUFFICES ASSUME o.part \in out.dropped \union DOMAIN out.parts PROVE FALSE
    OBVIOUS
  <2>2. PICK q \in done : q.part = o.part /\ ~Shared(q)
    BY <1>0, <1>1, <2>1 DEF KeptParts
  <2>3. PICK m \in Kinds : IsOrigin(q, m)
    BY <1>0
  <2>4. /\ q.drawing \in DOMAIN package.rels /\ q.rel \in DOMAIN package.rels[q.drawing]
        /\ package.rels[q.drawing][q.rel] = o.part
    BY <1>0, <2>2, <2>3, OriginIs
  <2>5. q.drawing = d /\ q.rel = o.rel
    BY <1>11, <2>4 DEF Shared
  <2> QED BY <1>3, <2>5
<1>12. s[k].kind # "shape"
  BY <1>10
<1> QED BY ONLY <1>1, <1>5, <1>6, <1>8, <1>10, <1>11, <1>12 DEF AnchorFound

-----------------------------------------------------------------------------
(* The steps of a pass *)

\* Replaying a move or a new size.
LEMMA MoveKeeps ==
  ASSUME NEW out, NEW done, NEW e, NEW kind, Facing(out, done, e.object.source, kind),
         "removed" \notin e.flags
  PROVE  LET w == WithAnchor(out, e) IN
         /\ Kept(w, done \union {e.object.source})
         /\ w.rels = out.rels /\ w.parts = out.parts /\ w.dropped = out.dropped
<1> DEFINE o == e.object.source
           d == o.drawing
           s == out.anchors[d]
           k == PlaceOf(s, o.id)
           p == IF "moved" \in e.flags THEN e.object.place ELSE s[k].place
           z == IF "resized" \in e.flags THEN e.object.size ELSE s[k].size
           t == [s EXCEPT ![k].place = p, ![k].size = z]
           w == WithAnchor(out, e)
           D == done \union {o}
<1>0. /\ Regular(package) /\ KeptShape(out) /\ KeptDrawings(out) /\ KeptRels(out)
      /\ KeptParts(out, done) /\ KeptOthers(out, done) /\ KeptLinks(out)
  BY DEF Facing, Kept
<1>1. /\ d \in Range(package.owned) /\ d \in DOMAIN package.anchors
      /\ RegularDrawing(s, out.rels[d]) /\ k \in DOMAIN s /\ s[k].id = o.id
  <2>1. AnchorFound(out, o, kind)
    BY EditFindsItsAnchor
  <2> QED BY ONLY <2>1 DEF AnchorFound
<1>2. PatchAnchor(s, e) = t
  BY <1>1 DEF PatchAnchor, RegularDrawing
<1>3. /\ DOMAIN w = OutFields /\ w.anchors = [out.anchors EXCEPT ![d] = t]
      /\ w.rels = out.rels /\ w.parts = out.parts /\ w.dropped = out.dropped
  BY <1>0, <1>2 DEF WithAnchor, KeptShape, OutFields
<1>4. /\ RegularDrawing(t, out.rels[d]) /\ DOMAIN t = DOMAIN s
      /\ \A i \in DOMAIN s : t[i].id = s[i].id /\ t[i].kind = s[i].kind /\ t[i].rel = s[i].rel
      /\ \A i \in DOMAIN s : i # k => t[i] = s[i]
  <2>1. t = PutAt(s, k, p, z)
    BY DEF PutAt
  <2> HIDE DEF s, k, p, z, t
  <2>2. RegularDrawing(s, out.rels[d]) /\ k \in DOMAIN s
    BY <1>1
  <2> QED BY ONLY <2>1, <2>2, DrawingMoves
<1> HIDE DEF t, w
<1>5. /\ DOMAIN w.anchors = DOMAIN package.anchors /\ w.anchors[d] = t
      /\ \A c \in DOMAIN package.anchors : c # d => w.anchors[c] = out.anchors[c]
  BY <1>0, <1>1, <1>3 DEF KeptShape
<1>6. KeptShape(w)
  BY <1>0, <1>3, <1>5 DEF KeptShape
<1>7. KeptDrawings(w)
  <2>1. ASSUME NEW c \in Range(package.owned)
        PROVE  RegularDrawing(w.anchors[c], w.rels[c]) /\ ChartsApart(w.anchors, w.rels, c)
    <3>1. /\ c \in DOMAIN package.anchors
          /\ RegularDrawing(out.anchors[c], out.rels[c]) /\ ChartsApart(out.anchors, out.rels, c)
      BY <1>0 DEF KeptDrawings, Regular, Range
    <3>2. CASE c # d
      BY <1>3, <1>5, <3>1, <3>2 DEF ChartsApart
    <3>3. CASE c = d
      BY <1>3, <1>4, <1>5, <3>1, <3>3, ZenonT(30) DEF ChartsApart
    <3> QED BY <3>2, <3>3
  <2> QED BY <2>1 DEF KeptDrawings
<1>8. KeptRels(w)
  BY <1>0, <1>3 DEF KeptRels, FromPackage, NewParts
<1>9. KeptParts(w, D)
  BY <1>0, <1>3 DEF KeptParts
<1>10. KeptOthers(w, D)
  <2>1. ASSUME NEW c \in Range(package.owned), NEW i \in DOMAIN package.anchors[c],
               \A q \in D : ~(q.drawing = c /\ q.id = package.anchors[c][i].id)
        PROVE  package.anchors[c][i] \in Range(w.anchors[c])
    <3>1. package.anchors[c][i] \in Range(out.anchors[c])
      BY <1>0, <2>1 DEF KeptOthers
    <3>2. CASE c # d
      <4>1. c \in DOMAIN package.anchors
        BY <1>0 DEF Regular, Range
      <4> QED BY <1>5, <3>1, <3>2, <4>1
    <3>3. CASE c = d
      <4>1. PICK j \in DOMAIN s : s[j] = package.anchors[c][i]
        BY <3>1, <3>3 DEF Range
      <4>2. j # k
        BY <1>1, <2>1, <3>3, <4>1
      <4>3. j \in DOMAIN t /\ t[j] = package.anchors[c][i]
        BY <1>4, <4>1, <4>2
      <4> QED BY <1>5, <3>3, <4>3 DEF Range
    <3> QED BY <3>2, <3>3
  <2>2. ASSUME NEW c \in DOMAIN package.rels, NEW r \in DOMAIN package.rels[c],
               \A q \in D : ~(q.drawing = c /\ q.rel = r)
        PROVE  r \in DOMAIN w.rels[c] /\ w.rels[c][r] = package.rels[c][r]
    BY <1>0, <1>3, <2>2 DEF KeptOthers
  <2> QED BY <2>1, <2>2 DEF KeptOthers
<1>11. KeptLinks(w)
  BY <1>0, <1>3 DEF KeptLinks
<1> QED BY <1>3, <1>6, <1>7, <1>8, <1>9, <1>10, <1>11 DEF Kept, w

\* Removing an object, its relationship and, if it had one for itself, its part.
LEMMA RemovalKeeps ==
  ASSUME NEW out, NEW done, NEW e, NEW kind, Facing(out, done, e.object.source, kind),
         "removed" \in e.flags
  PROVE  Kept(Unlink(WithAnchor(out, e), e.object.source, kind), done \union {e.object.source})
<1> DEFINE o == e.object.source
           d == o.drawing
           s == out.anchors[d]
           R == out.rels[d]
           k == PlaceOf(s, o.id)
           t == RemoveAt(s, k)
           v == WithAnchor(out, e)
           w == Unlink(v, o, kind)
           D == done \union {o}
           Q == Without(R, {o.rel})
<1>0. /\ Regular(package) /\ KeptShape(out) /\ KeptDrawings(out) /\ KeptRels(out)
      /\ KeptParts(out, done) /\ KeptOthers(out, done) /\ KeptLinks(out)
      /\ kind \in Kinds /\ IsOrigin(o, kind)
  BY DEF Facing, Kept
<1>1. /\ d \in Range(package.owned) /\ d \in DOMAIN package.anchors /\ d \in DOMAIN package.rels
      /\ RegularDrawing(s, R) /\ k \in DOMAIN s
      /\ s[k].id = o.id /\ s[k].kind # "shape" /\ s[k].rel = o.rel
      /\ o.rel \in DOMAIN R /\ R[o.rel] = o.part
      /\ o.rel \in DOMAIN package.rels[d] /\ package.rels[d][o.rel] = o.part
      /\ o.part \in DOMAIN package.parts
      /\ ~Shared(o) => o.part \notin out.dropped \union DOMAIN out.parts
  <2>1. AnchorFound(out, o, kind)
    BY EditFindsItsAnchor
  <2> QED BY ONLY <2>1 DEF AnchorFound
<1>2. PatchAnchor(s, e) = t
  BY DEF PatchAnchor
<1>3. /\ DOMAIN v = OutFields /\ v.anchors = [out.anchors EXCEPT ![d] = t]
      /\ v.rels = out.rels /\ v.parts = out.parts /\ v.dropped = out.dropped
  BY <1>0, <1>2 DEF WithAnchor, KeptShape, OutFields
<1>4. DOMAIN Q = DOMAIN R \ {o.rel} /\ \A r \in DOMAIN Q : Q[r] = R[r]
  BY DEF Without
<1> HIDE DEF Q, t, v
<1>5. /\ RegularDrawing(t, Q)
      /\ \A a \in Range(t) : a \in Range(s) /\ a.id # s[k].id /\ a.rel # s[k].rel
      /\ \A a \in Range(s) : a.id # s[k].id => a \in Range(t)
  <2>1. DOMAIN Q = DOMAIN R \ {s[k].rel}
    BY <1>1, <1>4
  <2> HIDE DEF s, k, R
  <2> QED BY <1>1, <2>1, DrawingLoses DEF t
<1>6. /\ DOMAIN w = OutFields /\ w.anchors = [out.anchors EXCEPT ![d] = t]
      /\ w.rels = [out.rels EXCEPT ![d] = Q] /\ w.parts = out.parts
      /\ w.dropped = IF Shared(o) THEN out.dropped ELSE out.dropped \union {o.part}
  <2>1. v.anchors[d] = t
    BY <1>0, <1>1, <1>3 DEF KeptShape
  <2>2. ~ \E a \in Range(v.anchors[d]) : a.kind = kind /\ a.rel = o.rel
    BY <1>1, <1>5, <2>1
  <2>3. w = [v EXCEPT !.rels[d] = Without(@, {o.rel}),
                      !.dropped = IF Shared(o) THEN @ ELSE @ \union {o.part}]
    BY <2>2 DEF Unlink
  <2>4. w.rels = [v.rels EXCEPT ![d] = Without(v.rels[d], {o.rel})]
    BY <1>3, <2>3 DEF OutFields
  <2> HIDE DEF w
  <2> QED BY <1>3, <2>3, <2>4 DEF OutFields, Q
<1> HIDE DEF w
<1>7. /\ DOMAIN w.anchors = DOMAIN package.anchors /\ w.anchors[d] = t
      /\ \A c \in DOMAIN package.anchors : c # d => w.anchors[c] = out.anchors[c]
      /\ DOMAIN w.rels = DOMAIN package.rels /\ w.rels[d] = Q
      /\ \A c \in DOMAIN package.rels : c # d => w.rels[c] = out.rels[c]
  BY <1>0, <1>1, <1>6 DEF KeptShape
<1>8. KeptShape(w)
  BY <1>6, <1>7 DEF KeptShape
\* What is left of the relationships.
<1>9. \A c \in DOMAIN package.rels : \A r \in DOMAIN w.rels[c] :
        /\ r \in DOMAIN out.rels[c] /\ w.rels[c][r] = out.rels[c][r]
        /\ ~(c = d /\ r = o.rel)
  BY <1>4, <1>7
<1>10. \A c \in DOMAIN package.rels : \A r \in DOMAIN out.rels[c] :
         ~(c = d /\ r = o.rel) => r \in DOMAIN w.rels[c] /\ w.rels[c][r] = out.rels[c][r]
  BY <1>4, <1>7
<1>11. KeptDrawings(w)
  <2>1. ASSUME NEW c \in Range(package.owned)
        PROVE  RegularDrawing(w.anchors[c], w.rels[c]) /\ ChartsApart(w.anchors, w.rels, c)
    <3>1. /\ c \in DOMAIN package.anchors /\ c \in DOMAIN package.rels
          /\ RegularDrawing(out.anchors[c], out.rels[c]) /\ ChartsApart(out.anchors, out.rels, c)
      BY <1>0 DEF KeptDrawings, Regular, Range
    <3>2. ASSUME NEW i \in DOMAIN w.anchors[c]
          PROVE  \E j \in DOMAIN out.anchors[c] : w.anchors[c][i] = out.anchors[c][j]
      <4>1. CASE c # d
        BY <1>7, <3>1, <4>1
      <4>2. CASE c = d
        <5>1. w.anchors[c][i] \in Range(t)
          BY <1>7, <4>2 DEF Range
        <5> QED BY <1>5, <4>2, <5>1 DEF Range
      <4> QED BY <4>1, <4>2
    <3>3. RegularDrawing(w.anchors[c], w.rels[c])
      BY <1>5, <1>7, <3>1
    <3>4. ASSUME NEW i \in DOMAIN w.anchors[c], w.anchors[c][i].kind = "chart"
          PROVE  LeadsAlone(w.rels, c, w.anchors[c][i].rel)
      <4>1. PICK j \in DOMAIN out.anchors[c] : w.anchors[c][i] = out.anchors[c][j]
        BY <3>2
      <4>2. LeadsAlone(out.rels, c, w.anchors[c][i].rel)
        BY <3>1, <3>4, <4>1 DEF ChartsApart
      <4>3. w.anchors[c][i].rel \in DOMAIN w.rels[c]
        BY <3>3, <3>4 DEF RegularDrawing
      <4> DEFINE q == w.anchors[c][i].rel
      <4>4. q \in DOMAIN out.rels[c] /\ w.rels[c][q] = out.rels[c][q]
        BY <1>9, <3>1, <4>3
      <4> HIDE DEF q
      <4>5. ASSUME NEW b \in DOMAIN w.rels, NEW r \in DOMAIN w.rels[b], w.rels[b][r] = w.rels[c][q]
            PROVE  b = c /\ r = q
        <5>1. b \in DOMAIN package.rels /\ b \in DOMAIN out.rels
          BY <1>0, <1>7 DEF KeptShape
        <5>2. r \in DOMAIN out.rels[b] /\ out.rels[b][r] = w.rels[b][r]
          BY <1>9, <5>1
        <5>3. LeadsAlone(out.rels, c, q)
          BY <4>2 DEF q
        <5> QED BY ONLY <4>4, <4>5, <5>1, <5>2, <5>3 DEF LeadsAlone
      <4>6. LeadsAlone(w.rels, c, q)
        BY <4>5 DEF LeadsAlone
      <4> QED BY <4>6 DEF q
    <3> QED BY <3>3, <3>4 DEF ChartsApart
  <2> QED BY <2>1 DEF KeptDrawings
<1>12. KeptRels(w)
  <2>1. ASSUME NEW c \in DOMAIN package.rels
        PROVE  IsFiniteSet(DOMAIN w.rels[c]) /\ DOMAIN w.rels[c] \subseteq Nat \ {0}
    <3>1. DOMAIN w.rels[c] \subseteq DOMAIN out.rels[c]
      BY <1>9
    <3>2. IsFiniteSet(DOMAIN out.rels[c]) /\ DOMAIN out.rels[c] \subseteq Nat \ {0}
      BY <1>0 DEF KeptRels
    <3> QED BY <3>1, <3>2, FS_Subset
  <2>2. ASSUME NEW c \in DOMAIN package.rels, NEW r \in DOMAIN w.rels[c]
        PROVE  FromPackage(w, c, r) \/ w.rels[c][r] \in NewParts(w)
    <3>1. r \in DOMAIN out.rels[c] /\ w.rels[c][r] = out.rels[c][r] /\ ~(c = d /\ r = o.rel)
      BY <1>9, <2>2
    <3>2. FromPackage(out, c, r) \/ out.rels[c][r] \in NewParts(out)
      BY <1>0, <3>1 DEF KeptRels
    <3>3. CASE out.rels[c][r] \in NewParts(out)
      BY <1>6, <3>1, <3>3 DEF NewParts
    <3>4. CASE FromPackage(out, c, r)
      <4>1. ~Shared(o) => package.rels[c][r] # o.part
        BY <3>1, <3>4 DEF Shared, FromPackage
      <4> QED BY <1>6, <3>1, <3>4, <4>1 DEF FromPackage
    <3> QED BY <3>2, <3>3, <3>4
  <2> QED BY <2>1, <2>2 DEF KeptRels
<1>13. KeptParts(w, D)
  <2>1. w.dropped \intersect DOMAIN w.parts = {} /\ w.dropped \subseteq DOMAIN package.parts
    <3>1. out.dropped \intersect DOMAIN out.parts = {} /\ out.dropped \subseteq DOMAIN package.parts
      BY <1>0 DEF KeptParts
    <3>2. CASE Shared(o)
      BY <1>6, <3>1, <3>2
    <3>3. CASE ~Shared(o)
      <4>1. w.dropped = out.dropped \union {o.part} /\ o.part \notin DOMAIN out.parts
        BY <1>1, <1>6, <3>3
      <4> QED BY <1>1, <1>6, <3>1, <4>1
    <3> QED BY <3>2, <3>3
  <2>2. ASSUME NEW p \in DOMAIN package.parts, p \in w.dropped \union DOMAIN w.parts
        PROVE  \E q \in D : q.part = p /\ ~Shared(q)
    <3>1. CASE p \in out.dropped \union DOMAIN out.parts
      BY <1>0, <3>1 DEF KeptParts
    <3>2. CASE p \notin out.dropped \union DOMAIN out.parts
      <4>1. ~Shared(o) /\ p = o.part
        BY <1>6, <2>2, <3>2
      <4> QED BY <4>1
    <3> QED BY <3>1, <3>2
  <2>3. RegularParts(DOMAIN w.parts)
    BY <1>0, <1>6 DEF KeptParts
  <2> QED BY <2>1, <2>2, <2>3 DEF KeptParts
<1>14. KeptOthers(w, D)
  <2>1. ASSUME NEW c \in Range(package.owned), NEW i \in DOMAIN package.anchors[c],
               \A q \in D : ~(q.drawing = c /\ q.id = package.anchors[c][i].id)
        PROVE  package.anchors[c][i] \in Range(w.anchors[c])
    <3>1. package.anchors[c][i] \in Range(out.anchors[c])
      BY <1>0, <2>1 DEF KeptOthers
    <3>2. c \in DOMAIN package.anchors
      BY <1>0 DEF Regular, Range
    <3> QED BY <1>1, <1>5, <1>7, <2>1, <3>1, <3>2
  <2>2. ASSUME NEW c \in DOMAIN package.rels, NEW r \in DOMAIN package.rels[c],
               \A q \in D : ~(q.drawing = c /\ q.rel = r)
        PROVE  r \in DOMAIN w.rels[c] /\ w.rels[c][r] = package.rels[c][r]
    <3>1. r \in DOMAIN out.rels[c] /\ out.rels[c][r] = package.rels[c][r]
      BY <1>0, <2>2 DEF KeptOthers
    <3>2. ~(c = d /\ r = o.rel)
      BY <2>2
    <3> QED BY <1>10, <3>1, <3>2
  <2> QED BY <2>1, <2>2 DEF KeptOthers
<1>15. KeptLinks(w)
  <2>1. ASSUME NEW c \in DOMAIN package.rels, NEW r \in DOMAIN package.rels[c]
        PROVE  \/ r \in DOMAIN w.rels[c] /\ w.rels[c][r] = package.rels[c][r]
               \/ package.rels[c][r] \in w.dropped
               \/ ~LeadsAlone(package.rels, c, r)
    <3>1. CASE c = d /\ r = o.rel
      <4>1. Shared(o) <=> ~LeadsAlone(package.rels, d, o.rel)
        BY <1>0, SharedIs
      <4> QED BY <1>1, <1>6, <3>1, <4>1
    <3>2. CASE ~(c = d /\ r = o.rel)
      <4>1. \/ r \in DOMAIN out.rels[c] /\ out.rels[c][r] = package.rels[c][r]
            \/ package.rels[c][r] \in out.dropped
            \/ ~LeadsAlone(package.rels, c, r)
        BY <1>0 DEF KeptLinks
      <4>2. out.dropped \subseteq w.dropped
        BY <1>6
      <4> QED BY <1>10, <3>2, <4>1, <4>2
    <3> QED BY <3>1, <3>2
  <2> QED BY <2>1 DEF KeptLinks
<1>16. Kept(w, D)
  BY <1>8, <1>11, <1>12, <1>13, <1>14, <1>15 DEF Kept
<1> QED BY <1>16 DEF w, v

LEMMA PutIs ==
  ASSUME NEW f, NEW key, NEW x
  PROVE  /\ DOMAIN Put(f, key, x) = DOMAIN f \union {key}
         /\ Put(f, key, x)[key] = x
         /\ \A k \in DOMAIN f : k # key => Put(f, key, x)[k] = f[k]
BY DEF Put, Over

LEMMA WriteIs ==
  ASSUME NEW out, DOMAIN out = OutFields, NEW part, NEW content
  PROVE  LET w == Write(out, part, content) IN
         /\ DOMAIN w = OutFields /\ w.anchors = out.anchors /\ w.rels = out.rels
         /\ w.dropped = out.dropped
         /\ w.parts = Put(out.parts, part, content)
         /\ DOMAIN w.parts = DOMAIN out.parts \union {part}
BY PutIs DEF Write, OutFields

LEMMA OneMorePart ==
  ASSUME NEW parts, RegularParts(parts), NEW part, part[2] \in Nat
  PROVE  RegularParts(parts \union {part})
<1>1. IsFiniteSet(parts \union {part})
  BY FS_AddElement DEF RegularParts
<1> QED BY <1>1 DEF RegularParts

LEMMA SameDomain ==
  ASSUME NEW s, NEW R, NEW Q, RegularDrawing(s, R), DOMAIN Q = DOMAIN R
  PROVE  RegularDrawing(s, Q)
BY DEF RegularDrawing

\* Writing the part an object has for itself.
LEMMA WriteKeeps ==
  ASSUME NEW out, NEW D, Regular(package), Kept(out, D),
         NEW o \in D, NEW kind \in Kinds, IsOrigin(o, kind), ~Shared(o), o.part \notin out.dropped,
         NEW content
  PROVE  Kept(Write(out, o.part, content), D)
<1> DEFINE w == Write(out, o.part, content)
<1>0. /\ KeptShape(out) /\ KeptDrawings(out) /\ KeptRels(out)
      /\ KeptParts(out, D) /\ KeptOthers(out, D) /\ KeptLinks(out)
  BY DEF Kept
<1>1. /\ DOMAIN w = OutFields /\ w.anchors = out.anchors /\ w.rels = out.rels
      /\ w.dropped = out.dropped /\ DOMAIN w.parts = DOMAIN out.parts \union {o.part}
  BY <1>0, WriteIs DEF KeptShape
<1> HIDE DEF w
<1>2. o.part \in DOMAIN package.parts
  BY OriginIs
<1>3. o.part[2] \in Nat
  BY <1>2 DEF Regular, RegularParts
<1>4. NewParts(w) = NewParts(out)
  BY <1>1, <1>2 DEF NewParts
<1>5. KeptShape(w)
  BY <1>0, <1>1 DEF KeptShape
<1>6. KeptDrawings(w)
  BY <1>0, <1>1 DEF KeptDrawings
<1>7. KeptRels(w)
  BY <1>0, <1>1, <1>4 DEF KeptRels, FromPackage
<1>8. KeptParts(w, D)
  <2>1. RegularParts(DOMAIN w.parts)
    BY <1>0, <1>1, <1>3, OneMorePart DEF KeptParts
  <2>2. w.dropped \intersect DOMAIN w.parts = {} /\ w.dropped \subseteq DOMAIN package.parts
    BY <1>0, <1>1 DEF KeptParts
  <2>3. ASSUME NEW p \in DOMAIN package.parts, p \in w.dropped \union DOMAIN w.parts
        PROVE  \E q \in D : q.part = p /\ ~Shared(q)
    <3>1. CASE p = o.part
      BY <3>1
    <3>2. CASE p # o.part
      <4>1. p \in out.dropped \union DOMAIN out.parts
        BY <1>1, <2>3, <3>2
      <4> QED BY <1>0, <4>1 DEF KeptParts
    <3> QED BY <3>1, <3>2
  <2> QED BY <2>1, <2>2, <2>3 DEF KeptParts
<1>9. KeptOthers(w, D)
  BY <1>0, <1>1 DEF KeptOthers
<1>10. KeptLinks(w)
  BY <1>0, <1>1 DEF KeptLinks
<1>11. Kept(w, D)
  BY <1>5, <1>6, <1>7, <1>8, <1>9, <1>10 DEF Kept
<1> QED BY <1>11 DEF w

\* A part with the next number is in neither package.
LEMMA FreshPart ==
  ASSUME NEW out, NEW D, Regular(package), KeptParts(out, D), NEW kind, NEW ext
  PROVE  LET part == <<kind, Fresh(out, kind), ext>> IN
         /\ part \notin DOMAIN package.parts /\ part \notin DOMAIN out.parts
         /\ part[2] \in Nat
<1> DEFINE all == DOMAIN package.parts \union DOMAIN out.parts
           part == <<kind, Fresh(out, kind), ext>>
<1>1. RegularParts(all)
  <2>1. IsFiniteSet(all)
    BY FS_Union DEF Regular, RegularParts, KeptParts
  <2> QED BY <2>1 DEF Regular, RegularParts, KeptParts
<1>2. /\ NextNumber(kind, all) \in Nat \ {0}
      /\ \A q \in all : q[1] = kind => q[2] < NextNumber(kind, all)
  BY <1>1, NumberIsNew
<1>3. Fresh(out, kind) = NextNumber(kind, all)
  BY DEF Fresh
<1>4. part[1] = kind /\ part[2] = NextNumber(kind, all)
  BY <1>3
<1> HIDE DEF part, all
<1>5. part \notin all
  BY <1>2, <1>4
<1>6. part[2] \in Nat
  BY <1>2, <1>4
<1> QED BY <1>5, <1>6 DEF all, part

\* Replacing a picture, in its part or in a new one.
LEMMA RetargetKeeps ==
  ASSUME NEW out, NEW D, NEW e, NEW kind \in Kinds, Regular(package), Kept(out, D),
         e.object.source \in D, IsOrigin(e.object.source, kind),
         e.object.source.rel \in DOMAIN out.rels[e.object.source.drawing],
         ~Shared(e.object.source) => e.object.source.part \notin out.dropped \union DOMAIN out.parts
  PROVE  Kept(Retarget(out, e), D)
<1> DEFINE o == e.object.source
           d == o.drawing
           n == o.rel
           media == <<"media", Fresh(out, "media"), e.object.ext>>
           v == Write(out, media, e.object.bytes)
           w == [v EXCEPT !.rels[d][n] = media,
                          !.dropped = IF Shared(o) THEN @ ELSE @ \union {o.part}]
<1>0. /\ KeptShape(out) /\ KeptDrawings(out) /\ KeptRels(out)
      /\ KeptParts(out, D) /\ KeptOthers(out, D) /\ KeptLinks(out)
  BY DEF Kept
<1>1. CASE ~Shared(o) /\ o.part[3] = e.object.ext
  <2>1. Retarget(out, e) = Write(out, o.part, e.object.bytes)
    BY <1>1 DEF Retarget
  <2> QED BY <1>1, <2>1, WriteKeeps
<1>2. CASE ~(~Shared(o) /\ o.part[3] = e.object.ext)
  <2>1. Retarget(out, e) = w
    BY <1>2 DEF Retarget
  <2>2. /\ media \notin DOMAIN package.parts /\ media \notin DOMAIN out.parts
        /\ media[2] \in Nat
    BY <1>0, FreshPart
  <2>3. /\ DOMAIN v = OutFields /\ v.anchors = out.anchors /\ v.rels = out.rels
        /\ v.dropped = out.dropped /\ DOMAIN v.parts = DOMAIN out.parts \union {media}
    <3> HIDE DEF media
    <3> QED BY <1>0, WriteIs DEF KeptShape
  <2>4. /\ d \in DOMAIN package.rels /\ d \in DOMAIN package.anchors
        /\ n \in DOMAIN package.rels[d] /\ package.rels[d][n] = o.part
        /\ o.part \in DOMAIN package.parts
    BY OriginIs
  <2> HIDE DEF v, media
  <2>5. /\ DOMAIN w = OutFields /\ w.anchors = out.anchors
        /\ w.rels = [out.rels EXCEPT ![d][n] = media]
        /\ DOMAIN w.parts = DOMAIN out.parts \union {media}
        /\ w.dropped = IF Shared(o) THEN out.dropped ELSE out.dropped \union {o.part}
    BY <2>3 DEF OutFields
  <2> HIDE DEF w
  <2>6. /\ DOMAIN w.rels = DOMAIN package.rels
        /\ \A c \in DOMAIN package.rels : DOMAIN w.rels[c] = DOMAIN out.rels[c]
        /\ w.rels[d][n] = media
        /\ \A c \in DOMAIN package.rels : \A r \in DOMAIN out.rels[c] :
             ~(c = d /\ r = n) => w.rels[c][r] = out.rels[c][r]
    <3>1. DOMAIN out.rels = DOMAIN package.rels /\ d \in DOMAIN out.rels /\ n \in DOMAIN out.rels[d]
      BY <1>0, <2>4 DEF KeptShape
    <3>2. /\ DOMAIN w.rels = DOMAIN out.rels
          /\ w.rels[d] = [out.rels[d] EXCEPT ![n] = media]
          /\ \A c \in DOMAIN out.rels : c # d => w.rels[c] = out.rels[c]
      BY <2>5, <3>1
    <3> QED BY <3>1, <3>2
  <2>7. \A c \in DOMAIN package.rels : \A r \in DOMAIN out.rels[c] : out.rels[c][r] # media
    BY <1>0, <2>2 DEF KeptRels, FromPackage, NewParts, Regular, RegularRels
  <2>8. KeptShape(w)
    BY <1>0, <2>5, <2>6 DEF KeptShape
  <2>9. ASSUME NEW c \in Range(package.owned)
        PROVE  RegularDrawing(w.anchors[c], w.rels[c]) /\ ChartsApart(w.anchors, w.rels, c)
    <3>1. c \in DOMAIN package.rels
      BY DEF Regular, Range
    <3>2. RegularDrawing(out.anchors[c], out.rels[c]) /\ ChartsApart(out.anchors, out.rels, c)
      BY <1>0 DEF KeptDrawings
    <3>3. RegularDrawing(w.anchors[c], w.rels[c])
      <4>1. DOMAIN w.rels[c] = DOMAIN out.rels[c] /\ w.anchors[c] = out.anchors[c]
        BY <2>5, <2>6, <3>1
      <4>2. RegularDrawing(out.anchors[c], w.rels[c])
        BY ONLY <3>2, <4>1, SameDomain
      <4> QED BY ONLY <4>1, <4>2
    <3>4. ASSUME NEW i \in DOMAIN w.anchors[c], w.anchors[c][i].kind = "chart"
          PROVE  LeadsAlone(w.rels, c, w.anchors[c][i].rel)
      <4> DEFINE r == w.anchors[c][i].rel
      <4>1. LeadsAlone(out.rels, c, r)
        BY <2>5, <3>2, <3>4 DEF ChartsApart
      <4>2. r \in DOMAIN out.rels[c]
        BY <2>5, <3>2, <3>4 DEF RegularDrawing
      <4> HIDE DEF r
      <4>3. ASSUME NEW b \in DOMAIN w.rels, NEW q \in DOMAIN w.rels[b], w.rels[b][q] = w.rels[c][r]
            PROVE  b = c /\ q = r
        <5>1. b \in DOMAIN package.rels /\ q \in DOMAIN out.rels[b] /\ b \in DOMAIN out.rels
          BY <1>0, <2>6 DEF KeptShape
        <5>2. CASE c = d /\ r = n
          BY <2>6, <2>7, <4>3, <5>1, <5>2
        <5>3. CASE ~(c = d /\ r = n)
          <6>1. w.rels[c][r] = out.rels[c][r] /\ w.rels[c][r] # media
            BY <2>6, <2>7, <3>1, <4>2, <5>3
          <6>2. ~(b = d /\ q = n)
            BY <2>6, <4>3, <6>1
          <6>3. out.rels[b][q] = out.rels[c][r]
            BY <2>6, <4>3, <5>1, <6>1, <6>2
          <6> QED BY <4>1, <5>1, <6>3 DEF LeadsAlone
        <5> QED BY <5>2, <5>3
      <4> QED BY <4>3 DEF LeadsAlone, r
    <3> QED BY <3>3, <3>4 DEF ChartsApart
  <2>10. KeptRels(w)
    <3>1. ASSUME NEW c \in DOMAIN package.rels, NEW r \in DOMAIN w.rels[c]
          PROVE  FromPackage(w, c, r) \/ w.rels[c][r] \in NewParts(w)
      <4>1. CASE c = d /\ r = n
        BY <2>2, <2>5, <2>6, <4>1 DEF NewParts
      <4>2. CASE ~(c = d /\ r = n)
        <5>1. r \in DOMAIN out.rels[c] /\ w.rels[c][r] = out.rels[c][r]
          BY <2>6, <4>2
        <5>2. FromPackage(out, c, r) \/ out.rels[c][r] \in NewParts(out)
          BY <1>0, <5>1 DEF KeptRels
        <5>3. CASE out.rels[c][r] \in NewParts(out)
          BY <2>5, <5>1, <5>3 DEF NewParts
        <5>4. CASE FromPackage(out, c, r)
          <6>1. ~Shared(o) => package.rels[c][r] # o.part
            BY <4>2, <5>4 DEF Shared, FromPackage
          <6> QED BY <2>5, <5>1, <5>4, <6>1 DEF FromPackage
        <5> QED BY <5>2, <5>3, <5>4
      <4> QED BY <4>1, <4>2
    <3> QED BY <1>0, <2>6, <3>1 DEF KeptRels
  <2>11. KeptParts(w, D)
    <3>1. RegularParts(DOMAIN w.parts)
      BY <1>0, <2>2, <2>5, OneMorePart DEF KeptParts
    <3>2. w.dropped \intersect DOMAIN w.parts = {} /\ w.dropped \subseteq DOMAIN package.parts
      <4>1. out.dropped \intersect DOMAIN out.parts = {} /\ out.dropped \subseteq DOMAIN package.parts
        BY <1>0 DEF KeptParts
      <4>2. CASE Shared(o)
        BY <2>2, <2>5, <4>1, <4>2
      <4>3. CASE ~Shared(o)
        <5>1. w.dropped = out.dropped \union {o.part} /\ o.part \notin DOMAIN out.parts
          BY <2>5, <4>3
        <5>2. DOMAIN w.parts = DOMAIN out.parts \union {media}
          BY <2>5
        <5>3. media # o.part
          BY <2>2, <2>4
        <5>4. media \notin out.dropped
          BY <2>2, <4>1
        <5> QED BY ONLY <2>4, <4>1, <5>1, <5>2, <5>3, <5>4
      <4> QED BY <4>2, <4>3
    <3>3. ASSUME NEW p \in DOMAIN package.parts, p \in w.dropped \union DOMAIN w.parts
          PROVE  \E q \in D : q.part = p /\ ~Shared(q)
      <4>1. CASE p \in out.dropped \union DOMAIN out.parts
        BY <1>0, <4>1 DEF KeptParts
      <4>2. CASE p \notin out.dropped \union DOMAIN out.parts
        <5>1. ~Shared(o) /\ p = o.part
          BY <2>2, <2>5, <3>3, <4>2
        <5> QED BY <5>1
      <4> QED BY <4>1, <4>2
    <3> QED BY <3>1, <3>2, <3>3 DEF KeptParts
  <2>12. KeptOthers(w, D)
    <3>1. ASSUME NEW c \in DOMAIN package.rels, NEW r \in DOMAIN package.rels[c],
                 \A q \in D : ~(q.drawing = c /\ q.rel = r)
          PROVE  r \in DOMAIN w.rels[c] /\ w.rels[c][r] = package.rels[c][r]
      <4>1. r \in DOMAIN out.rels[c] /\ out.rels[c][r] = package.rels[c][r]
        BY <1>0, <3>1 DEF KeptOthers
      <4>2. ~(c = d /\ r = n)
        BY <3>1
      <4> QED BY <2>6, <4>1, <4>2
    <3>2. \A c \in Range(package.owned) : \A i \in DOMAIN package.anchors[c] :
            (\A q \in D : ~(q.drawing = c /\ q.id = package.anchors[c][i].id))
              => package.anchors[c][i] \in Range(w.anchors[c])
      BY <1>0, <2>5 DEF KeptOthers
    <3> QED BY <3>1, <3>2 DEF KeptOthers
  <2>13. KeptLinks(w)
    <3>1. ASSUME NEW c \in DOMAIN package.rels, NEW r \in DOMAIN package.rels[c]
          PROVE  \/ r \in DOMAIN w.rels[c] /\ w.rels[c][r] = package.rels[c][r]
                 \/ package.rels[c][r] \in w.dropped
                 \/ ~LeadsAlone(package.rels, c, r)
      <4>1. CASE c = d /\ r = n
        <5>1. Shared(o) <=> ~LeadsAlone(package.rels, d, n)
          BY SharedIs
        <5> QED BY <2>4, <2>5, <4>1, <5>1
      <4>2. CASE ~(c = d /\ r = n)
        <5>1. \/ r \in DOMAIN out.rels[c] /\ out.rels[c][r] = package.rels[c][r]
              \/ package.rels[c][r] \in out.dropped
              \/ ~LeadsAlone(package.rels, c, r)
          BY <1>0 DEF KeptLinks
        <5>2. out.dropped \subseteq w.dropped
          BY <2>5
        <5> QED BY <2>6, <4>2, <5>1, <5>2
      <4> QED BY <4>1, <4>2
    <3> QED BY <3>1 DEF KeptLinks
  <2>14. Kept(w, D)
    BY <2>8, <2>9, <2>10, <2>11, <2>12, <2>13 DEF Kept, KeptDrawings
  <2> QED BY <2>1, <2>14
<1> QED BY <1>1, <1>2

-----------------------------------------------------------------------------
(* Added objects *)

LEMMA IdIsNew ==
  ASSUME NEW s, NEW R, RegularDrawing(s, R)
  PROVE  NextObjectId(s) \in Nat /\ \A a \in Range(s) : a.id # NextObjectId(s)
<1> DEFINE ids == {a.id : a \in Range(s)}
<1>1. Len(s) \in Nat /\ DOMAIN s = 1 .. Len(s)
  <2>1. s \in Seq(Range(s))
    BY DEF RegularDrawing
  <2> QED BY <2>1
<1>2. IsFiniteSet(ids)
  <2> DEFINE f == [i \in 1 .. Len(s) |-> s[i].id]
  <2>1. f \in Surjection(1 .. Len(s), ids)
    BY <1>1 DEF Surjection, Range
  <2>2. IsFiniteSet(1 .. Len(s))
    BY <1>1, FS_Interval
  <2> QED BY <2>1, <2>2, FS_Surjection
<1>3. ids \in SUBSET Nat
  BY DEF RegularDrawing, Range
<1>4. \A a \in Range(s) : a.id \in ids
  OBVIOUS
<1>5. NextObjectId(s) = 1 + Max({0} \union ids)
  BY DEF NextObjectId
<1> HIDE DEF ids
<1>6. Max({0} \union ids) \in Nat /\ \A n \in ids : n \in Nat /\ n <= Max({0} \union ids)
  BY <1>2, <1>3, AboveAll
<1> QED BY <1>4, <1>5, <1>6

LEMMA AppendKeeps ==
  ASSUME NEW out, NEW D, Regular(package), Kept(out, D),
         NEW d \in Range(package.owned), NEW kind \in Kinds,
         NEW part, part \notin DOMAIN package.parts, part \notin DOMAIN out.parts, part[2] \in Nat,
         NEW object, NEW content
  PROVE  Kept(AppendObject(out, d, kind, part, object, content), D)
<1> DEFINE s == out.anchors[d]
           R == out.rels[d]
           n == FreeId(DOMAIN R)
           a == [id |-> NextObjectId(s), kind |-> kind, rel |-> n,
                 place |-> object.place, size |-> object.size, text |-> None]
           Q == Put(R, n, part)
           t == Append(s, a)
           v == Write(out, part, content)
           w == AppendObject(out, d, kind, part, object, content)
<1>0. /\ KeptShape(out) /\ KeptDrawings(out) /\ KeptRels(out)
      /\ KeptParts(out, D) /\ KeptOthers(out, D) /\ KeptLinks(out)
  BY DEF Kept
<1>1. /\ d \in DOMAIN package.anchors /\ d \in DOMAIN package.rels
      /\ RegularDrawing(s, R) /\ IsFiniteSet(DOMAIN R) /\ DOMAIN R \subseteq Nat \ {0}
  BY <1>0 DEF KeptDrawings, KeptRels, Regular, Range
<1>2. n \in Nat \ {0} /\ n \notin DOMAIN R
  BY <1>1, FreeIdIsNew
<1>3. DOMAIN Q = DOMAIN R \union {n} /\ Q[n] = part /\ \A r \in DOMAIN R : Q[r] = R[r]
  <2> HIDE DEF R, n
  <2>1. /\ DOMAIN Q = DOMAIN R \union {n} /\ Q[n] = part
        /\ \A r \in DOMAIN R : r # n => Q[r] = R[r]
    BY DEF Put, Over
  <2> HIDE DEF Q
  <2> QED BY <1>2, <2>1
<1>4. /\ DOMAIN v = OutFields /\ v.anchors = out.anchors /\ v.rels = out.rels
      /\ v.dropped = out.dropped /\ DOMAIN v.parts = DOMAIN out.parts \union {part}
  BY <1>0, WriteIs DEF KeptShape
<1>5. w = [v EXCEPT !.anchors[d] = Append(@, a), !.rels[d] = Put(@, n, part)]
  BY DEF AppendObject
<1> HIDE DEF v
<1>6. /\ DOMAIN w = OutFields
      /\ w.anchors = [out.anchors EXCEPT ![d] = t] /\ w.rels = [out.rels EXCEPT ![d] = Q]
      /\ DOMAIN w.parts = DOMAIN out.parts \union {part} /\ w.dropped = out.dropped
  <2> HIDE DEF w, a, n
  <2> QED BY <1>4, <1>5 DEF OutFields
<1>7. RegularDrawing(t, Q) /\ Range(t) = Range(s) \union {a}
  <2>1. /\ DOMAIN a = AnchorFields /\ a.id = NextObjectId(s) /\ a.kind = kind /\ a.rel = n
    BY DEF AnchorFields
  <2>2. kind # "shape"
    BY DEF Kinds
  <2>3. NextObjectId(s) \in Nat /\ \A b \in Range(s) : b.id # NextObjectId(s)
    BY <1>1, IdIsNew
  <2>4. n # 0
    BY <1>2
  <2> HIDE DEF a, n, s, R, Q
  <2>5. DOMAIN Q = DOMAIN R \union {a.rel} /\ a.rel \notin DOMAIN R
    BY <1>2, <1>3, <2>1
  <2> QED BY <1>1, <2>1, <2>2, <2>3, <2>4, <2>5, DrawingGains, SMTT(30) DEF t
<1>8. a.rel = n
  OBVIOUS
<1> HIDE DEF w, a, n, Q, t
<1>9. /\ DOMAIN w.anchors = DOMAIN package.anchors /\ w.anchors[d] = t
      /\ \A c \in DOMAIN package.anchors : c # d => w.anchors[c] = out.anchors[c]
      /\ DOMAIN w.rels = DOMAIN package.rels /\ w.rels[d] = Q
      /\ \A c \in DOMAIN package.rels : c # d => w.rels[c] = out.rels[c]
  BY <1>0, <1>1, <1>6 DEF KeptShape
<1>10. /\ \A c \in DOMAIN package.rels : \A r \in DOMAIN out.rels[c] :
            /\ r \in DOMAIN w.rels[c] /\ w.rels[c][r] = out.rels[c][r]
            /\ w.rels[c][r] # part /\ ~(c = d /\ r = n)
       /\ \A c \in DOMAIN package.rels : \A r \in DOMAIN w.rels[c] :
            ~(c = d /\ r = n) => r \in DOMAIN out.rels[c]
       /\ w.rels[d][n] = part
  <2>1. \A c \in DOMAIN package.rels : \A r \in DOMAIN out.rels[c] : out.rels[c][r] # part
    BY <1>0 DEF KeptRels, FromPackage, NewParts, Regular, RegularRels
  <2> QED BY <1>2, <1>3, <1>9, <2>1
<1>11. KeptShape(w)
  BY <1>6, <1>9 DEF KeptShape
<1>12. ASSUME NEW c \in Range(package.owned)
       PROVE  RegularDrawing(w.anchors[c], w.rels[c]) /\ ChartsApart(w.anchors, w.rels, c)
  <2>1. /\ c \in DOMAIN package.rels /\ c \in DOMAIN package.anchors
        /\ RegularDrawing(out.anchors[c], out.rels[c]) /\ ChartsApart(out.anchors, out.rels, c)
    BY <1>0 DEF KeptDrawings, Regular, Range
  <2>2. RegularDrawing(w.anchors[c], w.rels[c])
    BY <1>7, <1>9, <2>1
  <2>3. ASSUME NEW i \in DOMAIN w.anchors[c], w.anchors[c][i].kind = "chart"
        PROVE  LeadsAlone(w.rels, c, w.anchors[c][i].rel)
    <3> DEFINE r == w.anchors[c][i].rel
    <3>1. r \in DOMAIN w.rels[c]
      BY <2>2, <2>3 DEF RegularDrawing
    <3>2. CASE c = d /\ r = n
      <4>1. ASSUME NEW b \in DOMAIN w.rels, NEW q \in DOMAIN w.rels[b], w.rels[b][q] = part
            PROVE  b = d /\ q = n
        BY <1>9, <1>10, <4>1
      <4> QED BY <1>10, <3>2, <4>1 DEF LeadsAlone
    <3>3. CASE ~(c = d /\ r = n)
      <4>1. w.anchors[c][i] \in Range(out.anchors[c])
        <5>1. CASE c # d
          BY <1>9, <2>1, <5>1 DEF Range
        <5>2. CASE c = d
          <6>1. w.anchors[c][i] \in Range(t)
            BY <1>9, <5>2 DEF Range
          <6>2. w.anchors[c][i] # a
            BY <1>8, <3>3, <5>2
          <6> QED BY <1>7, <5>2, <6>1, <6>2
        <5> QED BY <5>1, <5>2
      <4>2. PICK j \in DOMAIN out.anchors[c] : out.anchors[c][j] = w.anchors[c][i]
        BY <4>1 DEF Range
      <4>3. LeadsAlone(out.rels, c, r)
        BY <2>1, <2>3, <4>2 DEF ChartsApart
      <4>4. r \in DOMAIN out.rels[c] /\ w.rels[c][r] = out.rels[c][r] /\ w.rels[c][r] # part
        BY <1>10, <2>1, <3>1, <3>3
      <4> HIDE DEF r
      <4>5. ASSUME NEW b \in DOMAIN w.rels, NEW q \in DOMAIN w.rels[b], w.rels[b][q] = w.rels[c][r]
            PROVE  b = c /\ q = r
        <5>1. b \in DOMAIN package.rels /\ b \in DOMAIN out.rels
          BY <1>0, <1>9 DEF KeptShape
        <5>2. ~(b = d /\ q = n)
          BY <1>10, <4>4, <4>5
        <5>3. q \in DOMAIN out.rels[b] /\ out.rels[b][q] = out.rels[c][r]
          BY <1>10, <4>4, <4>5, <5>1, <5>2
        <5> QED BY <4>3, <5>1, <5>3 DEF LeadsAlone
      <4> QED BY <4>5 DEF LeadsAlone, r
    <3> QED BY <3>2, <3>3
  <2> QED BY <2>2, <2>3 DEF ChartsApart
<1>13. KeptRels(w)
  <2>1. ASSUME NEW c \in DOMAIN package.rels, NEW r \in DOMAIN w.rels[c]
        PROVE  FromPackage(w, c, r) \/ w.rels[c][r] \in NewParts(w)
    <3>1. CASE c = d /\ r = n
      BY <1>6, <1>10, <3>1 DEF NewParts
    <3>2. CASE ~(c = d /\ r = n)
      <4>1. r \in DOMAIN out.rels[c] /\ w.rels[c][r] = out.rels[c][r]
        BY <1>10, <2>1, <3>2
      <4>2. FromPackage(out, c, r) \/ out.rels[c][r] \in NewParts(out)
        BY <1>0, <4>1 DEF KeptRels
      <4> QED BY <1>6, <4>1, <4>2 DEF FromPackage, NewParts
    <3> QED BY <3>1, <3>2
  <2>2. ASSUME NEW c \in DOMAIN package.rels
        PROVE  IsFiniteSet(DOMAIN w.rels[c]) /\ DOMAIN w.rels[c] \subseteq Nat \ {0}
    <3>1. IsFiniteSet(DOMAIN out.rels[c]) /\ DOMAIN out.rels[c] \subseteq Nat \ {0}
      BY <1>0 DEF KeptRels
    <3>2. CASE c # d
      BY <1>9, <3>1, <3>2
    <3>3. CASE c = d
      <4>1. DOMAIN w.rels[c] = DOMAIN out.rels[c] \union {n}
        BY <1>3, <1>9, <3>3
      <4> QED BY <1>2, <3>1, <4>1, FS_AddElement
    <3> QED BY <3>2, <3>3
  <2> QED BY <2>1, <2>2 DEF KeptRels
<1>14. KeptParts(w, D)
  <2>1. RegularParts(DOMAIN w.parts)
    BY <1>0, <1>6, OneMorePart DEF KeptParts
  <2>2. w.dropped \intersect DOMAIN w.parts = {} /\ w.dropped \subseteq DOMAIN package.parts
    BY <1>0, <1>6 DEF KeptParts
  <2>3. ASSUME NEW p \in DOMAIN package.parts, p \in w.dropped \union DOMAIN w.parts
        PROVE  \E q \in D : q.part = p /\ ~Shared(q)
    <3>1. p \in out.dropped \union DOMAIN out.parts
      BY <1>6, <2>3
    <3> QED BY <1>0, <3>1 DEF KeptParts
  <2> QED BY <2>1, <2>2, <2>3 DEF KeptParts
<1>15. KeptOthers(w, D)
  <2>1. ASSUME NEW c \in DOMAIN package.rels, NEW r \in DOMAIN package.rels[c],
               \A q \in D : ~(q.drawing = c /\ q.rel = r)
        PROVE  r \in DOMAIN w.rels[c] /\ w.rels[c][r] = package.rels[c][r]
    <3>1. r \in DOMAIN out.rels[c] /\ out.rels[c][r] = package.rels[c][r]
      BY <1>0, <2>1 DEF KeptOthers
    <3> QED BY <1>10, <3>1
  <2>2. ASSUME NEW c \in Range(package.owned), NEW i \in DOMAIN package.anchors[c],
               \A q \in D : ~(q.drawing = c /\ q.id = package.anchors[c][i].id)
        PROVE  package.anchors[c][i] \in Range(w.anchors[c])
    <3>1. package.anchors[c][i] \in Range(out.anchors[c])
      BY <1>0, <2>2 DEF KeptOthers
    <3>2. c \in DOMAIN package.anchors
      BY DEF Regular, Range
    <3> QED BY <1>7, <1>9, <3>1, <3>2
  <2> QED BY <2>1, <2>2 DEF KeptOthers
<1>16. KeptLinks(w)
  BY <1>0, <1>6, <1>10 DEF KeptLinks
<1>17. Kept(w, D)
  BY <1>11, <1>12, <1>13, <1>14, <1>15, <1>16 DEF Kept, KeptDrawings
<1> QED BY <1>17 DEF w

-----------------------------------------------------------------------------
(* The passes *)

LEMMA ImageReplayExists ==
  ASSUME NEW out, Len(imageEdits) \in Nat
  PROVE  \E f : f = [n \in 0 .. Len(imageEdits) |-> IF n = 0 THEN out ELSE ApplyImageEdit(f[n - 1], imageEdits[n])]
<1> DEFINE Runs(N, f) == f = [n \in 0 .. N |-> IF n = 0 THEN out ELSE ApplyImageEdit(f[n - 1], imageEdits[n])]
           S == {N \in Nat : \E f : Runs(N, f)}
<1> HIDE DEF S
<1>1. 0 \in S
  <2>1. Runs(0, [n \in 0 .. 0 |-> out])
    OBVIOUS
  <2> QED BY <2>1 DEF S
<1>2. ASSUME NEW N \in Nat, N \in S PROVE N + 1 \in S
  <2>1. PICK g : Runs(N, g)
    BY <1>2 DEF S
  <2> DEFINE h == [n \in 0 .. N + 1 |-> IF n = N + 1 THEN ApplyImageEdit(g[N], imageEdits[n]) ELSE g[n]]
  <2>2. Runs(N + 1, h)
    <3>1. ASSUME NEW n \in 0 .. N + 1
          PROVE  h[n] = IF n = 0 THEN out ELSE ApplyImageEdit(h[n - 1], imageEdits[n])
      <4>1. CASE n = N + 1
        <5>1. n # 0 /\ n - 1 = N /\ n - 1 \in 0 .. N + 1 /\ n - 1 # N + 1
          BY <4>1
        <5> QED BY <4>1, <5>1
      <4>2. CASE n # N + 1
        <5>1. n \in 0 .. N /\ n - 1 # N + 1 /\ (n # 0 => n - 1 \in 0 .. N + 1)
          BY <4>2
        <5>2. g[n] = IF n = 0 THEN out ELSE ApplyImageEdit(g[n - 1], imageEdits[n])
          BY <2>1, <5>1
        <5> QED BY <4>2, <5>1, <5>2
      <4> QED BY <4>1, <4>2
    <3> QED BY <3>1
  <2> HIDE DEF h, Runs
  <2>3. \E f : Runs(N + 1, f)
    BY <2>2
  <2> QED BY <2>3 DEF S
<1>3. Nat \subseteq S
  BY <1>1, <1>2, NatInd
<1>4. Len(imageEdits) \in S
  BY <1>3
<1> QED BY <1>4 DEF S

LEMMA ImageReplayIs ==
  ASSUME NEW out, Len(imageEdits) \in Nat
  PROVE  \E f : /\ f = [n \in 0 .. Len(imageEdits) |-> IF n = 0 THEN out ELSE ApplyImageEdit(f[n - 1], imageEdits[n])]
               /\ ReplayImageEdits(out) = f[Len(imageEdits)]
BY ImageReplayExists, ZenonT(60) DEF ReplayImageEdits

LEMMA ChartReplayExists ==
  ASSUME NEW out, Len(chartEdits) \in Nat
  PROVE  \E f : f = [n \in 0 .. Len(chartEdits) |-> IF n = 0 THEN out ELSE ApplyChartEdit(f[n - 1], chartEdits[n])]
<1> DEFINE Runs(N, f) == f = [n \in 0 .. N |-> IF n = 0 THEN out ELSE ApplyChartEdit(f[n - 1], chartEdits[n])]
           S == {N \in Nat : \E f : Runs(N, f)}
<1> HIDE DEF S
<1>1. 0 \in S
  <2>1. Runs(0, [n \in 0 .. 0 |-> out])
    OBVIOUS
  <2> QED BY <2>1 DEF S
<1>2. ASSUME NEW N \in Nat, N \in S PROVE N + 1 \in S
  <2>1. PICK g : Runs(N, g)
    BY <1>2 DEF S
  <2> DEFINE h == [n \in 0 .. N + 1 |-> IF n = N + 1 THEN ApplyChartEdit(g[N], chartEdits[n]) ELSE g[n]]
  <2>2. Runs(N + 1, h)
    <3>1. ASSUME NEW n \in 0 .. N + 1
          PROVE  h[n] = IF n = 0 THEN out ELSE ApplyChartEdit(h[n - 1], chartEdits[n])
      <4>1. CASE n = N + 1
        <5>1. n # 0 /\ n - 1 = N /\ n - 1 \in 0 .. N + 1 /\ n - 1 # N + 1
          BY <4>1
        <5> QED BY <4>1, <5>1
      <4>2. CASE n # N + 1
        <5>1. n \in 0 .. N /\ n - 1 # N + 1 /\ (n # 0 => n - 1 \in 0 .. N + 1)
          BY <4>2
        <5>2. g[n] = IF n = 0 THEN out ELSE ApplyChartEdit(g[n - 1], chartEdits[n])
          BY <2>1, <5>1
        <5> QED BY <4>2, <5>1, <5>2
      <4> QED BY <4>1, <4>2
    <3> QED BY <3>1
  <2> HIDE DEF h, Runs
  <2>3. \E f : Runs(N + 1, f)
    BY <2>2
  <2> QED BY <2>3 DEF S
<1>3. Nat \subseteq S
  BY <1>1, <1>2, NatInd
<1>4. Len(chartEdits) \in S
  BY <1>3
<1> QED BY <1>4 DEF S

LEMMA ChartReplayIs ==
  ASSUME NEW out, Len(chartEdits) \in Nat
  PROVE  \E f : /\ f = [n \in 0 .. Len(chartEdits) |-> IF n = 0 THEN out ELSE ApplyChartEdit(f[n - 1], chartEdits[n])]
               /\ ReplayChartEdits(out) = f[Len(chartEdits)]
BY ChartReplayExists, ZenonT(60) DEF ReplayChartEdits

LEMMA ImageAppendsExists ==
  ASSUME NEW out, Len(AppendedImages) \in Nat
  PROVE  \E f : f = [n \in 0 .. Len(AppendedImages) |-> IF n = 0 THEN out ELSE AppendImage(f[n - 1], AppendedImages[n])]
<1> DEFINE Runs(N, f) == f = [n \in 0 .. N |-> IF n = 0 THEN out ELSE AppendImage(f[n - 1], AppendedImages[n])]
           S == {N \in Nat : \E f : Runs(N, f)}
<1> HIDE DEF S
<1>1. 0 \in S
  <2>1. Runs(0, [n \in 0 .. 0 |-> out])
    OBVIOUS
  <2> QED BY <2>1 DEF S
<1>2. ASSUME NEW N \in Nat, N \in S PROVE N + 1 \in S
  <2>1. PICK g : Runs(N, g)
    BY <1>2 DEF S
  <2> DEFINE h == [n \in 0 .. N + 1 |-> IF n = N + 1 THEN AppendImage(g[N], AppendedImages[n]) ELSE g[n]]
  <2>2. Runs(N + 1, h)
    <3>1. ASSUME NEW n \in 0 .. N + 1
          PROVE  h[n] = IF n = 0 THEN out ELSE AppendImage(h[n - 1], AppendedImages[n])
      <4>1. CASE n = N + 1
        <5>1. n # 0 /\ n - 1 = N /\ n - 1 \in 0 .. N + 1 /\ n - 1 # N + 1
          BY <4>1
        <5> QED BY <4>1, <5>1
      <4>2. CASE n # N + 1
        <5>1. n \in 0 .. N /\ n - 1 # N + 1 /\ (n # 0 => n - 1 \in 0 .. N + 1)
          BY <4>2
        <5>2. g[n] = IF n = 0 THEN out ELSE AppendImage(g[n - 1], AppendedImages[n])
          BY <2>1, <5>1
        <5> QED BY <4>2, <5>1, <5>2
      <4> QED BY <4>1, <4>2
    <3> QED BY <3>1
  <2> HIDE DEF h, Runs
  <2>3. \E f : Runs(N + 1, f)
    BY <2>2
  <2> QED BY <2>3 DEF S
<1>3. Nat \subseteq S
  BY <1>1, <1>2, NatInd
<1>4. Len(AppendedImages) \in S
  BY <1>3
<1> QED BY <1>4 DEF S

LEMMA ImageAppendsIs ==
  ASSUME NEW out, Len(AppendedImages) \in Nat
  PROVE  \E f : /\ f = [n \in 0 .. Len(AppendedImages) |-> IF n = 0 THEN out ELSE AppendImage(f[n - 1], AppendedImages[n])]
               /\ AppendImages(out) = f[Len(AppendedImages)]
BY ImageAppendsExists, ZenonT(60) DEF AppendImages

LEMMA ChartAppendsExists ==
  ASSUME NEW out, Len(AppendedCharts) \in Nat
  PROVE  \E f : f = [n \in 0 .. Len(AppendedCharts) |-> IF n = 0 THEN out ELSE AppendChart(f[n - 1], AppendedCharts[n])]
<1> DEFINE Runs(N, f) == f = [n \in 0 .. N |-> IF n = 0 THEN out ELSE AppendChart(f[n - 1], AppendedCharts[n])]
           S == {N \in Nat : \E f : Runs(N, f)}
<1> HIDE DEF S
<1>1. 0 \in S
  <2>1. Runs(0, [n \in 0 .. 0 |-> out])
    OBVIOUS
  <2> QED BY <2>1 DEF S
<1>2. ASSUME NEW N \in Nat, N \in S PROVE N + 1 \in S
  <2>1. PICK g : Runs(N, g)
    BY <1>2 DEF S
  <2> DEFINE h == [n \in 0 .. N + 1 |-> IF n = N + 1 THEN AppendChart(g[N], AppendedCharts[n]) ELSE g[n]]
  <2>2. Runs(N + 1, h)
    <3>1. ASSUME NEW n \in 0 .. N + 1
          PROVE  h[n] = IF n = 0 THEN out ELSE AppendChart(h[n - 1], AppendedCharts[n])
      <4>1. CASE n = N + 1
        <5>1. n # 0 /\ n - 1 = N /\ n - 1 \in 0 .. N + 1 /\ n - 1 # N + 1
          BY <4>1
        <5> QED BY <4>1, <5>1
      <4>2. CASE n # N + 1
        <5>1. n \in 0 .. N /\ n - 1 # N + 1 /\ (n # 0 => n - 1 \in 0 .. N + 1)
          BY <4>2
        <5>2. g[n] = IF n = 0 THEN out ELSE AppendChart(g[n - 1], AppendedCharts[n])
          BY <2>1, <5>1
        <5> QED BY <4>2, <5>1, <5>2
      <4> QED BY <4>1, <4>2
    <3> QED BY <3>1
  <2> HIDE DEF h, Runs
  <2>3. \E f : Runs(N + 1, f)
    BY <2>2
  <2> QED BY <2>3 DEF S
<1>3. Nat \subseteq S
  BY <1>1, <1>2, NatInd
<1>4. Len(AppendedCharts) \in S
  BY <1>3
<1> QED BY <1>4 DEF S

LEMMA ChartAppendsIs ==
  ASSUME NEW out, Len(AppendedCharts) \in Nat
  PROVE  \E f : /\ f = [n \in 0 .. Len(AppendedCharts) |-> IF n = 0 THEN out ELSE AppendChart(f[n - 1], AppendedCharts[n])]
               /\ AppendCharts(out) = f[Len(AppendedCharts)]
BY ChartAppendsExists, ZenonT(60) DEF AppendCharts

LEMMA ImageEditKeeps ==
  ASSUME NEW out, NEW done, NEW e, Facing(out, done, e.object.source, "pic")
  PROVE  Kept(ApplyImageEdit(out, e), done \union {e.object.source})
<1> DEFINE o == e.object.source
           v == WithAnchor(out, e)
           D == done \union {o}
<1>1. CASE "removed" \in e.flags
  <2>1. ApplyImageEdit(out, e) = Unlink(v, o, "pic")
    BY <1>1 DEF ApplyImageEdit
  <2>2. Kept(Unlink(WithAnchor(out, e), o, "pic"), D)
    BY <1>1, RemovalKeeps
  <2> QED BY <2>1, <2>2
<1>2. CASE "removed" \notin e.flags
  <2>1. Kept(v, D) /\ v.rels = out.rels /\ v.parts = out.parts /\ v.dropped = out.dropped
    BY <1>2, MoveKeeps
  <2>2. CASE "changed" \notin e.flags
    <3>1. ApplyImageEdit(out, e) = v
      BY <1>2, <2>2 DEF ApplyImageEdit
    <3> QED BY <2>1, <3>1
  <2>3. CASE "changed" \in e.flags
    <3>1. ApplyImageEdit(out, e) = Retarget(v, e)
      BY <1>2, <2>3 DEF ApplyImageEdit
    <3>2. /\ o.rel \in DOMAIN out.rels[o.drawing]
          /\ ~Shared(o) => o.part \notin out.dropped \union DOMAIN out.parts
      <4>1. AnchorFound(out, o, "pic")
        BY EditFindsItsAnchor
      <4> QED BY ONLY <4>1 DEF AnchorFound
    <3>3. Regular(package) /\ "pic" \in Kinds /\ IsOrigin(o, "pic")
      BY DEF Facing
    <3>4. /\ o.rel \in DOMAIN v.rels[o.drawing]
          /\ ~Shared(o) => o.part \notin v.dropped \union DOMAIN v.parts
      BY <2>1, <3>2
    <3>5. o \in D
      OBVIOUS
    <3> HIDE DEF v, D
    <3>6. Kept(Retarget(v, e), D)
      BY <2>1, <3>3, <3>4, <3>5, RetargetKeeps
    <3> QED BY <3>1, <3>6 DEF D
  <2> QED BY <2>2, <2>3
<1> QED BY <1>1, <1>2

LEMMA ChartEditKeeps ==
  ASSUME NEW out, NEW done, NEW e, Facing(out, done, e.object.source, "chart")
  PROVE  Kept(ApplyChartEdit(out, e), done \union {e.object.source})
<1> DEFINE o == e.object.source
           v == WithAnchor(out, e)
           D == done \union {o}
<1>1. CASE "removed" \in e.flags
  <2>1. ApplyChartEdit(out, e) = Unlink(v, o, "chart")
    BY <1>1 DEF ApplyChartEdit
  <2>2. Kept(Unlink(WithAnchor(out, e), o, "chart"), D)
    BY <1>1, RemovalKeeps
  <2> QED BY <2>1, <2>2
<1>2. CASE "removed" \notin e.flags
  <2>1. Kept(v, D) /\ v.rels = out.rels /\ v.parts = out.parts /\ v.dropped = out.dropped
    BY <1>2, MoveKeeps
  <2>2. CASE "changed" \notin e.flags
    <3>1. ApplyChartEdit(out, e) = v
      BY <1>2, <2>2 DEF ApplyChartEdit
    <3> QED BY <2>1, <3>1
  <2>3. CASE "changed" \in e.flags
    <3>1. ApplyChartEdit(out, e) = Write(v, o.part, e.object.title)
      BY <1>2, <2>3 DEF ApplyChartEdit
    <3>2. Regular(package) /\ "chart" \in Kinds /\ IsOrigin(o, "chart")
      BY DEF Facing
    <3>3. ~Shared(o)
      BY <3>2, ChartNotShared
    <3>4. o.part \notin v.dropped
      <4>1. AnchorFound(out, o, "chart")
        BY EditFindsItsAnchor
      <4>2. o.part \notin out.dropped
        BY ONLY <3>3, <4>1 DEF AnchorFound
      <4> QED BY <2>1, <4>2
    <3>5. o \in D
      OBVIOUS
    <3> HIDE DEF v, D
    <3>6. Kept(Write(v, o.part, e.object.title), D)
      BY <2>1, <3>2, <3>3, <3>4, <3>5, WriteKeeps
    <3> QED BY <3>1, <3>6 DEF D
  <2> QED BY <2>2, <2>3
<1> QED BY <1>1, <1>2

\* The objects the first n edits are for.
Done(edits, n) == {edits[k].object.source : k \in 1 .. n}

LEMMA DoneGrows ==
  ASSUME NEW edits, NEW kind, EditsApart(edits, kind), NEW n \in Nat, n + 1 \in 1 .. Len(edits)
  PROVE  /\ Done(edits, n + 1) = Done(edits, n) \union {edits[n + 1].object.source}
         /\ edits[n + 1].object.source \notin Done(edits, n)
         /\ \A o \in Done(edits, n) : IsOrigin(o, kind)
         /\ IsOrigin(edits[n + 1].object.source, kind)
<1>1. DOMAIN edits = 1 .. Len(edits) /\ Len(edits) \in Nat
  BY DEF EditsApart, IsSeq
<1>2. 1 .. n + 1 = (1 .. n) \union {n + 1} /\ n + 1 \notin 1 .. n /\ 1 .. n \subseteq DOMAIN edits
  BY <1>1
<1>3. Done(edits, n + 1) = Done(edits, n) \union {edits[n + 1].object.source}
  BY <1>2 DEF Done
<1>4. \A k \in 1 .. n : edits[k].object.source # edits[n + 1].object.source
  BY <1>1, <1>2 DEF EditsApart
<1> QED BY <1>1, <1>2, <1>3, <1>4 DEF Done, EditsApart

LEMMA NothingDone == ASSUME NEW edits PROVE Done(edits, 0) = {}
<1>1. 1 .. 0 = {}
  OBVIOUS
<1> QED BY <1>1 DEF Done

\* The pictures are patched first.
LEMMA ImageReplayKeeps ==
  ASSUME IInv, NEW out, Kept(out, {})
  PROVE  Kept(ReplayImageEdits(out), Done(imageEdits, Len(imageEdits)))
<1>0. EditsApart(imageEdits, "pic") /\ Regular(package) /\ "pic" \in Kinds
  BY DEF IInv, Kinds
<1>1. Len(imageEdits) \in Nat
  BY <1>0 DEF EditsApart, IsSeq
<1>2. PICK f : /\ f = [n \in 0 .. Len(imageEdits) |->
                         IF n = 0 THEN out ELSE ApplyImageEdit(f[n - 1], imageEdits[n])]
               /\ ReplayImageEdits(out) = f[Len(imageEdits)]
  BY <1>1, ImageReplayIs
<1> DEFINE S == {n \in Nat : n <= Len(imageEdits) => Kept(f[n], Done(imageEdits, n))}
<1>3. 0 \in S
  <2>1. f[0] = out
    BY <1>1, <1>2
  <2> QED BY <2>1, NothingDone
<1>4. ASSUME NEW n \in Nat, n \in S PROVE n + 1 \in S
  <2>1. SUFFICES ASSUME n + 1 <= Len(imageEdits)
                 PROVE  Kept(f[n + 1], Done(imageEdits, n + 1))
    OBVIOUS
  <2> DEFINE e == imageEdits[n + 1]
             D == Done(imageEdits, n)
  <2>2. n + 1 \in 1 .. Len(imageEdits) /\ n + 1 # 0 /\ n + 1 - 1 = n /\ n <= Len(imageEdits)
    BY <1>1, <2>1
  <2>3. Kept(f[n], D)
    BY <1>4, <2>2
  <2>4. f[n + 1] = ApplyImageEdit(f[n], e)
    BY <1>1, <1>2, <2>2
  <2>5. /\ Done(imageEdits, n + 1) = D \union {e.object.source} /\ e.object.source \notin D
        /\ \A o \in D : IsOrigin(o, "pic")
        /\ IsOrigin(e.object.source, "pic")
    BY <1>0, <2>2, DoneGrows
  <2> HIDE DEF e, D
  <2>6. Facing(f[n], D, e.object.source, "pic")
    BY <1>0, <2>3, <2>5 DEF Facing
  <2>7. Kept(ApplyImageEdit(f[n], e), D \union {e.object.source})
    BY <2>6, ImageEditKeeps
  <2> QED BY <2>4, <2>5, <2>7
<1> HIDE DEF S
<1>5. Nat \subseteq S
  BY <1>3, <1>4, NatInd
<1>6. Len(imageEdits) \in S
  BY <1>1, <1>5
<1> QED BY <1>1, <1>2, <1>6 DEF S

\* The charts are patched after the pictures, whose edits are done.
LEMMA ChartReplayKeeps ==
  ASSUME IInv, NEW out, NEW before, Kept(out, before),
         \A o \in before : IsOrigin(o, "pic")
  PROVE  Kept(ReplayChartEdits(out), before \union Done(chartEdits, Len(chartEdits)))
<1>0. EditsApart(chartEdits, "chart") /\ Regular(package) /\ "chart" \in Kinds /\ "pic" \in Kinds
  BY DEF IInv, Kinds
<1>1. Len(chartEdits) \in Nat
  BY <1>0 DEF EditsApart, IsSeq
<1>2. PICK f : /\ f = [n \in 0 .. Len(chartEdits) |->
                         IF n = 0 THEN out ELSE ApplyChartEdit(f[n - 1], chartEdits[n])]
               /\ ReplayChartEdits(out) = f[Len(chartEdits)]
  BY <1>1, ChartReplayIs
<1> DEFINE S == {n \in Nat : n <= Len(chartEdits) => Kept(f[n], before \union Done(chartEdits, n))}
<1>3. 0 \in S
  <2>1. before \union Done(chartEdits, 0) = before
    BY NothingDone
  <2>2. f[0] = out
    BY <1>1, <1>2
  <2> QED BY <2>1, <2>2
<1>4. ASSUME NEW n \in Nat, n \in S PROVE n + 1 \in S
  <2>1. SUFFICES ASSUME n + 1 <= Len(chartEdits)
                 PROVE  Kept(f[n + 1], before \union Done(chartEdits, n + 1))
    OBVIOUS
  <2> DEFINE e == chartEdits[n + 1]
             D == Done(chartEdits, n)
  <2>2. n + 1 \in 1 .. Len(chartEdits) /\ n + 1 # 0 /\ n + 1 - 1 = n /\ n <= Len(chartEdits)
    BY <1>1, <2>1
  <2>3. Kept(f[n], before \union D)
    BY <1>4, <2>2
  <2>4. f[n + 1] = ApplyChartEdit(f[n], e)
    BY <1>1, <1>2, <2>2
  <2>5. /\ Done(chartEdits, n + 1) = D \union {e.object.source} /\ e.object.source \notin D
        /\ \A o \in D : IsOrigin(o, "chart")
        /\ IsOrigin(e.object.source, "chart")
    BY <1>0, <2>2, DoneGrows
  <2>6. e.object.source \notin before
    <3> HIDE DEF e
    <3>1. SUFFICES ASSUME e.object.source \in before PROVE FALSE
      OBVIOUS
    <3>2. IsOrigin(e.object.source, "pic")
      BY <3>1
    <3>3. "pic" = "chart"
      BY <1>0, <2>5, <3>2, OriginsApart
    <3> QED BY <3>3
  <2> HIDE DEF e, D
  <2>7. Facing(f[n], before \union D, e.object.source, "chart")
    BY <1>0, <2>3, <2>5, <2>6 DEF Facing
  <2>8. Kept(ApplyChartEdit(f[n], e), (before \union D) \union {e.object.source})
    BY <2>7, ChartEditKeeps
  <2>9. (before \union D) \union {e.object.source} = before \union Done(chartEdits, n + 1)
    BY <2>5
  <2> QED BY <2>4, <2>8, <2>9
<1> HIDE DEF S
<1>5. Nat \subseteq S
  BY <1>3, <1>4, NatInd
<1>6. Len(chartEdits) \in S
  BY <1>1, <1>5
<1> QED BY <1>1, <1>2, <1>6 DEF S

\* Added objects go to a drawing the worksheet owns.
LEMMA DrawingForIsOwned ==
  ASSUME NEW objects, IsSeq(objects), NEW loaded \in Nat,
         NEW otherwise \in Range(package.owned)
  PROVE  DrawingFor(objects, loaded, otherwise) \in Range(package.owned)
<1> DEFINE m == Min({loaded, Len(objects)})
           I == {i \in 1 .. m : Imported(objects[i]) /\ objects[i].source.drawing \in Range(package.owned)}
           k == IF I # {} THEN Min(I) ELSE 0
<1>1. DrawingFor(objects, loaded, otherwise) = IF k = 0 THEN otherwise ELSE objects[k].source.drawing
  BY DEF DrawingFor, SelectInSubSeq
<1>2. m \in Nat
  <2>1. Len(objects) \in Nat
    BY DEF IsSeq
  <2>2. {loaded, Len(objects)} \in SUBSET Nat /\ {loaded, Len(objects)} # {}
    BY <2>1
  <2>3. Min({loaded, Len(objects)}) \in {loaded, Len(objects)}
    BY <2>2, MinIsLeast
  <2> QED BY <2>2, <2>3
<1>3. I \in SUBSET Nat
  BY <1>2
<1>4. I # {} => Min(I) \in I
  BY <1>3, MinIsLeast
<1>5. k = 0 \/ k \in I
  BY <1>4
<1> HIDE DEF k, m
<1> QED BY <1>1, <1>5

LEMMA AddedToOwned ==
  ASSUME IInv, Preserve
  PROVE  ImageDrawing \in Range(package.owned) /\ ChartDrawing \in Range(package.owned)
<1>1. Head(package.owned) \in Range(package.owned)
  <2>1. package.owned \in Seq(DOMAIN package.anchors) /\ package.owned # <<>>
    BY DEF IInv, Regular, Preserve
  <2>2. Head(package.owned) = package.owned[1] /\ 1 \in DOMAIN package.owned
    BY <2>1
  <2> QED BY <2>2 DEF Range
<1>2. ImageDrawing \in Range(package.owned)
  BY <1>1, DrawingForIsOwned DEF ImageDrawing, IInv, FromAnchors
<1>3. (IF loadedCharts = 0 THEN ImageDrawing ELSE Head(package.owned)) \in Range(package.owned)
  BY <1>1, <1>2
<1>4. ChartDrawing \in Range(package.owned)
  BY <1>3, DrawingForIsOwned DEF ChartDrawing, IInv, FromAnchors
<1> QED BY <1>2, <1>4

LEMMA ImageAppendsKeep ==
  ASSUME IInv, Preserve, NEW out, NEW D, Kept(out, D)
  PROVE  Kept(AppendImages(out), D)
<1> DEFINE N == Len(AppendedImages)
<1>1. N \in Nat
  <2>1. images \in Seq(Range(images)) /\ loadedImages \in Nat
    BY DEF IInv, FromAnchors, IsSeq
  <2>2. loadedImages + 1 \in Nat \ {0} /\ Len(images) \in Nat
    BY <2>1
  <2>3. AppendedImages \in Seq(Range(images))
    BY <2>1, <2>2 DEF AppendedImages
  <2> QED BY <2>3
<1>2. PICK f : /\ f = [n \in 0 .. N |-> IF n = 0 THEN out ELSE AppendImage(f[n - 1], AppendedImages[n])]
               /\ AppendImages(out) = f[N]
  BY <1>1, ImageAppendsIs
<1> HIDE DEF N
<1> DEFINE S == {n \in Nat : n <= N => Kept(f[n], D)}
<1>3. 0 \in S
  <2>1. f[0] = out
    BY <1>1, <1>2
  <2> QED BY <2>1
<1>4. ASSUME NEW n \in Nat, n \in S PROVE n + 1 \in S
  <2>1. SUFFICES ASSUME n + 1 <= N PROVE Kept(f[n + 1], D)
    OBVIOUS
  <2> DEFINE x == AppendedImages[n + 1]
             g == f[n]
             part == <<"media", Fresh(g, "media"), x.ext>>
  <2>2. n + 1 \in 0 .. N /\ n + 1 # 0 /\ n + 1 - 1 = n /\ n <= N
    BY <1>1, <2>1
  <2>3. Kept(g, D)
    BY <1>4, <2>2
  <2>4. f[n + 1] = AppendImage(g, x)
    BY <1>1, <1>2, <2>2
  <2>5. Regular(package) /\ ImageDrawing \in Range(package.owned) /\ "pic" \in Kinds
    BY AddedToOwned DEF IInv, Kinds
  <2>6. part \notin DOMAIN package.parts /\ part \notin DOMAIN g.parts /\ part[2] \in Nat
    BY <2>3, <2>5, FreshPart DEF Kept
  <2>7. AppendImage(g, x) = AppendObject(g, ImageDrawing, "pic", part, x, x.bytes)
    BY DEF AppendImage
  <2> HIDE DEF part, g, x
  <2>8. Kept(AppendObject(g, ImageDrawing, "pic", part, x, x.bytes), D)
    BY <2>3, <2>5, <2>6, AppendKeeps
  <2> QED BY <2>4, <2>7, <2>8
<1> HIDE DEF S
<1>5. Nat \subseteq S
  BY <1>3, <1>4, NatInd
<1>6. N \in S
  BY <1>1, <1>5
<1> QED BY <1>1, <1>2, <1>6 DEF S

LEMMA ChartAppendsKeep ==
  ASSUME IInv, Preserve, NEW out, NEW D, Kept(out, D)
  PROVE  Kept(AppendCharts(out), D)
<1> DEFINE N == Len(AppendedCharts)
<1>1. N \in Nat
  <2>1. charts \in Seq(Range(charts)) /\ loadedCharts \in Nat
    BY DEF IInv, FromAnchors, IsSeq
  <2>2. loadedCharts + 1 \in Nat \ {0} /\ Len(charts) \in Nat
    BY <2>1
  <2>3. AppendedCharts \in Seq(Range(charts))
    BY <2>1, <2>2 DEF AppendedCharts
  <2> QED BY <2>3
<1>2. PICK f : /\ f = [n \in 0 .. N |-> IF n = 0 THEN out ELSE AppendChart(f[n - 1], AppendedCharts[n])]
               /\ AppendCharts(out) = f[N]
  BY <1>1, ChartAppendsIs
<1> HIDE DEF N
<1> DEFINE S == {n \in Nat : n <= N => Kept(f[n], D)}
<1>3. 0 \in S
  <2>1. f[0] = out
    BY <1>1, <1>2
  <2> QED BY <2>1
<1>4. ASSUME NEW n \in Nat, n \in S PROVE n + 1 \in S
  <2>1. SUFFICES ASSUME n + 1 <= N PROVE Kept(f[n + 1], D)
    OBVIOUS
  <2> DEFINE x == AppendedCharts[n + 1]
             g == f[n]
             part == <<"chart", Fresh(g, "chart"), "xml">>
  <2>2. n + 1 \in 0 .. N /\ n + 1 # 0 /\ n + 1 - 1 = n /\ n <= N
    BY <1>1, <2>1
  <2>3. Kept(g, D)
    BY <1>4, <2>2
  <2>4. f[n + 1] = AppendChart(g, x)
    BY <1>1, <1>2, <2>2
  <2>5. Regular(package) /\ ChartDrawing \in Range(package.owned) /\ "chart" \in Kinds
    BY AddedToOwned DEF IInv, Kinds
  <2>6. part \notin DOMAIN package.parts /\ part \notin DOMAIN g.parts /\ part[2] \in Nat
    BY <2>3, <2>5, FreshPart DEF Kept
  <2>7. AppendChart(g, x) = AppendObject(g, ChartDrawing, "chart", part, [x EXCEPT !.place = None], x.title)
    BY DEF AppendChart
  <2> HIDE DEF part, g, x
  <2>8. Kept(AppendObject(g, ChartDrawing, "chart", part, [x EXCEPT !.place = None], x.title), D)
    BY <2>3, <2>5, <2>6, AppendKeeps
  <2> QED BY <2>4, <2>7, <2>8
<1> HIDE DEF S
<1>5. Nat \subseteq S
  BY <1>3, <1>4, NatInd
<1>6. N \in S
  BY <1>1, <1>5
<1> QED BY <1>1, <1>2, <1>6 DEF S

LEMMA WriteDrawingsKeeps ==
  ASSUME NEW out, NEW D, Kept(out, D), NEW drawings
  PROVE  Kept(WriteDrawings(out, drawings), D)
<1> DEFINE w == WriteDrawings(out, drawings)
<1>1. DOMAIN out = OutFields
  BY DEF Kept, KeptShape
<1>2. /\ DOMAIN w = OutFields /\ w.anchors = out.anchors /\ w.rels = out.rels
      /\ w.parts = out.parts /\ w.dropped = out.dropped
  BY <1>1 DEF WriteDrawings, OutFields
<1> HIDE DEF w
<1>3. NewParts(w) = NewParts(out) /\ \A d, r : FromPackage(w, d, r) <=> FromPackage(out, d, r)
  BY <1>2 DEF NewParts, FromPackage
<1>4. KeptShape(w) /\ KeptDrawings(w) /\ KeptRels(w)
  BY <1>2, <1>3 DEF Kept, KeptShape, KeptDrawings, KeptRels
<1>5. KeptParts(w, D) /\ KeptOthers(w, D) /\ KeptLinks(w)
  BY <1>2 DEF Kept, KeptParts, KeptOthers, KeptLinks
<1>6. Kept(w, D)
  BY <1>4, <1>5 DEF Kept
<1> QED BY <1>6 DEF w

LEMMA UntouchedIsKept ==
  ASSUME Regular(package)
  PROVE  Kept(Untouched, {})
<1> DEFINE out == Untouched
<1>1. /\ DOMAIN out = OutFields /\ out.anchors = package.anchors /\ out.rels = package.rels
      /\ out.parts = <<>> /\ out.dropped = {}
  BY DEF Untouched, OutFields
<1> HIDE DEF out
<1>2. DOMAIN out.parts = {}
  BY <1>1
<1>3. KeptShape(out)
  BY <1>1 DEF KeptShape, Regular
<1>4. KeptDrawings(out)
  BY <1>1 DEF KeptDrawings, Regular
<1>5. KeptRels(out)
  BY <1>1 DEF KeptRels, FromPackage, Regular, RegularRels
<1>6. KeptParts(out, {})
  BY <1>1, <1>2, FS_EmptySet DEF KeptParts, RegularParts
<1>7. KeptOthers(out, {})
  BY <1>1 DEF KeptOthers, Range
<1>8. KeptLinks(out)
  BY <1>1 DEF KeptLinks
<1>9. Kept(out, {})
  BY <1>3, <1>4, <1>5, <1>6, <1>7, <1>8 DEF Kept
<1> QED BY <1>9 DEF out

\* The objects both passes have replayed an edit for.
AllDone == Done(imageEdits, Len(imageEdits)) \union Done(chartEdits, Len(chartEdits))

\* What both passes together keep.
LEMMA OutputIsKept ==
  ASSUME IInv, Preserve
  PROVE  Kept(Output, AllDone)
<1> DEFINE D == Done(imageEdits, Len(imageEdits))
           pictures == ApplyImageChanges(Untouched)
<1>0. Regular(package) /\ EditsApart(imageEdits, "pic")
  BY DEF IInv
<1>1. Kept(ReplayImageEdits(Untouched), D)
  BY <1>0, UntouchedIsKept, ImageReplayKeeps
<1>2. Kept(pictures, D)
  BY <1>1, ImageAppendsKeep, WriteDrawingsKeeps DEF ApplyImageChanges
<1>3. \A o \in D : IsOrigin(o, "pic")
  BY <1>0 DEF Done, EditsApart, IsSeq
<1> HIDE DEF D, pictures
<1>4. Kept(ReplayChartEdits(pictures), D \union Done(chartEdits, Len(chartEdits)))
  BY <1>2, <1>3, ChartReplayKeeps
<1>5. Kept(ApplyChartChanges(pictures), D \union Done(chartEdits, Len(chartEdits)))
  BY <1>4, ChartAppendsKeep, WriteDrawingsKeeps DEF ApplyChartChanges
<1> QED BY <1>5 DEF Output, AllDone, D, pictures
-----------------------------------------------------------------------------
(* What the saved package is *)

LEMMA PatchedIs ==
  ASSUME NEW out
  PROVE  LET P == Patched(out) IN
         /\ DOMAIN P = {"owned", "anchors", "rels", "parts"}
         /\ P.owned = package.owned /\ P.anchors = out.anchors /\ P.rels = out.rels
         /\ DOMAIN P.parts = DOMAIN out.parts \union (DOMAIN package.parts \ out.dropped)
         /\ \A q \in DOMAIN package.parts :
              q \notin out.dropped \union DOMAIN out.parts => P.parts[q] = package.parts[q]
BY DEF Patched, Over, Without

LEMMA PatchedIsRegular ==
  ASSUME NEW out, NEW D, Regular(package), Kept(out, D)
  PROVE  Regular(Patched(out))
<1> DEFINE P == Patched(out)
<1>0. /\ KeptShape(out) /\ KeptDrawings(out) /\ KeptRels(out) /\ KeptParts(out, D)
  BY DEF Kept
<1>1. /\ DOMAIN P = {"owned", "anchors", "rels", "parts"}
      /\ P.owned = package.owned /\ P.anchors = out.anchors /\ P.rels = out.rels
      /\ DOMAIN P.parts = DOMAIN out.parts \union (DOMAIN package.parts \ out.dropped)
  BY PatchedIs
<1> HIDE DEF P
<1>2. /\ DOMAIN P.anchors = DOMAIN package.anchors /\ DOMAIN P.rels = DOMAIN package.rels
  BY <1>0, <1>1 DEF KeptShape
<1>3. RegularParts(DOMAIN P.parts)
  <2>1. RegularParts(DOMAIN out.parts) /\ RegularParts(DOMAIN package.parts)
    BY <1>0 DEF KeptParts, Regular
  <2>2. IsFiniteSet(DOMAIN package.parts \ out.dropped)
    BY <2>1, FS_Subset DEF RegularParts
  <2>a. IsFiniteSet(DOMAIN out.parts)
    BY <2>1 DEF RegularParts
  <2>b. IsFiniteSet(DOMAIN out.parts \union (DOMAIN package.parts \ out.dropped))
    BY ONLY <2>a, <2>2, FS_Union
  <2>3. IsFiniteSet(DOMAIN P.parts)
    BY <1>1, <2>b
  <2> QED BY <1>1, <2>1, <2>3 DEF RegularParts
<1>4. ASSUME NEW d \in DOMAIN P.rels
      PROVE  RegularRels(P.rels[d], DOMAIN P.parts)
  <2>1. d \in DOMAIN package.rels
    BY <1>2
  <2>2. \A r \in DOMAIN out.rels[d] : out.rels[d][r] \in DOMAIN P.parts
    <3>1. ASSUME NEW r \in DOMAIN out.rels[d] PROVE out.rels[d][r] \in DOMAIN P.parts
      <4>1. FromPackage(out, d, r) \/ out.rels[d][r] \in NewParts(out)
        BY <1>0, <2>1 DEF KeptRels
      <4>2. CASE out.rels[d][r] \in NewParts(out)
        BY <1>1, <4>2 DEF NewParts
      <4>3. CASE FromPackage(out, d, r)
        BY <1>1, <2>1, <4>3 DEF FromPackage, Regular, RegularRels
      <4> QED BY <4>1, <4>2, <4>3
    <3> QED BY <3>1
  <2> QED BY <1>0, <1>1, <2>1, <2>2 DEF KeptRels, RegularRels
<1>5. /\ P.owned \in Seq(DOMAIN P.anchors)
      /\ IsFiniteSet(DOMAIN P.anchors) /\ DOMAIN P.anchors \subseteq Nat
      /\ DOMAIN P.rels = DOMAIN P.anchors
  BY <1>1, <1>2 DEF Regular
<1>6. \A d \in Range(P.owned) : /\ RegularDrawing(P.anchors[d], P.rels[d])
                                /\ ChartsApart(P.anchors, P.rels, d)
  BY <1>0, <1>1 DEF KeptDrawings
<1>7. Regular(P)
  BY <1>1, <1>3, <1>4, <1>5, <1>6 DEF Regular
<1> QED BY <1>7 DEF P

\* An anchor no edit is for, its relationship and its part.
LEMMA PatchedKeepsUntouched ==
  ASSUME IInv, NEW out, Kept(out, AllDone)
  PROVE  KeepsUntouched(Patched(out))
<1> DEFINE P == Patched(out)
<1>0. /\ Regular(package) /\ KeptShape(out) /\ KeptParts(out, AllDone) /\ KeptOthers(out, AllDone)
      /\ EditsApart(imageEdits, "pic") /\ EditsApart(chartEdits, "chart")
      /\ "pic" \in Kinds /\ "chart" \in Kinds
  BY DEF Kept, IInv, Kinds
<1>1. /\ P.anchors = out.anchors /\ P.rels = out.rels
      /\ DOMAIN P.parts = DOMAIN out.parts \union (DOMAIN package.parts \ out.dropped)
      /\ \A q \in DOMAIN package.parts :
           q \notin out.dropped \union DOMAIN out.parts => P.parts[q] = package.parts[q]
  BY PatchedIs
<1> HIDE DEF P
<1>2. \A o \in AllDone : /\ \E k \in Kinds : IsOrigin(o, k)
                         /\ Edited(o.drawing, o.id)
  <2>1. ASSUME NEW o \in Done(imageEdits, Len(imageEdits))
        PROVE  IsOrigin(o, "pic") /\ Edited(o.drawing, o.id)
    BY <1>0 DEF Done, EditsApart, IsSeq, Edited, Range
  <2>2. ASSUME NEW o \in Done(chartEdits, Len(chartEdits))
        PROVE  IsOrigin(o, "chart") /\ Edited(o.drawing, o.id)
    BY <1>0, SMTT(30) DEF Done, EditsApart, IsSeq, Edited, Range
  <2> QED BY <1>0, <2>1, <2>2 DEF AllDone
<1>3. ASSUME NEW d \in Range(package.owned), NEW i \in DOMAIN package.anchors[d],
             ~Edited(d, package.anchors[d][i].id)
      PROVE  LET a == package.anchors[d][i] IN
             /\ a \in Range(P.anchors[d])
             /\ Resolves(package, d, a) =>
                  /\ Resolves(P, d, a)
                  /\ P.rels[d][a.rel] = package.rels[d][a.rel]
                  /\ P.parts[P.rels[d][a.rel]] = package.parts[package.rels[d][a.rel]]
  <2> DEFINE a == package.anchors[d][i]
  <2>1. \A o \in AllDone : ~(o.drawing = d /\ o.id = a.id)
    BY <1>2, <1>3
  <2>2. a \in Range(P.anchors[d])
    BY <1>0, <1>1, <2>1 DEF KeptOthers
  <2>3. ASSUME Resolves(package, d, a)
        PROVE  /\ Resolves(P, d, a)
               /\ P.rels[d][a.rel] = package.rels[d][a.rel]
               /\ P.parts[P.rels[d][a.rel]] = package.parts[package.rels[d][a.rel]]
    <3> DEFINE part == package.rels[d][a.rel]
    <3>1. /\ d \in DOMAIN package.rels /\ RegularDrawing(package.anchors[d], package.rels[d])
          /\ RegularRels(package.rels[d], DOMAIN package.parts)
      BY <1>0 DEF Regular, Range
    <3>2. a.rel \in DOMAIN package.rels[d] /\ part \in DOMAIN package.parts
      BY <2>3 DEF Resolves
    <3>3. a.kind # "shape"
      BY <3>1, <3>2 DEF RegularDrawing, RegularRels
    <3>4. \A o \in AllDone : ~(o.drawing = d /\ o.rel = a.rel)
      <4>1. ASSUME NEW o \in AllDone, o.drawing = d, o.rel = a.rel PROVE FALSE
        <5>1. PICK k \in Kinds : IsOrigin(o, k)
          BY <1>2
        <5>2. PICK j \in DOMAIN package.anchors[d] :
                package.anchors[d][j].id = o.id /\ package.anchors[d][j].rel = o.rel
          BY <1>0, <4>1, <5>1, OriginIs
        <5>3. j = i
          BY <3>1, <3>3, <4>1, <5>2 DEF RegularDrawing
        <5> QED BY <2>1, <4>1, <5>2, <5>3
      <4> QED BY <4>1
    <3>5. a.rel \in DOMAIN out.rels[d] /\ out.rels[d][a.rel] = part
      BY <1>0, <3>1, <3>2, <3>4 DEF KeptOthers
    <3>6. part \notin out.dropped \union DOMAIN out.parts
      <4>1. SUFFICES ASSUME part \in out.dropped \union DOMAIN out.parts PROVE FALSE
        OBVIOUS
      <4>2. PICK o \in AllDone : o.part = part /\ ~Shared(o)
        BY <1>0, <3>2, <4>1 DEF KeptParts
      <4>3. o.drawing = d /\ o.rel = a.rel
        BY <3>1, <3>2, <4>2 DEF Shared
      <4> QED BY <3>4, <4>3
    <3> HIDE DEF a
    <3> QED BY <1>1, <3>2, <3>5, <3>6 DEF Resolves
  <2> QED BY <2>2, <2>3
<1>4. ASSUME NEW d \in Range(package.owned), NEW a \in Range(package.anchors[d]), ~Edited(d, a.id)
      PROVE  /\ a \in Range(P.anchors[d])
             /\ Resolves(package, d, a) =>
                  /\ Resolves(P, d, a)
                  /\ P.rels[d][a.rel] = package.rels[d][a.rel]
                  /\ P.parts[P.rels[d][a.rel]] = package.parts[package.rels[d][a.rel]]
  <2>1. PICK i \in DOMAIN package.anchors[d] : package.anchors[d][i] = a
    BY DEF Range
  <2> QED BY <1>3, <1>4, <2>1
<1>5. KeepsUntouched(P)
  BY <1>4 DEF KeepsUntouched
<1> QED BY <1>5 DEF P

LEMMA RegularIsWellFormed ==
  ASSUME NEW P, Regular(P)
  PROVE  WellFormed(P)
<1>1. ASSUME NEW d \in Range(P.owned)
      PROVE  /\ \A a, b \in DOMAIN P.anchors[d] : a # b => P.anchors[d][a].id # P.anchors[d][b].id
             /\ \A a \in Range(P.anchors[d]) : a.kind # "shape" => Resolves(P, d, a)
  <2>1. /\ RegularDrawing(P.anchors[d], P.rels[d]) /\ d \in DOMAIN P.rels
        /\ RegularRels(P.rels[d], DOMAIN P.parts)
    BY DEF Regular, Range
  <2>2. ASSUME NEW i \in DOMAIN P.anchors[d], P.anchors[d][i].kind # "shape"
        PROVE  Resolves(P, d, P.anchors[d][i])
    BY <2>1, <2>2 DEF RegularDrawing, RegularRels, Resolves
  <2> QED BY <2>1, <2>2 DEF RegularDrawing, Range
<1>2. \A d \in DOMAIN P.rels : Range(P.rels[d]) \subseteq DOMAIN P.parts
  BY DEF Regular, RegularRels, Range
<1> QED BY <1>1, <1>2 DEF WellFormed

\* A part that one relationship led to is not left behind.
LEMMA PatchedLeavesNoOrphan ==
  ASSUME NEW out, NEW D, Regular(package), Kept(out, D),
         NEW part \in Orphans(Patched(out)) \ Orphans(package)
  PROVE  ~LedToOnce(part)
<1> DEFINE P == Patched(out)
           pairs == UNION {{d} \X DOMAIN package.rels[d] : d \in DOMAIN package.rels}
           leading == {x \in pairs : package.rels[x[1]][x[2]] = part}
<1>0. /\ KeptShape(out) /\ KeptParts(out, D) /\ KeptLinks(out)
  BY DEF Kept
<1>1. /\ P.rels = out.rels
      /\ DOMAIN P.parts = DOMAIN out.parts \union (DOMAIN package.parts \ out.dropped)
  BY PatchedIs
<1> HIDE DEF P
<1>2. SUFFICES ASSUME LedToOnce(part) PROVE FALSE
  OBVIOUS
<1>3. IsFiniteSet(leading)
  <2> DEFINE f == [d \in DOMAIN package.rels |-> {d} \X DOMAIN package.rels[d]]
             sets == {{d} \X DOMAIN package.rels[d] : d \in DOMAIN package.rels}
  <2>1. f \in Surjection(DOMAIN package.rels, sets)
    BY DEF Surjection
  <2>2. IsFiniteSet(DOMAIN package.rels)
    BY DEF Regular
  <2>3. IsFiniteSet(sets)
    BY <2>1, <2>2, FS_Surjection
  <2>4. ASSUME NEW d \in DOMAIN package.rels PROVE IsFiniteSet({d} \X DOMAIN package.rels[d])
    <3>1. IsFiniteSet(DOMAIN package.rels[d]) /\ IsFiniteSet({d})
      BY FS_Singleton DEF Regular, RegularRels
    <3> QED BY <3>1, FS_Product
  <2>5. \A T \in sets : IsFiniteSet(T)
    BY <2>4
  <2>6. IsFiniteSet(pairs)
    <3> HIDE DEF sets
    <3>1. IsFiniteSet(UNION sets)
      BY <2>3, <2>5, FS_UNION
    <3> QED BY <3>1 DEF sets
  <2> QED BY <2>6, FS_Subset
<1>4. Cardinality(leading) = 1
  BY <1>2 DEF LedToOnce
<1>5. PICK x : leading = {x}
  <2> HIDE DEF leading
  <2> QED BY <1>3, <1>4, FS_Singleton
<1>6. PICK d \in DOMAIN package.rels : x \in {d} \X DOMAIN package.rels[d]
  BY <1>5
<1> DEFINE r == x[2]
<1>7. x = <<d, r>> /\ r \in DOMAIN package.rels[d] /\ package.rels[d][r] = part
  <2>1. x[1] = d /\ x[2] \in DOMAIN package.rels[d] /\ x = <<x[1], x[2]>>
    BY <1>6
  <2>2. x \in leading
    BY <1>5
  <2> QED BY <2>1, <2>2
<1>8. LeadsAlone(package.rels, d, r)
  <2>1. ASSUME NEW e \in DOMAIN package.rels, NEW q \in DOMAIN package.rels[e],
               package.rels[e][q] = package.rels[d][r]
        PROVE  e = d /\ q = r
    <3>1. <<e, q>> \in pairs
      OBVIOUS
    <3>2. <<e, q>> \in leading
      BY <1>7, <2>1, <3>1
    <3>3. <<e, q>> = <<d, r>>
      BY <1>5, <1>7, <3>2
    <3> QED BY <3>3
  <2> HIDE DEF r
  <2> QED BY <2>1 DEF LeadsAlone
<1> HIDE DEF r, leading, pairs
<1>9. \/ r \in DOMAIN out.rels[d] /\ out.rels[d][r] = part
      \/ part \in out.dropped
  BY <1>0, <1>7, <1>8 DEF KeptLinks
<1>10. part \in DOMAIN P.parts /\ \A e \in DOMAIN P.rels : part \notin Range(P.rels[e])
  BY DEF Orphans, P
<1>11. ~(r \in DOMAIN out.rels[d] /\ out.rels[d][r] = part)
  BY <1>0, <1>1, <1>10 DEF KeptShape, Range
<1>12. part \notin out.dropped
  BY <1>0, <1>1, <1>10 DEF KeptParts
<1> QED BY <1>9, <1>11, <1>12

\* A drawing of the worksheet's own, next to the preserved ones.
LEMMA RegeneratedIsRegular ==
  ASSUME IInv
  PROVE  Regular(Regenerated)
<1> DEFINE m == NextNumber("media", DOMAIN package.parts) - 1
           c == NextNumber("chart", DOMAIN package.parts) - 1
           d == 1 + Max({0} \union DOMAIN package.anchors)
           p == Len(images)
           q == p + Len(charts)
           h == q + Len(shapes)
           media(i) == <<"media", m + i, images[i].ext>>
           chart(i) == <<"chart", c + i, "xml">>
           anchor(k) ==
             CASE k <= p -> [id |-> k, kind |-> "pic", rel |-> k, place |-> images[k].place,
                             size |-> images[k].size, text |-> None]
               [] k > p /\ k <= q -> [id |-> k, kind |-> "chart", rel |-> k, place |-> None,
                                      size |-> charts[k - p].size, text |-> None]
               [] OTHER -> [id |-> k, kind |-> "shape", rel |-> 0, place |-> None,
                            size |-> None, text |-> shapes[k - q]]
           A == [k \in 1 .. h |-> anchor(k)]
           L == [k \in 1 .. q |-> IF k <= p THEN media(k) ELSE chart(k - p)]
           M == {media(i) : i \in 1 .. p}
           C == {chart(i) : i \in 1 .. Len(charts)}
           parts == Over([part \in M |-> images[part[2] - m].bytes],
                    Over([part \in C |-> charts[part[2] - c].title], package.parts))
           P == [owned |-> <<d>>, anchors |-> Put(package.anchors, d, A),
                 rels |-> Put(package.rels, d, L), parts |-> parts]
<1>0. /\ Regular(package) /\ p \in Nat /\ Len(charts) \in Nat /\ Len(shapes) \in Nat
      /\ q \in Nat /\ h \in Nat /\ p <= q /\ q <= h
  <2>1. /\ images \in Seq(Range(images)) /\ charts \in Seq(Range(charts))
        /\ shapes \in Seq(Range(shapes)) /\ Regular(package)
    BY DEF IInv, FromAnchors, IsSeq
  <2>2. p \in Nat /\ Len(charts) \in Nat /\ Len(shapes) \in Nat
    BY <2>1
  <2> QED BY <2>1, <2>2
<1>1. CASE ~NeedsDrawing
  <2>1. Regenerated = [package EXCEPT !.owned = <<>>]
    BY <1>1 DEF Regenerated
  <2> DEFINE N == [package EXCEPT !.owned = <<>>]
  <2>2. /\ DOMAIN N = {"owned", "anchors", "rels", "parts"} /\ N.owned = <<>>
        /\ N.anchors = package.anchors /\ N.rels = package.rels /\ N.parts = package.parts
    BY <1>0 DEF Regular
  <2> HIDE DEF N
  <2>3. N.owned \in Seq(DOMAIN N.anchors) /\ Range(N.owned) = {}
    BY <2>2 DEF Range
  <2>4. Regular(N)
    BY <1>0, <2>2, <2>3 DEF Regular
  <2> QED BY <2>1, <2>4 DEF N
<1>2. CASE NeedsDrawing
  <2>1. Regenerated = P
    BY <1>2 DEF Regenerated
  <2>2. m \in Nat /\ c \in Nat
        /\ \A x \in DOMAIN package.parts :
             (x[1] = "media" => x[2] <= m) /\ (x[1] = "chart" => x[2] <= c)
    <3>1. RegularParts(DOMAIN package.parts)
      BY <1>0 DEF Regular
    <3>2. /\ NextNumber("media", DOMAIN package.parts) \in Nat \ {0}
          /\ \A x \in DOMAIN package.parts : x[1] = "media" => x[2] < NextNumber("media", DOMAIN package.parts)
      BY <3>1, NumberIsNew
    <3>3. /\ NextNumber("chart", DOMAIN package.parts) \in Nat \ {0}
          /\ \A x \in DOMAIN package.parts : x[1] = "chart" => x[2] < NextNumber("chart", DOMAIN package.parts)
      BY <3>1, NumberIsNew
    <3>4. \A x \in DOMAIN package.parts : x[2] \in Nat
      BY <3>1 DEF RegularParts
    <3> QED BY <3>2, <3>3, <3>4
  <2>3. d \in Nat /\ d \notin DOMAIN package.anchors
    <3>1. Max({0} \union DOMAIN package.anchors) \in Nat
          /\ \A n \in DOMAIN package.anchors : n \in Nat /\ n <= Max({0} \union DOMAIN package.anchors)
      BY <1>0, AboveAll DEF Regular
    <3> DEFINE x == Max({0} \union DOMAIN package.anchors)
    <3>2. x \in Nat /\ d = 1 + x /\ \A n \in DOMAIN package.anchors : n <= x
      BY <3>1
    <3> HIDE DEF x, d
    <3>3. d \in Nat /\ ~(d <= x)
      BY <3>2
    <3> QED BY <3>2, <3>3
  <2> HIDE DEF m, c, d, p, q, h
  <2>4. \A k \in 1 .. h :
          /\ DOMAIN A[k] = AnchorFields /\ A[k].id = k
          /\ k <= q => A[k].kind # "shape" /\ A[k].rel = k
          /\ k > q => A[k].kind = "shape" /\ A[k].rel = 0
          /\ A[k].kind = "chart" => k > p /\ k <= q
    BY <1>0 DEF AnchorFields
  <2>5. IsSeq(A) /\ DOMAIN A = 1 .. h /\ DOMAIN L = 1 .. q
    <3> HIDE DEF anchor
    <3>1. A = [k \in 1 .. h |-> A[k]]
      OBVIOUS
    <3> QED BY <1>0, <3>1, FunctionIsSeq
  <2>6. RegularDrawing(A, L)
    <3> HIDE DEF A, L
    <3>1. \A k \in 1 .. h : k \in Nat /\ k # 0 /\ (k <= q => k \in 1 .. q)
      BY <1>0
    <3>2. \A k \in DOMAIN A : /\ A[k].id \in Nat
                              /\ IF A[k].kind = "shape" THEN A[k].rel = 0 ELSE A[k].rel \in DOMAIN L
      BY <1>0, <2>4, <2>5, <3>1
    <3>3. \A k, j \in DOMAIN A : k # j =>
            /\ A[k].id # A[j].id
            /\ A[k].kind # "shape" => A[k].rel # A[j].rel
      BY <1>0, <2>4, <2>5, <3>1
    <3> QED BY <2>4, <2>5, <3>2, <3>3 DEF RegularDrawing, IsSeq
  <2>7. \A k \in 1 .. q : L[k] \in M \union C
    <3>1. ASSUME NEW k \in 1 .. q PROVE L[k] \in M \union C
      <4>1. CASE k <= p
        <5>1. k \in 1 .. p
          BY <1>0, <4>1
        <5> QED BY <4>1, <5>1
      <4>2. CASE ~(k <= p)
        <5>1. k - p \in 1 .. Len(charts)
          BY <1>0, <4>2 DEF q
        <5> QED BY <4>2, <5>1
      <4> QED BY <4>1, <4>2
    <3> HIDE DEF L, M, C
    <3> QED BY <3>1
  <2>8. \A k \in 1 .. q : k > p => L[k] = <<"chart", c + (k - p), "xml">>
    BY <1>0
  <2>9. \A k \in 1 .. q : k <= p => L[k][1] = "media"
    BY <1>0
  <2>10. IsFiniteSet(M) /\ IsFiniteSet(C)
    <3> DEFINE f == [i \in 1 .. p |-> media(i)]
               g == [i \in 1 .. Len(charts) |-> chart(i)]
    <3>1. f \in Surjection(1 .. p, M) /\ g \in Surjection(1 .. Len(charts), C)
      BY DEF Surjection
    <3>2. IsFiniteSet(1 .. p) /\ IsFiniteSet(1 .. Len(charts))
      BY <1>0, FS_Interval
    <3> HIDE DEF f, g, M, C
    <3> QED BY <3>1, <3>2, FS_Surjection
  <2>11. \A x \in M \union C : x[2] \in Nat
    BY <1>0, <2>2
  <2>12. DOMAIN parts = M \union (C \union DOMAIN package.parts)
    BY DEF Over
  <2> HIDE DEF A, L, M, C, parts
  <2>13. RegularParts(DOMAIN parts)
    <3>1. IsFiniteSet(DOMAIN package.parts) /\ \A x \in DOMAIN package.parts : x[2] \in Nat
      BY <1>0 DEF Regular, RegularParts
    <3>2. IsFiniteSet(C \union DOMAIN package.parts)
      BY <2>10, <3>1, FS_Union
    <3>3. IsFiniteSet(M \union (C \union DOMAIN package.parts))
      BY <2>10, <3>2, FS_Union
    <3> QED BY <2>11, <2>12, <3>1, <3>3 DEF RegularParts
  <2>14. /\ DOMAIN P.anchors = DOMAIN package.anchors \union {d} /\ P.anchors[d] = A
         /\ DOMAIN P.rels = DOMAIN package.rels \union {d} /\ P.rels[d] = L
         /\ \A e \in DOMAIN package.rels : e # d /\ P.rels[e] = package.rels[e]
         /\ P.owned = <<d>> /\ P.parts = parts
         /\ DOMAIN P = {"owned", "anchors", "rels", "parts"}
    <3>1. DOMAIN package.rels = DOMAIN package.anchors
      BY <1>0 DEF Regular
    <3> QED BY <2>3, <3>1 DEF Put, Over
  <2> HIDE DEF P
  <2>15. P.owned \in Seq(DOMAIN P.anchors) /\ Range(P.owned) = {d}
    BY <2>14 DEF Range
  <2>16. IsFiniteSet(DOMAIN P.anchors) /\ DOMAIN P.anchors \subseteq Nat /\ DOMAIN P.rels = DOMAIN P.anchors
    <3>1. IsFiniteSet(DOMAIN package.anchors) /\ DOMAIN package.anchors \subseteq Nat
          /\ DOMAIN package.rels = DOMAIN package.anchors
      BY <1>0 DEF Regular
    <3>2. IsFiniteSet(DOMAIN package.anchors \union {d})
      BY <3>1, FS_AddElement
    <3> QED BY <2>3, <2>14, <3>1, <3>2
  <2>17. ASSUME NEW e \in DOMAIN P.rels PROVE RegularRels(P.rels[e], DOMAIN P.parts)
    <3>1. CASE e = d
      <4>1. IsFiniteSet(1 .. q)
        <5>1. 1 \in Int /\ q \in Int
          BY <1>0
        <5> QED BY <5>1, FS_Interval
      <4>2. 1 .. q \subseteq Nat \ {0}
        BY <1>0
      <4> QED BY <2>5, <2>7, <2>12, <2>14, <3>1, <4>1, <4>2 DEF RegularRels
    <3>2. CASE e # d
      <4>1. e \in DOMAIN package.rels /\ P.rels[e] = package.rels[e]
        BY <2>14, <3>2
      <4>2. RegularRels(package.rels[e], DOMAIN package.parts)
        BY <1>0, <4>1 DEF Regular
      <4>3. DOMAIN package.parts \subseteq DOMAIN P.parts
        BY <2>12, <2>14
      <4> QED BY <4>1, <4>2, <4>3 DEF RegularRels
    <3> QED BY <3>1, <3>2
  <2>18. ChartsApart(P.anchors, P.rels, d)
    <3>1. ASSUME NEW k \in 1 .. h, A[k].kind = "chart"
          PROVE  LeadsAlone(P.rels, d, A[k].rel)
      <4>1. k > p /\ k <= q /\ A[k].rel = k /\ k \in 1 .. q
        BY <1>0, <2>4, <3>1
      <4>2. L[k] = <<"chart", c + (k - p), "xml">> /\ k - p \in Nat /\ k - p > 0
        BY <1>0, <2>8, <4>1
      <4>3. L[k] \notin DOMAIN package.parts
        <5>1. SUFFICES ASSUME L[k] \in DOMAIN package.parts PROVE FALSE
          OBVIOUS
        <5>2. L[k][1] = "chart" /\ L[k][2] = c + (k - p)
          BY <4>2
        <5>3. c + (k - p) <= c
          BY <2>2, <5>1, <5>2
        <5> QED BY <2>2, <4>2, <5>3
      <4>4. ASSUME NEW e \in DOMAIN P.rels, NEW r \in DOMAIN P.rels[e], P.rels[e][r] = L[k]
            PROVE  e = d /\ r = k
        <5>1. CASE e # d
          <6>1. e \in DOMAIN package.rels /\ P.rels[e] = package.rels[e]
            BY <2>14, <5>1
          <6>2. P.rels[e][r] \in DOMAIN package.parts
            BY <1>0, <4>4, <6>1 DEF Regular, RegularRels
          <6> QED BY <4>3, <4>4, <6>2
        <5>2. CASE e = d
          <6>1. r \in 1 .. q /\ L[r] = L[k]
            BY <2>5, <2>14, <4>4, <5>2
          <6>2. r > p
            <7>1. ~(r <= p)
              <8>1. SUFFICES ASSUME r <= p PROVE FALSE
                OBVIOUS
              <8>2. L[k][1] = "media"
                BY <2>9, <6>1, <8>1
              <8>3. L[k][1] = "chart"
                BY <4>2
              <8> QED BY <8>2, <8>3
            <7> QED BY <1>0, <6>1, <7>1
          <6>3. L[r] = <<"chart", c + (r - p), "xml">>
            BY <2>8, <6>1, <6>2
          <6>4. c + (r - p) = c + (k - p)
            BY <4>2, <6>1, <6>3
          <6>5. r = k
            BY <1>0, <2>2, <4>1, <6>1, <6>4
          <6> QED BY <5>2, <6>5
        <5> QED BY <5>1, <5>2
      <4> QED BY <2>14, <4>1, <4>4 DEF LeadsAlone
    <3> QED BY <2>5, <2>14, <3>1 DEF ChartsApart
  <2>19. Regular(P)
    BY <2>6, <2>13, <2>14, <2>15, <2>16, <2>17, <2>18 DEF Regular
  <2> QED BY <2>1, <2>19
<1> QED BY <1>1, <1>2

LEMMA SavedIsRegular ==
  ASSUME IInv
  PROVE  Regular(Saved)
<1>1. CASE Preserve
  <2>1. Saved = Patched(Output)
    BY <1>1 DEF Saved
  <2>2. Regular(package)
    BY DEF IInv
  <2>3. Kept(Output, AllDone)
    BY <1>1, OutputIsKept
  <2> QED BY <2>1, <2>2, <2>3, PatchedIsRegular
<1>2. CASE ~Preserve
  BY <1>2, RegeneratedIsRegular DEF Saved
<1> QED BY <1>1, <1>2
-----------------------------------------------------------------------------
(* What a load makes of a package *)

\* An entry of the list a reader makes of the anchors of a kind.
IsFound(P, kind, x) ==
  \E d \in Range(P.owned) : \E i \in DOMAIN P.anchors[d] :
    /\ x = [drawing |-> d, anchor |-> P.anchors[d][i]]
    /\ P.anchors[d][i].kind = kind
    /\ P.anchors[d][i].rel \in DOMAIN P.rels[d]

AllFound(P, kind, s) == IsSeq(s) /\ \A i \in DOMAIN s : IsFound(P, kind, s[i])

LEMMA NothingFound ==
  ASSUME NEW P, NEW kind
  PROVE  AllFound(P, kind, <<>>)
BY DEF AllFound, IsSeq

LEMMA OneMoreFound ==
  ASSUME NEW P, NEW kind, NEW s, AllFound(P, kind, s), NEW x, IsFound(P, kind, x)
  PROVE  AllFound(P, kind, Append(s, x))
<1>1. s \in Seq(Range(s))
  BY DEF AllFound, IsSeq
<1>2. s \in Seq(Range(s) \union {x}) /\ x \in Range(s) \union {x}
  BY <1>1
<1> DEFINE t == Append(s, x)
<1>3. /\ t \in Seq(Range(s) \union {x}) /\ DOMAIN t = 1 .. Len(s) + 1 /\ DOMAIN s = 1 .. Len(s)
      /\ Len(s) \in Nat
      /\ \A i \in 1 .. Len(s) + 1 : t[i] = IF i = Len(s) + 1 THEN x ELSE s[i]
  BY <1>2
<1> HIDE DEF t
<1>4. \A i \in DOMAIN t : IsFound(P, kind, t[i])
  BY <1>3 DEF AllFound
<1>5. t \in Seq(Range(t))
  BY <1>3 DEF Range
<1> QED BY <1>4, <1>5 DEF AllFound, IsSeq, t

LEMMA MoreFound ==
  ASSUME NEW P, NEW kind, NEW s, AllFound(P, kind, s), NEW t, AllFound(P, kind, t)
  PROVE  AllFound(P, kind, s \o t)
<1> DEFINE S == Range(s) \union Range(t)
           u == s \o t
<1>1. s \in Seq(Range(s)) /\ t \in Seq(Range(t))
  BY DEF AllFound, IsSeq
<1>2. s \in Seq(S) /\ t \in Seq(S)
  BY <1>1
<1> HIDE DEF S
<1>3. u \in Seq(S) /\ DOMAIN u = 1 .. Len(s) + Len(t) /\ Len(s) \in Nat /\ Len(t) \in Nat
      /\ DOMAIN s = 1 .. Len(s) /\ DOMAIN t = 1 .. Len(t)
  BY <1>2
<1>4. ASSUME NEW i \in DOMAIN u PROVE IsFound(P, kind, u[i])
  <2>1. i \in 1 .. Len(s) + Len(t)
    BY <1>3
  <2>2. u[i] = IF i <= Len(s) THEN s[i] ELSE t[i - Len(s)]
    BY ONLY <1>2, <2>1, ConcatenationAt DEF u
  <2>3. CASE i <= Len(s)
    BY <1>3, <2>1, <2>2, <2>3 DEF AllFound
  <2>4. CASE ~(i <= Len(s))
    <3>1. i - Len(s) \in DOMAIN t
      BY <1>3, <2>1, <2>4
    <3> QED BY <2>2, <2>4, <3>1 DEF AllFound
  <2> QED BY <2>3, <2>4
<1> HIDE DEF u
<1>5. u \in Seq(Range(u))
  BY <1>3 DEF Range
<1> QED BY <1>4, <1>5 DEF AllFound, IsSeq, u

\* One step of the reader of a drawing.
Accepted(P, d, kind, s, n) ==
  LET a == P.anchors[d][n]
  IN  IF a.kind = kind /\ Resolves(P, d, a)
      THEN Append(s, [drawing |-> d, anchor |-> a])
      ELSE s

Reads(P, d, kind, f) ==
  f = [n \in 0 .. Len(P.anchors[d]) |->
         IF n = 0 THEN <<>> ELSE Accepted(P, d, kind, f[n - 1], n)]

LEMMA AcceptedExists ==
  ASSUME NEW P, NEW d, NEW kind, Len(P.anchors[d]) \in Nat
  PROVE  \E f : Reads(P, d, kind, f)
<1> DEFINE Runs(N, f) == f = [n \in 0 .. N |-> IF n = 0 THEN <<>> ELSE Accepted(P, d, kind, f[n - 1], n)]
           S == {N \in Nat : \E f : Runs(N, f)}
<1> HIDE DEF S
<1>1. 0 \in S
  <2>1. Runs(0, [n \in 0 .. 0 |-> <<>>])
    OBVIOUS
  <2> QED BY <2>1 DEF S
<1>2. ASSUME NEW N \in Nat, N \in S PROVE N + 1 \in S
  <2>1. PICK g : Runs(N, g)
    BY <1>2 DEF S
  <2> DEFINE h == [n \in 0 .. N + 1 |-> IF n = N + 1 THEN Accepted(P, d, kind, g[N], n) ELSE g[n]]
  <2>2. Runs(N + 1, h)
    <3>1. ASSUME NEW n \in 0 .. N + 1
          PROVE  h[n] = IF n = 0 THEN <<>> ELSE Accepted(P, d, kind, h[n - 1], n)
      <4>1. CASE n = N + 1
        <5>1. n # 0 /\ n - 1 = N /\ n - 1 \in 0 .. N + 1 /\ n - 1 # N + 1
          BY <4>1
        <5> QED BY <4>1, <5>1
      <4>2. CASE n # N + 1
        <5>1. n \in 0 .. N /\ n - 1 # N + 1 /\ (n # 0 => n - 1 \in 0 .. N + 1)
          BY <4>2
        <5>2. g[n] = IF n = 0 THEN <<>> ELSE Accepted(P, d, kind, g[n - 1], n)
          BY <2>1, <5>1
        <5> QED BY <4>2, <5>1, <5>2
      <4> QED BY <4>1, <4>2
    <3> QED BY <3>1
  <2> HIDE DEF h, Runs
  <2>3. \E f : Runs(N + 1, f)
    BY <2>2
  <2> QED BY <2>3 DEF S
<1>3. Nat \subseteq S
  BY <1>1, <1>2, NatInd
<1>4. Len(P.anchors[d]) \in S
  BY <1>3
<1> QED BY <1>4 DEF S, Reads

LEMMA AnchorsOfIs ==
  ASSUME NEW P, NEW d, NEW kind, Len(P.anchors[d]) \in Nat
  PROVE  \E f : Reads(P, d, kind, f) /\ AnchorsOf(P, d, kind) = f[Len(P.anchors[d])]
<1>1. \E f : Reads(P, d, kind, f)
  BY AcceptedExists
<1> QED BY ONLY <1>1, ZenonT(60) DEF AnchorsOf, Reads, Accepted

\* The readers find anchors of the drawing they read.
LEMMA DrawingIsRead ==
  ASSUME NEW P, Regular(P), NEW d \in Range(P.owned), NEW kind
  PROVE  AllFound(P, kind, AnchorsOf(P, d, kind))
<1>1. IsSeq(P.anchors[d]) /\ Len(P.anchors[d]) \in Nat /\ DOMAIN P.anchors[d] = 1 .. Len(P.anchors[d])
  BY DEF Regular, RegularDrawing, IsSeq
<1> DEFINE N == Len(P.anchors[d])
<1>2. PICK f : /\ f = [n \in 0 .. N |-> IF n = 0 THEN <<>> ELSE Accepted(P, d, kind, f[n - 1], n)]
               /\ AnchorsOf(P, d, kind) = f[N]
  BY <1>1, AnchorsOfIs DEF Reads
<1> DEFINE S == {n \in Nat : n <= N => AllFound(P, kind, f[n])}
<1>3. 0 \in S
  <2>1. f[0] = <<>>
    BY <1>1, <1>2
  <2> QED BY <2>1, NothingFound
<1>4. ASSUME NEW n \in Nat, n \in S PROVE n + 1 \in S
  <2>1. SUFFICES ASSUME n + 1 <= N PROVE AllFound(P, kind, f[n + 1])
    OBVIOUS
  <2> DEFINE a == P.anchors[d][n + 1]
  <2>2. n + 1 \in 1 .. N /\ n + 1 \in 0 .. N /\ n + 1 # 0 /\ n + 1 - 1 = n /\ n <= N
    BY <1>1, <2>1
  <2>3. AllFound(P, kind, f[n])
    BY <1>4, <2>2
  <2>4. f[n + 1] = Accepted(P, d, kind, f[n], n + 1)
    BY <1>2, <2>2
  <2>5. CASE a.kind = kind /\ Resolves(P, d, a)
    <3>1. f[n + 1] = Append(f[n], [drawing |-> d, anchor |-> a])
      BY <2>4, <2>5 DEF Accepted
    <3>2. IsFound(P, kind, [drawing |-> d, anchor |-> a])
      BY <1>1, <2>2, <2>5 DEF IsFound, Resolves
    <3> QED BY <2>3, <3>1, <3>2, OneMoreFound
  <2>6. CASE ~(a.kind = kind /\ Resolves(P, d, a))
    BY <2>3, <2>4, <2>6 DEF Accepted
  <2> QED BY <2>5, <2>6
<1> HIDE DEF S
<1>5. Nat \subseteq S
  BY <1>3, <1>4, NatInd
<1>6. N \in S
  BY <1>1, <1>5
<1> QED BY <1>1, <1>2, <1>6 DEF S

LEMMA FlattenExists ==
  ASSUME NEW seqs, NEW last \in Nat
  PROVE  \E f : f = [i \in 1 .. last |-> IF i = 1 THEN seqs[i] ELSE f[i - 1] \o seqs[i]]
<1> DEFINE Runs(N, f) == f = [i \in 1 .. N |-> IF i = 1 THEN seqs[i] ELSE f[i - 1] \o seqs[i]]
           S == {N \in Nat : \E f : Runs(N, f)}
<1> HIDE DEF S
<1>1. 0 \in S
  <2>1. Runs(0, [i \in 1 .. 0 |-> seqs])
    OBVIOUS
  <2> QED BY <2>1 DEF S
<1>2. ASSUME NEW N \in Nat, N \in S PROVE N + 1 \in S
  <2>1. PICK g : Runs(N, g)
    BY <1>2 DEF S
  <2> DEFINE h == [i \in 1 .. N + 1 |-> IF i = N + 1 /\ i # 1 THEN g[N] \o seqs[i]
                                        ELSE IF i = 1 THEN seqs[i] ELSE g[i]]
  <2>2. Runs(N + 1, h)
    <3>1. ASSUME NEW i \in 1 .. N + 1
          PROVE  h[i] = IF i = 1 THEN seqs[i] ELSE h[i - 1] \o seqs[i]
      <4>1. CASE i = 1
        BY <4>1
      <4>2. CASE i # 1
        <5>1. i - 1 \in 1 .. N /\ i - 1 \in 1 .. N + 1 /\ i - 1 # N + 1
          BY <4>2
        <5>2. g[i - 1] = IF i - 1 = 1 THEN seqs[i - 1] ELSE g[i - 1 - 1] \o seqs[i - 1]
          BY ONLY <2>1, <5>1
        <5>3. h[i - 1] = g[i - 1]
          BY <5>1, <5>2
        <5>4. CASE i = N + 1
          <6>1. i - 1 = N
            BY <5>4
          <6> QED BY <4>2, <5>3, <5>4, <6>1
        <5>5. CASE i # N + 1
          <6>1. i \in 1 .. N
            BY <5>5
          <6>2. g[i] = IF i = 1 THEN seqs[i] ELSE g[i - 1] \o seqs[i]
            BY ONLY <2>1, <6>1
          <6> QED BY <4>2, <5>3, <5>5, <6>2
        <5> QED BY <5>4, <5>5
      <4> QED BY <4>1, <4>2
    <3> QED BY <3>1
  <2> HIDE DEF h, Runs
  <2>3. \E f : Runs(N + 1, f)
    BY <2>2
  <2> QED BY <2>3 DEF S
<1>3. Nat \subseteq S
  BY <1>1, <1>2, NatInd
<1>4. last \in S
  BY <1>3
<1> QED BY <1>4 DEF S

LEMMA FlattenIs ==
  ASSUME NEW seqs, Len(seqs) \in Nat, Len(seqs) # 0
  PROVE  \E f : /\ f = [i \in 1 .. Len(seqs) |-> IF i = 1 THEN seqs[i] ELSE f[i - 1] \o seqs[i]]
                /\ FlattenSeq(seqs) = f[Len(seqs)]
<1>1. \E f : f = [i \in 1 .. Len(seqs) |-> IF i = 1 THEN seqs[i] ELSE f[i - 1] \o seqs[i]]
  BY FlattenExists
<1> QED BY <1>1, ZenonT(60) DEF FlattenSeq

\* The worksheet's drawings, one after the other.
LEMMA SheetIsRead ==
  ASSUME NEW P, Regular(P), NEW kind
  PROVE  AllFound(P, kind, Found(P, kind))
<1> DEFINE seqs == [k \in DOMAIN P.owned |-> AnchorsOf(P, P.owned[k], kind)]
<1>1. P.owned \in Seq(DOMAIN P.anchors)
  BY DEF Regular
<1>2. Len(P.owned) \in Nat /\ DOMAIN P.owned = 1 .. Len(P.owned)
  BY <1>1
<1>3. IsSeq(seqs) /\ Len(seqs) = Len(P.owned) /\ DOMAIN seqs = 1 .. Len(seqs)
  <2>1. seqs = [k \in 1 .. Len(P.owned) |-> seqs[k]]
    BY <1>2
  <2> HIDE DEF seqs
  <2> QED BY <1>2, <2>1, FunctionIsSeq
<1>4. \A k \in 1 .. Len(seqs) : AllFound(P, kind, seqs[k])
  <2>1. \A k \in DOMAIN P.owned : P.owned[k] \in Range(P.owned)
    BY DEF Range
  <2> QED BY <1>2, <1>3, <2>1, DrawingIsRead
<1>5. Found(P, kind) = FlattenSeq(seqs)
  BY DEF Found
<1> HIDE DEF seqs
<1>6. CASE Len(seqs) = 0
  <2>1. FlattenSeq(seqs) = seqs
    BY <1>6 DEF FlattenSeq
  <2>2. AllFound(P, kind, seqs)
    BY <1>3, <1>6 DEF AllFound
  <2> QED BY <1>5, <2>1, <2>2
<1>7. CASE Len(seqs) # 0
  <2>1. PICK f : /\ f = [i \in 1 .. Len(seqs) |-> IF i = 1 THEN seqs[i] ELSE f[i - 1] \o seqs[i]]
                 /\ FlattenSeq(seqs) = f[Len(seqs)]
    BY <1>2, <1>3, <1>7, FlattenIs
  <2> DEFINE S == {n \in Nat : n \in 1 .. Len(seqs) => AllFound(P, kind, f[n])}
  <2>2. 0 \in S
    OBVIOUS
  <2>3. ASSUME NEW n \in Nat, n \in S PROVE n + 1 \in S
    <3>1. SUFFICES ASSUME n + 1 \in 1 .. Len(seqs) PROVE AllFound(P, kind, f[n + 1])
      OBVIOUS
    <3>2. f[n + 1] = IF n + 1 = 1 THEN seqs[n + 1] ELSE f[n + 1 - 1] \o seqs[n + 1]
      <4> DEFINE j == n + 1
      <4>1. j \in 1 .. Len(seqs)
        BY <3>1
      <4> HIDE DEF j
      <4>2. f[j] = IF j = 1 THEN seqs[j] ELSE f[j - 1] \o seqs[j]
        BY ONLY <2>1, <4>1
      <4> QED BY <4>2 DEF j
    <3>3. AllFound(P, kind, seqs[n + 1])
      BY <1>4, <3>1
    <3>4. CASE n = 0
      BY <3>2, <3>3, <3>4
    <3>5. CASE n # 0
      <4>1. n \in 1 .. Len(seqs) /\ n + 1 - 1 = n /\ n + 1 # 1
        BY <1>2, <1>3, <3>1, <3>5
      <4>2. AllFound(P, kind, f[n])
        BY <2>3, <4>1
      <4>3. AllFound(P, kind, f[n] \o seqs[n + 1])
        BY <3>3, <4>2, MoreFound
      <4> QED BY <3>2, <4>1, <4>3
    <3> QED BY <3>4, <3>5
  <2> HIDE DEF S
  <2>4. Nat \subseteq S
    BY <2>2, <2>3, NatInd
  <2>5. Len(seqs) \in S /\ Len(seqs) \in 1 .. Len(seqs)
    BY <1>2, <1>3, <1>7, <2>4
  <2>6. AllFound(P, kind, f[Len(seqs)])
    BY <2>5 DEF S
  <2> QED BY <1>5, <2>1, <2>6
<1> QED BY <1>6, <1>7

\* A load makes objects that come from anchors of the package.
LEMMA LoadMakesImages ==
  ASSUME NEW P, Regular(P)
  PROVE  /\ IsSeq(ImagesOf(P)) /\ Len(ImagesOf(P)) \in Nat
         /\ \A i \in DOMAIN ImagesOf(P) : /\ DOMAIN ImagesOf(P)[i] = ImageFields
                                          /\ OriginIn(P, ImagesOf(P)[i].source, "pic")
<1> DEFINE found == Found(P, "pic")
           objects == [i \in DOMAIN found |-> ImageOf(P, found[i].drawing, found[i].anchor)]
<1>1. ImagesOf(P) = objects
  BY DEF ImagesOf
<1>2. AllFound(P, "pic", found)
  BY SheetIsRead
<1> HIDE DEF found
<1>3. Len(found) \in Nat /\ DOMAIN found = 1 .. Len(found)
  BY <1>2 DEF AllFound, IsSeq
<1>4. IsSeq(objects) /\ Len(objects) \in Nat
  <2>1. objects = [i \in 1 .. Len(found) |-> objects[i]]
    BY <1>3
  <2> HIDE DEF objects
  <2> QED BY <1>3, <2>1, FunctionIsSeq
<1>5. ASSUME NEW i \in DOMAIN found
      PROVE  DOMAIN objects[i] = ImageFields /\ OriginIn(P, objects[i].source, "pic")
  <2>1. IsFound(P, "pic", found[i])
    BY <1>2 DEF AllFound
  <2>2. PICK d \in Range(P.owned) : \E k \in DOMAIN P.anchors[d] :
           /\ found[i] = [drawing |-> d, anchor |-> P.anchors[d][k]]
           /\ P.anchors[d][k].kind = "pic"
           /\ P.anchors[d][k].rel \in DOMAIN P.rels[d]
    BY <2>1 DEF IsFound
  <2>3. PICK k \in DOMAIN P.anchors[d] :
           /\ found[i] = [drawing |-> d, anchor |-> P.anchors[d][k]]
           /\ P.anchors[d][k].kind = "pic"
           /\ P.anchors[d][k].rel \in DOMAIN P.rels[d]
    BY <2>2
  <2> DEFINE a == P.anchors[d][k]
  <2>4. found[i].drawing = d /\ found[i].anchor = a
    BY <2>3
  <2>5. objects[i] = ImageOf(P, d, a)
    BY <2>4
  <2> HIDE DEF objects
  <2>6. DOMAIN objects[i] = ImageFields /\ objects[i].source = Origin(P, d, a)
    <3>1. DOMAIN ImageOf(P, d, a) = ImageFields
      BY DEF ImageOf, ImageFields
    <3>2. ImageOf(P, d, a).source = Origin(P, d, a)
      BY DEF ImageOf
    <3> QED BY <2>5, <3>1, <3>2
  <2>7. OriginIn(P, Origin(P, d, a), "pic")
    BY <2>3 DEF OriginIn
  <2> QED BY <2>6, <2>7
<1>6. DOMAIN objects = DOMAIN found
  OBVIOUS
<1> HIDE DEF objects
<1> QED BY <1>1, <1>4, <1>5, <1>6

LEMMA LoadMakesCharts ==
  ASSUME NEW P, Regular(P)
  PROVE  /\ IsSeq(ChartsOf(P)) /\ Len(ChartsOf(P)) \in Nat
         /\ \A i \in DOMAIN ChartsOf(P) : /\ DOMAIN ChartsOf(P)[i] = ChartFields
                                          /\ OriginIn(P, ChartsOf(P)[i].source, "chart")
<1> DEFINE found == Found(P, "chart")
           objects == [i \in DOMAIN found |-> ChartAt(P, found[i].drawing, found[i].anchor)]
<1>1. ChartsOf(P) = objects
  BY DEF ChartsOf
<1>2. AllFound(P, "chart", found)
  BY SheetIsRead
<1> HIDE DEF found
<1>3. Len(found) \in Nat /\ DOMAIN found = 1 .. Len(found)
  BY <1>2 DEF AllFound, IsSeq
<1>4. IsSeq(objects) /\ Len(objects) \in Nat
  <2>1. objects = [i \in 1 .. Len(found) |-> objects[i]]
    BY <1>3
  <2> HIDE DEF objects
  <2> QED BY <1>3, <2>1, FunctionIsSeq
<1>5. ASSUME NEW i \in DOMAIN found
      PROVE  DOMAIN objects[i] = ChartFields /\ OriginIn(P, objects[i].source, "chart")
  <2>1. IsFound(P, "chart", found[i])
    BY <1>2 DEF AllFound
  <2>2. PICK d \in Range(P.owned) : \E k \in DOMAIN P.anchors[d] :
           /\ found[i] = [drawing |-> d, anchor |-> P.anchors[d][k]]
           /\ P.anchors[d][k].kind = "chart"
           /\ P.anchors[d][k].rel \in DOMAIN P.rels[d]
    BY <2>1 DEF IsFound
  <2>3. PICK k \in DOMAIN P.anchors[d] :
           /\ found[i] = [drawing |-> d, anchor |-> P.anchors[d][k]]
           /\ P.anchors[d][k].kind = "chart"
           /\ P.anchors[d][k].rel \in DOMAIN P.rels[d]
    BY <2>2
  <2> DEFINE a == P.anchors[d][k]
  <2>4. found[i].drawing = d /\ found[i].anchor = a
    BY <2>3
  <2>5. objects[i] = ChartAt(P, d, a)
    BY <2>4
  <2> HIDE DEF objects
  <2>6. DOMAIN objects[i] = ChartFields /\ objects[i].source = Origin(P, d, a)
    <3>1. DOMAIN ChartAt(P, d, a) = ChartFields
      BY DEF ChartAt, ChartFields
    <3>2. ChartAt(P, d, a).source = Origin(P, d, a)
      BY DEF ChartAt
    <3> QED BY <2>5, <3>1, <3>2
  <2>7. OriginIn(P, Origin(P, d, a), "chart")
    BY <2>3 DEF OriginIn
  <2> QED BY <2>6, <2>7
<1>6. DOMAIN objects = DOMAIN found
  OBVIOUS
<1> HIDE DEF objects
<1> QED BY <1>1, <1>4, <1>5, <1>6

-----------------------------------------------------------------------------
(* The actions *)

LEMMA AppendIsSeq ==
  ASSUME NEW s, IsSeq(s), NEW x
  PROVE  /\ IsSeq(Append(s, x)) /\ DOMAIN Append(s, x) = 1 .. Len(s) + 1
         /\ DOMAIN s = 1 .. Len(s) /\ Len(s) \in Nat
         /\ \A k \in 1 .. Len(s) + 1 : Append(s, x)[k] = IF k = Len(s) + 1 THEN x ELSE s[k]
<1> DEFINE S == Range(s) \union {x}
           t == Append(s, x)
<1>1. s \in Seq(Range(s))
  BY DEF IsSeq
<1>2. s \in Seq(S) /\ x \in S
  BY <1>1
<1> HIDE DEF S
<1>3. /\ t \in Seq(S) /\ DOMAIN t = 1 .. Len(s) + 1 /\ DOMAIN s = 1 .. Len(s)
      /\ Len(s) \in Nat /\ Len(t) = Len(s) + 1
      /\ \A k \in 1 .. Len(s) + 1 : t[k] = IF k = Len(s) + 1 THEN x ELSE s[k]
  BY <1>2
<1> HIDE DEF t
<1>4. t \in Seq(Range(t))
  BY <1>3 DEF Range
<1> QED BY <1>3, <1>4 DEF IsSeq, t

LEMMA ExceptIsSeq ==
  ASSUME NEW s, IsSeq(s), NEW i \in DOMAIN s, NEW x
  PROVE  /\ IsSeq([s EXCEPT ![i] = x]) /\ DOMAIN [s EXCEPT ![i] = x] = DOMAIN s
         /\ \A k \in DOMAIN s : [s EXCEPT ![i] = x][k] = IF k = i THEN x ELSE s[k]
<1> DEFINE t == [s EXCEPT ![i] = x]
<1>1. DOMAIN s = 1 .. Len(s) /\ Len(s) \in Nat
  BY DEF IsSeq
<1>2. t = [k \in 1 .. Len(s) |-> IF k = i THEN x ELSE s[k]]
  BY <1>1
<1>3. IsSeq(t) /\ DOMAIN t = DOMAIN s
  <2>1. t = [k \in 1 .. Len(s) |-> t[k]]
    BY <1>2
  <2> HIDE DEF t
  <2> QED BY <1>1, <2>1, FunctionIsSeq
<1> QED BY <1>1, <1>2, <1>3

\* An object edited, removed or added.
LEMMA ObjectChanges ==
  ASSUME NEW objects, NEW kind, NEW fields, FromAnchors(objects, kind, fields),
         NEW i \in DOMAIN objects, NEW x, DOMAIN x = fields,
         x.source = None \/ IsOrigin(x.source, kind)
  PROVE  FromAnchors([objects EXCEPT ![i] = x], kind, fields)
<1> DEFINE t == [objects EXCEPT ![i] = x]
<1>1. IsSeq(t) /\ DOMAIN t = DOMAIN objects
      /\ \A k \in DOMAIN objects : t[k] = IF k = i THEN x ELSE objects[k]
  BY ExceptIsSeq DEF FromAnchors
<1> HIDE DEF t
<1>2. FromAnchors(t, kind, fields)
  BY <1>1 DEF FromAnchors
<1> QED BY <1>2 DEF t

LEMMA ObjectGoes ==
  ASSUME NEW objects, NEW kind, NEW fields, FromAnchors(objects, kind, fields),
         NEW i \in DOMAIN objects
  PROVE  FromAnchors(RemoveAt(objects, i), kind, fields)
<1> DEFINE t == RemoveAt(objects, i)
<1>1. /\ IsSeq(t)
      /\ \A k \in DOMAIN t : \E j \in DOMAIN objects : t[k] = objects[j]
  BY Survivors DEF FromAnchors
<1> HIDE DEF t
<1>2. FromAnchors(t, kind, fields)
  BY <1>1 DEF FromAnchors
<1> QED BY <1>2 DEF t

LEMMA ObjectComes ==
  ASSUME NEW objects, NEW kind, NEW fields, FromAnchors(objects, kind, fields),
         NEW x, DOMAIN x = fields, x.source = None
  PROVE  FromAnchors(Append(objects, x), kind, fields)
<1> DEFINE t == Append(objects, x)
<1>1. /\ IsSeq(t) /\ DOMAIN t = 1 .. Len(objects) + 1
      /\ DOMAIN objects = 1 .. Len(objects) /\ Len(objects) \in Nat
      /\ \A k \in 1 .. Len(objects) + 1 : t[k] = IF k = Len(objects) + 1 THEN x ELSE objects[k]
  BY AppendIsSeq DEF FromAnchors
<1> HIDE DEF t
<1>2. FromAnchors(t, kind, fields)
  BY <1>1 DEF FromAnchors
<1> QED BY <1>2 DEF t

\* Recording an edit keeps one edit for an object.
LEMMA EditForIs ==
  ASSUME NEW edits, IsSeq(edits), NEW source
  PROVE  LET i == EditFor(edits, source)
         IN  \/ i = 0 /\ \A k \in DOMAIN edits : edits[k].object.source # source
             \/ i # 0 /\ i \in DOMAIN edits /\ edits[i].object.source = source
<1> DEFINE I == {k \in 1 .. Len(edits) : edits[k].object.source = source}
<1>1. EditFor(edits, source) = IF I # {} THEN Min(I) ELSE 0
  BY DEF EditFor, SelectInSeq
<1>2. DOMAIN edits = 1 .. Len(edits) /\ Len(edits) \in Nat
  BY DEF IsSeq
<1>3. I \in SUBSET Nat
  BY <1>2
<1>4. I # {} => Min(I) \in I
  BY <1>3, MinIsLeast
<1> QED BY <1>1, <1>2, <1>4

IsEdit(e, source) == DOMAIN e = {"object", "flags"} /\ e.object.source = source

LEMMA EditOfIs ==
  ASSUME NEW edits, NEW kind, EditsApart(edits, kind), NEW object
  PROVE  IsEdit(EditOf(edits, object), object.source)
<1> DEFINE i == EditFor(edits, object.source)
<1>1. i = 0 \/ (i # 0 /\ i \in DOMAIN edits /\ edits[i].object.source = object.source)
  BY EditForIs DEF EditsApart
<1>2. EditOf(edits, object) = IF i # 0 THEN edits[i] ELSE [object |-> object, flags |-> {}]
  BY DEF EditOf
<1> HIDE DEF i
<1>3. CASE i = 0
  <2>1. EditOf(edits, object) = [object |-> object, flags |-> {}]
    BY <1>2, <1>3
  <2> QED BY <2>1 DEF IsEdit
<1>4. CASE i # 0
  BY <1>1, <1>2, <1>4 DEF IsEdit, EditsApart
<1> QED BY <1>3, <1>4

LEMMA FlaggedIs ==
  ASSUME NEW e, NEW source, IsEdit(e, source), NEW flag
  PROVE  IsEdit(Flagged(e, flag), source)
BY DEF IsEdit, Flagged

LEMMA RecordKeeps ==
  ASSUME NEW edits, NEW kind, EditsApart(edits, kind),
         NEW source, IsOrigin(source, kind), NEW e, IsEdit(e, source)
  PROVE  EditsApart(Record(edits, e), kind)
<1> DEFINE i == EditFor(edits, source)
           t == Record(edits, e)
<1>0. IsSeq(edits) /\ e.object.source = source /\ DOMAIN e = {"object", "flags"}
  BY DEF EditsApart, IsEdit
<1>1. \/ i = 0 /\ \A k \in DOMAIN edits : edits[k].object.source # source
      \/ i # 0 /\ i \in DOMAIN edits /\ edits[i].object.source = source
  BY <1>0, EditForIs
<1>2. t = IF i = 0 THEN Append(edits, e) ELSE [edits EXCEPT ![i] = e]
  BY <1>0 DEF Record
<1> HIDE DEF i
<1>3. CASE i = 0
  <2>1. /\ IsSeq(t) /\ DOMAIN t = 1 .. Len(edits) + 1
        /\ DOMAIN edits = 1 .. Len(edits) /\ Len(edits) \in Nat
        /\ \A k \in 1 .. Len(edits) + 1 : t[k] = IF k = Len(edits) + 1 THEN e ELSE edits[k]
    BY <1>0, <1>2, <1>3, AppendIsSeq
  <2> HIDE DEF t
  <2>2. \A k \in DOMAIN t : DOMAIN t[k] = {"object", "flags"} /\ IsOrigin(t[k].object.source, kind)
    BY <1>0, <2>1 DEF EditsApart
  <2>3. \A k, j \in DOMAIN t : k # j => t[k].object.source # t[j].object.source
    BY <1>0, <1>1, <1>3, <2>1 DEF EditsApart
  <2>4. EditsApart(t, kind)
    BY <2>1, <2>2, <2>3 DEF EditsApart
  <2> QED BY <2>4 DEF t
<1>4. CASE i # 0
  <2>1. /\ IsSeq(t) /\ DOMAIN t = DOMAIN edits
        /\ \A k \in DOMAIN edits : t[k] = IF k = i THEN e ELSE edits[k]
    <3>1. i \in DOMAIN edits /\ t = [edits EXCEPT ![i] = e]
      BY <1>1, <1>2, <1>4
    <3> HIDE DEF t
    <3>2. /\ IsSeq([edits EXCEPT ![i] = e]) /\ DOMAIN [edits EXCEPT ![i] = e] = DOMAIN edits
          /\ \A k \in DOMAIN edits : [edits EXCEPT ![i] = e][k] = IF k = i THEN e ELSE edits[k]
      BY <1>0, <3>1, ExceptIsSeq
    <3> QED BY <3>1, <3>2
  <2> HIDE DEF t
  <2>2. \A k \in DOMAIN t : DOMAIN t[k] = {"object", "flags"} /\ IsOrigin(t[k].object.source, kind)
    BY <1>0, <2>1 DEF EditsApart
  <2>3. \A k \in DOMAIN t : t[k].object.source = edits[k].object.source
    BY <1>0, <1>1, <1>4, <2>1
  <2>4. \A k, j \in DOMAIN t : k # j => t[k].object.source # t[j].object.source
    BY <2>1, <2>3 DEF EditsApart
  <2>5. EditsApart(t, kind)
    BY <2>1, <2>2, <2>4 DEF EditsApart
  <2> QED BY <2>5 DEF t
<1> QED BY <1>3, <1>4

\* Between loads the package stays.
LEMMA PackageStays ==
  ASSUME IInv, package' = package,
         FromAnchors(images', "pic", ImageFields), FromAnchors(charts', "chart", ChartFields),
         EditsApart(imageEdits', "pic"), EditsApart(chartEdits', "chart"),
         IsSeq(shapes'), loadedImages' \in Nat, loadedCharts' \in Nat
  PROVE  IInv'
<1>1. Regular(package')
  BY DEF IInv
<1>2. \A o, kind : IsOrigin(o, kind)' <=> IsOrigin(o, kind)
  BY DEF IsOrigin, OriginIn
<1>3. FromAnchors(images, "pic", ImageFields)' /\ FromAnchors(charts, "chart", ChartFields)'
  BY <1>2 DEF FromAnchors
<1>4. EditsApart(imageEdits, "pic")' /\ EditsApart(chartEdits, "chart")'
  BY <1>2 DEF EditsApart
<1> QED BY <1>1, <1>3, <1>4 DEF IInv

LEMMA SelectiveImageEditKeeps ==
  ASSUME IInv, NEW i \in DOMAIN images, NEW object, NEW flag,
         DOMAIN object = ImageFields, object.source = images[i].source,
         SelectiveImageEdit(i, object, flag)
  PROVE  IInv'
<1> DEFINE source == images[i].source
           edit == Flagged(EditOf(imageEdits, images[i]), flag)
           e == [edit EXCEPT !.object = object]
<1>0. /\ FromAnchors(images, "pic", ImageFields) /\ FromAnchors(charts, "chart", ChartFields)
      /\ EditsApart(imageEdits, "pic") /\ EditsApart(chartEdits, "chart")
      /\ IsSeq(shapes) /\ loadedImages \in Nat /\ loadedCharts \in Nat
  BY DEF IInv
<1>1. IsOrigin(source, "pic")
  BY <1>0 DEF SelectiveImageEdit, Imported, FromAnchors
<1>2. IsEdit(edit, source)
  BY <1>0, EditOfIs, FlaggedIs
<1>3. images' = [images EXCEPT ![i] = object] /\ imageEdits' = Record(imageEdits, e)
  BY DEF SelectiveImageEdit
<1>4. UNCHANGED <<loadedImages, charts, loadedCharts, chartEdits, shapes, package>>
  BY DEF SelectiveImageEdit
<1> HIDE DEF edit
<1>5. IsEdit(e, source)
  BY <1>2 DEF IsEdit
<1> HIDE DEF e, source
<1>6. EditsApart(imageEdits', "pic")
  BY <1>0, <1>1, <1>3, <1>5, RecordKeeps
<1>7. object.source = None \/ IsOrigin(object.source, "pic")
  BY <1>1 DEF source
<1>8. FromAnchors(images', "pic", ImageFields)
  BY <1>0, <1>3, <1>7, ObjectChanges
<1> QED BY <1>0, <1>4, <1>6, <1>8, PackageStays

LEMMA SelectiveChartEditKeeps ==
  ASSUME IInv, NEW i \in DOMAIN charts, NEW object, NEW flag,
         DOMAIN object = ChartFields, object.source = charts[i].source,
         SelectiveChartEdit(i, object, flag)
  PROVE  IInv'
<1> DEFINE source == charts[i].source
           edit == Flagged(EditOf(chartEdits, charts[i]), flag)
           e == [edit EXCEPT !.object = object]
<1>0. /\ FromAnchors(images, "pic", ImageFields) /\ FromAnchors(charts, "chart", ChartFields)
      /\ EditsApart(imageEdits, "pic") /\ EditsApart(chartEdits, "chart")
      /\ IsSeq(shapes) /\ loadedImages \in Nat /\ loadedCharts \in Nat
  BY DEF IInv
<1>1. IsOrigin(source, "chart")
  BY <1>0 DEF SelectiveChartEdit, Imported, FromAnchors
<1>2. IsEdit(edit, source)
  BY <1>0, EditOfIs, FlaggedIs
<1>3. charts' = [charts EXCEPT ![i] = object] /\ chartEdits' = Record(chartEdits, e)
  BY DEF SelectiveChartEdit
<1>4. UNCHANGED <<images, loadedImages, imageEdits, loadedCharts, shapes, package>>
  BY DEF SelectiveChartEdit
<1> HIDE DEF edit
<1>5. IsEdit(e, source)
  BY <1>2 DEF IsEdit
<1> HIDE DEF e, source
<1>6. EditsApart(chartEdits', "chart")
  BY <1>0, <1>1, <1>3, <1>5, RecordKeeps
<1>7. object.source = None \/ IsOrigin(object.source, "chart")
  BY <1>1 DEF source
<1>8. FromAnchors(charts', "chart", ChartFields)
  BY <1>0, <1>3, <1>7, ObjectChanges
<1> QED BY <1>0, <1>4, <1>6, <1>8, PackageStays

LEMMA EditImagesKeeps ==
  ASSUME IInv, EditImages
  PROVE  IInv'
<1>0. /\ FromAnchors(images, "pic", ImageFields) /\ FromAnchors(charts, "chart", ChartFields)
      /\ EditsApart(imageEdits, "pic") /\ EditsApart(chartEdits, "chart")
      /\ IsSeq(shapes) /\ loadedImages \in Nat /\ loadedCharts \in Nat
  BY DEF IInv
<1>a. \A i \in DOMAIN images : DOMAIN images[i] = ImageFields
  BY <1>0 DEF FromAnchors
<1>1. ASSUME NEW i \in DOMAIN images, NEW place \in Places, MoveImage(i, place) PROVE IInv'
  <2> DEFINE x == [images[i] EXCEPT !.place = place]
  <2>1. DOMAIN x = ImageFields /\ x.source = images[i].source
    BY <1>a DEF ImageFields
  <2>2. SelectiveImageEdit(i, x, "moved")
    BY <1>1 DEF MoveImage
  <2> HIDE DEF x
  <2> QED BY <2>1, <2>2, SelectiveImageEditKeeps
<1>2. ASSUME NEW i \in DOMAIN images, NEW size \in Sizes, ResizeImage(i, size) PROVE IInv'
  <2> DEFINE x == [images[i] EXCEPT !.size = size]
  <2>1. DOMAIN x = ImageFields /\ x.source = images[i].source
    BY <1>a DEF ImageFields
  <2>2. SelectiveImageEdit(i, x, "resized")
    BY <1>2 DEF ResizeImage
  <2> HIDE DEF x
  <2> QED BY <2>1, <2>2, SelectiveImageEditKeeps
<1>3. ASSUME NEW i \in DOMAIN images, NEW bytes \in Bytes, NEW ext \in Exts,
             ReplaceImage(i, bytes, ext)
      PROVE  IInv'
  <2> DEFINE x == [images[i] EXCEPT !.bytes = bytes, !.ext = ext]
  <2>1. DOMAIN x = ImageFields /\ x.source = images[i].source
    BY <1>a DEF ImageFields
  <2>2. SelectiveImageEdit(i, x, "changed")
    BY <1>3 DEF ReplaceImage
  <2> HIDE DEF x
  <2> QED BY <2>1, <2>2, SelectiveImageEditKeeps
<1>4. ASSUME NEW i \in DOMAIN images, RemoveImage(i) PROVE IInv'
  <2> DEFINE source == images[i].source
             e == Flagged(EditOf(imageEdits, images[i]), "removed")
  <2>1. IsOrigin(source, "pic")
    BY <1>0, <1>4 DEF RemoveImage, Imported, FromAnchors
  <2>2. IsEdit(e, source)
    BY <1>0, EditOfIs, FlaggedIs
  <2>3. /\ imageEdits' = Record(imageEdits, e) /\ images' = RemoveAt(images, i)
        /\ loadedImages' = IF i <= loadedImages THEN loadedImages - 1 ELSE loadedImages
        /\ UNCHANGED <<charts, loadedCharts, chartEdits, shapes, package>>
    BY <1>4 DEF RemoveImage
  <2> HIDE DEF e, source
  <2>4. EditsApart(imageEdits', "pic")
    BY <1>0, <2>1, <2>2, <2>3, RecordKeeps
  <2>5. FromAnchors(images', "pic", ImageFields)
    BY <1>0, <2>3, ObjectGoes
  <2>6. loadedImages' \in Nat
    <3>1. i \in Nat \ {0}
      BY <1>0 DEF FromAnchors, IsSeq
    <3> QED BY <1>0, <2>3, <3>1
  <2> QED BY <1>0, <2>3, <2>4, <2>5, <2>6, PackageStays
<1>5. ASSUME NEW place \in Places, NEW size \in Sizes, NEW bytes \in Bytes, NEW ext \in Exts,
             AddImage(place, size, bytes, ext)
      PROVE  IInv'
  <2> DEFINE x == [source |-> None, place |-> place, size |-> size, bytes |-> bytes, ext |-> ext]
  <2>1. DOMAIN x = ImageFields /\ x.source = None
    BY DEF ImageFields
  <2>2. /\ images' = Append(images, x)
        /\ UNCHANGED <<loadedImages, imageEdits, charts, loadedCharts, chartEdits, shapes, package>>
    BY <1>5 DEF AddImage
  <2> HIDE DEF x
  <2>3. FromAnchors(images', "pic", ImageFields)
    BY <1>0, <2>1, <2>2, ObjectComes
  <2> QED BY <1>0, <2>2, <2>3, PackageStays
<1> QED BY <1>1, <1>2, <1>3, <1>4, <1>5 DEF EditImages

LEMMA EditChartsKeeps ==
  ASSUME IInv, EditCharts
  PROVE  IInv'
<1>0. /\ FromAnchors(images, "pic", ImageFields) /\ FromAnchors(charts, "chart", ChartFields)
      /\ EditsApart(imageEdits, "pic") /\ EditsApart(chartEdits, "chart")
      /\ IsSeq(shapes) /\ loadedImages \in Nat /\ loadedCharts \in Nat
  BY DEF IInv
<1>a. \A i \in DOMAIN charts : DOMAIN charts[i] = ChartFields
  BY <1>0 DEF FromAnchors
<1>1. ASSUME NEW i \in DOMAIN charts, NEW place \in Places, MoveChart(i, place) PROVE IInv'
  <2> DEFINE x == [charts[i] EXCEPT !.place = place]
  <2>1. DOMAIN x = ChartFields /\ x.source = charts[i].source
    BY <1>a DEF ChartFields
  <2>2. SelectiveChartEdit(i, x, "moved")
    BY <1>1 DEF MoveChart
  <2> HIDE DEF x
  <2> QED BY <2>1, <2>2, SelectiveChartEditKeeps
<1>2. ASSUME NEW i \in DOMAIN charts, NEW size \in Sizes, ResizeChart(i, size) PROVE IInv'
  <2> DEFINE x == [charts[i] EXCEPT !.size = size]
  <2>1. DOMAIN x = ChartFields /\ x.source = charts[i].source
    BY <1>a DEF ChartFields
  <2>2. SelectiveChartEdit(i, x, "resized")
    BY <1>2 DEF ResizeChart
  <2> HIDE DEF x
  <2> QED BY <2>1, <2>2, SelectiveChartEditKeeps
<1>3. ASSUME NEW i \in DOMAIN charts, NEW title \in Titles, SetChartTitle(i, title) PROVE IInv'
  <2> DEFINE x == [charts[i] EXCEPT !.title = title]
  <2>1. DOMAIN x = ChartFields /\ x.source = charts[i].source
    BY <1>a DEF ChartFields
  <2>2. SelectiveChartEdit(i, x, "changed")
    BY <1>3 DEF SetChartTitle
  <2> HIDE DEF x
  <2> QED BY <2>1, <2>2, SelectiveChartEditKeeps
<1>4. ASSUME NEW i \in DOMAIN charts, RemoveChart(i) PROVE IInv'
  <2> DEFINE source == charts[i].source
             e == Flagged(EditOf(chartEdits, charts[i]), "removed")
  <2>1. IsOrigin(source, "chart")
    BY <1>0, <1>4 DEF RemoveChart, Imported, FromAnchors
  <2>2. IsEdit(e, source)
    BY <1>0, EditOfIs, FlaggedIs
  <2>3. /\ chartEdits' = Record(chartEdits, e) /\ charts' = RemoveAt(charts, i)
        /\ loadedCharts' = IF i <= loadedCharts THEN loadedCharts - 1 ELSE loadedCharts
        /\ UNCHANGED <<images, loadedImages, imageEdits, shapes, package>>
    BY <1>4 DEF RemoveChart
  <2> HIDE DEF e, source
  <2>4. EditsApart(chartEdits', "chart")
    BY <1>0, <2>1, <2>2, <2>3, RecordKeeps
  <2>5. FromAnchors(charts', "chart", ChartFields)
    BY <1>0, <2>3, ObjectGoes
  <2>6. loadedCharts' \in Nat
    <3>1. i \in Nat \ {0}
      BY <1>0 DEF FromAnchors, IsSeq
    <3> QED BY <1>0, <2>3, <3>1
  <2> QED BY <1>0, <2>3, <2>4, <2>5, <2>6, PackageStays
<1>5. ASSUME NEW size \in Sizes, NEW title \in Titles, AddChart(size, title) PROVE IInv'
  <2> DEFINE x == [source |-> None, place |-> None, size |-> size, title |-> title]
  <2>1. DOMAIN x = ChartFields /\ x.source = None
    BY DEF ChartFields
  <2>2. /\ charts' = Append(charts, x)
        /\ UNCHANGED <<images, loadedImages, imageEdits, loadedCharts, chartEdits, shapes, package>>
    BY <1>5 DEF AddChart
  <2> HIDE DEF x
  <2>3. FromAnchors(charts', "chart", ChartFields)
    BY <1>0, <2>1, <2>2, ObjectComes
  <2> QED BY <1>0, <2>2, <2>3, PackageStays
<1> QED BY <1>1, <1>2, <1>3, <1>4, <1>5 DEF EditCharts

\* The caller has the vector in its hands.
LEMMA AccessKeeps ==
  ASSUME IInv, AccessImages \/ AccessCharts \/ AccessShapes \/ (\E text \in Texts : AddShape(text))
  PROVE  IInv'
<1>0. /\ FromAnchors(images, "pic", ImageFields) /\ FromAnchors(charts, "chart", ChartFields)
      /\ EditsApart(imageEdits, "pic") /\ EditsApart(chartEdits, "chart")
      /\ IsSeq(shapes) /\ loadedImages \in Nat /\ loadedCharts \in Nat
  BY DEF IInv
<1>1. CASE AccessImages
  <2>1. /\ images' \in {images} \union {RemoveAt(images, i) : i \in DOMAIN images}
        /\ UNCHANGED <<loadedImages, imageEdits, charts, loadedCharts, chartEdits, shapes, package>>
    BY <1>1 DEF AccessImages
  <2>2. images' = images \/ \E i \in DOMAIN images : images' = RemoveAt(images, i)
    BY <2>1
  <2>3. FromAnchors(images', "pic", ImageFields)
    BY <1>0, <2>2, ObjectGoes
  <2> QED BY <1>0, <2>1, <2>3, PackageStays
<1>2. CASE AccessCharts
  <2>1. /\ charts' \in {charts} \union {RemoveAt(charts, i) : i \in DOMAIN charts}
                       \union {[charts EXCEPT ![i].title = t] : i \in DOMAIN charts, t \in Titles}
        /\ UNCHANGED <<images, loadedImages, imageEdits, loadedCharts, chartEdits, shapes, package>>
    BY <1>2 DEF AccessCharts
  <2>2. \/ charts' = charts
        \/ \E i \in DOMAIN charts : charts' = RemoveAt(charts, i)
        \/ \E i \in DOMAIN charts : \E t \in Titles : charts' = [charts EXCEPT ![i].title = t]
    BY <2>1
  <2>3. ASSUME NEW i \in DOMAIN charts, NEW t \in Titles, charts' = [charts EXCEPT ![i].title = t]
        PROVE  FromAnchors(charts', "chart", ChartFields)
    <3> DEFINE x == [charts[i] EXCEPT !.title = t]
    <3>1. DOMAIN charts[i] = ChartFields /\ (charts[i].source = None \/ IsOrigin(charts[i].source, "chart"))
      BY <1>0 DEF FromAnchors
    <3>2. DOMAIN x = ChartFields /\ x.source = charts[i].source
      BY <3>1 DEF ChartFields
    <3>3. charts' = [charts EXCEPT ![i] = x]
      BY <2>3
    <3> HIDE DEF x
    <3> QED BY <1>0, <3>1, <3>2, <3>3, ObjectChanges
  <2>4. FromAnchors(charts', "chart", ChartFields)
    BY <1>0, <2>2, <2>3, ObjectGoes
  <2> QED BY <1>0, <2>1, <2>4, PackageStays
<1>3. CASE AccessShapes
  <2>1. /\ shapes' \in {shapes} \union {RemoveAt(shapes, i) : i \in DOMAIN shapes}
        /\ UNCHANGED <<images, loadedImages, imageEdits, charts, loadedCharts, chartEdits, package>>
    BY <1>3 DEF AccessShapes
  <2>2. shapes' = shapes \/ \E i \in DOMAIN shapes : shapes' = RemoveAt(shapes, i)
    BY <2>1
  <2>3. IsSeq(shapes')
    BY <1>0, <2>2, RemoveAtIs
  <2> QED BY <1>0, <2>1, <2>3, PackageStays
<1>4. CASE \E text \in Texts : AddShape(text)
  <2>1. PICK text \in Texts : AddShape(text)
    BY <1>4
  <2>2. /\ shapes' = Append(shapes, text)
        /\ UNCHANGED <<images, loadedImages, imageEdits, charts, loadedCharts, chartEdits, package>>
    BY <2>1 DEF AddShape
  <2>3. IsSeq(shapes')
    BY <1>0, <2>2, AppendIsSeq
  <2> QED BY <1>0, <2>2, <2>3, PackageStays
<1> QED BY <1>1, <1>2, <1>3, <1>4

LEMMA LoadEstablishes ==
  ASSUME NEW P, Regular(P), Load(P)
  PROVE  IInv'
<1>1. /\ package' = P /\ images' = ImagesOf(P) /\ loadedImages' = Len(ImagesOf(P))
      /\ charts' = ChartsOf(P) /\ loadedCharts' = Len(ChartsOf(P))
      /\ imageEdits' = <<>> /\ chartEdits' = <<>> /\ shapes' = <<>>
  BY DEF Load
<1>2. FromAnchors(images, "pic", ImageFields)' /\ loadedImages' \in Nat
  BY <1>1, LoadMakesImages DEF FromAnchors, IsOrigin
<1>3. FromAnchors(charts, "chart", ChartFields)' /\ loadedCharts' \in Nat
  BY <1>1, LoadMakesCharts DEF FromAnchors, IsOrigin
<1>4. EditsApart(imageEdits, "pic")' /\ EditsApart(chartEdits, "chart")' /\ IsSeq(shapes)'
  BY <1>1 DEF EditsApart, IsSeq
<1> QED BY <1>1, <1>2, <1>3, <1>4 DEF IInv

LEMMA InitEstablishes ==
  ASSUME Init
  PROVE  IInv
<1>1. CASE NewSheet
  <2>1. /\ package = EmptyPackage /\ images = <<>> /\ charts = <<>> /\ shapes = <<>>
        /\ loadedImages = 0 /\ loadedCharts = 0 /\ imageEdits = <<>> /\ chartEdits = <<>>
    BY <1>1 DEF NewSheet
  <2>2. Regular(EmptyPackage)
    <3>1. DOMAIN <<>> = {} /\ IsFiniteSet({})
      BY FS_EmptySet
    <3> QED BY <3>1 DEF EmptyPackage, Regular, RegularParts, Range
  <2>3. /\ FromAnchors(images, "pic", ImageFields) /\ FromAnchors(charts, "chart", ChartFields)
        /\ EditsApart(imageEdits, "pic") /\ EditsApart(chartEdits, "chart") /\ IsSeq(shapes)
    BY <2>1 DEF FromAnchors, EditsApart, IsSeq
  <2> QED BY <2>1, <2>2, <2>3 DEF IInv
<1>2. ASSUME NEW P \in Sources, LoadedSheet(P) PROVE IInv
  <2>1. /\ package = P /\ images = ImagesOf(P) /\ loadedImages = Len(ImagesOf(P))
        /\ charts = ChartsOf(P) /\ loadedCharts = Len(ChartsOf(P))
        /\ imageEdits = <<>> /\ chartEdits = <<>> /\ shapes = <<>>
    BY <1>2 DEF LoadedSheet
  <2>2. Regular(P)
    BY SourcesAssumption
  <2>3. FromAnchors(images, "pic", ImageFields) /\ loadedImages \in Nat
    BY <2>1, <2>2, LoadMakesImages DEF FromAnchors, IsOrigin
  <2>4. FromAnchors(charts, "chart", ChartFields) /\ loadedCharts \in Nat
    BY <2>1, <2>2, LoadMakesCharts DEF FromAnchors, IsOrigin
  <2>5. EditsApart(imageEdits, "pic") /\ EditsApart(chartEdits, "chart") /\ IsSeq(shapes)
    BY <2>1 DEF EditsApart, IsSeq
  <2> QED BY <2>1, <2>2, <2>3, <2>4, <2>5 DEF IInv
<1> QED BY <1>1, <1>2 DEF Init

LEMMA StepKeeps ==
  ASSUME IInv, [Next]_vars
  PROVE  IInv'
<1>0. /\ FromAnchors(images, "pic", ImageFields) /\ FromAnchors(charts, "chart", ChartFields)
      /\ EditsApart(imageEdits, "pic") /\ EditsApart(chartEdits, "chart")
      /\ IsSeq(shapes) /\ loadedImages \in Nat /\ loadedCharts \in Nat
  BY DEF IInv
<1>1. CASE EditImages
  BY <1>1, EditImagesKeeps
<1>2. CASE EditCharts
  BY <1>2, EditChartsKeeps
<1>3. CASE AccessImages \/ AccessCharts \/ AccessShapes \/ \E text \in Texts : AddShape(text)
  BY <1>3, AccessKeeps
<1>4. CASE Save
  <2>1. UNCHANGED <<images, loadedImages, imageEdits, charts, loadedCharts, chartEdits, shapes, package>>
    BY <1>4 DEF Save
  <2> QED BY <1>0, <2>1, PackageStays
<1>5. CASE Reload
  <2>1. Load(Saved)
    BY <1>5 DEF Reload
  <2> QED BY <2>1, SavedIsRegular, LoadEstablishes
<1>6. CASE UNCHANGED vars
  <2>1. UNCHANGED <<images, loadedImages, imageEdits, charts, loadedCharts, chartEdits, shapes, package>>
    BY <1>6 DEF vars
  <2> QED BY <1>0, <2>1, PackageStays
<1> QED BY <1>1, <1>2, <1>3, <1>4, <1>5, <1>6 DEF Next

\* In every state the package, the objects and the edits fit each other as
\* IInv says.
LEMMA Inductive == Spec => []IInv
<1>1. Init => IInv
  BY InitEstablishes
<1>2. IInv /\ [Next]_vars => IInv'
  BY StepKeeps
<1> QED BY <1>1, <1>2, PTL DEF Spec

\* The specification the run explores takes steps of Spec only.
LEMMA OneKindIsSpec == SpecOneKind => Spec
<1>1. \A S : S # {} => OneOf(S) \in S
  BY DEF OneOf
<1>2. EditOneLook => EditImages \/ EditCharts
  BY <1>1, LooksAssumption DEF EditOneLook, EditImages, EditCharts
<1>3. NextOneKind => Next
  BY <1>2 DEF NextOneKind, NextSelective, NextRedrawn, Next
<1>4. [NextOneKind]_vars => [Next]_vars
  BY <1>3
<1> QED BY <1>4, PTL DEF SpecOneKind, Spec

-----------------------------------------------------------------------------
(* Results *)

\* Whatever was edited before in whatever order, saved or loaded again, a save
\* that patches the preserved drawing leaves every anchor no edit is for, its
\* relationship and the part behind it as they were
\* (applyImageChangesToPreservedDrawing, applyChartChangesToPreservedDrawing).
THEOREM UntouchedStaysVerbatim == Spec => []UntouchedVerbatim
<1>1. ASSUME IInv PROVE UntouchedVerbatim
  <2>1. SUFFICES ASSUME Preserve PROVE KeepsUntouched(Saved)
    BY DEF UntouchedVerbatim
  <2>2. Saved = Patched(Output)
    BY <2>1 DEF Saved
  <2>3. Kept(Output, AllDone)
    BY <1>1, <2>1, OutputIsKept
  <2> QED BY <1>1, <2>2, <2>3, PatchedKeepsUntouched
<1>2. IInv => UntouchedVerbatim
  BY <1>1
<1> QED BY <1>2, Inductive, PTL

\* What save writes is closed: in an owned drawing object ids are distinct and
\* every picture and chart leads to a part, no relationship dangles, and no part
\* a single relationship led to is left behind (Workbook save, both ways).
THEOREM SavedPackageIsWellFormed == Spec => []PackageWellFormed
<1>1. ASSUME IInv PROVE PackageWellFormed
  <2>1. WellFormed(Saved)
    BY <1>1, SavedIsRegular, RegularIsWellFormed
  <2>2. ASSUME Preserve, NEW part \in Orphans(Saved) \ Orphans(package)
        PROVE  ~LedToOnce(part)
    <3>1. Saved = Patched(Output)
      BY <2>2 DEF Saved
    <3>2. Kept(Output, AllDone) /\ Regular(package)
      BY <1>1, <2>2, OutputIsKept DEF IInv
    <3> QED BY <2>2, <3>1, <3>2, PatchedLeavesNoOrphan
  <2> QED BY <2>1, <2>2 DEF PackageWellFormed
<1>2. IInv => PackageWellFormed
  BY <1>1
<1> QED BY <1>2, Inductive, PTL
=============================================================================
