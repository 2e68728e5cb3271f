------------------------- MODULE WorkbookTabsProofs -------------------------
(***************************************************************************)
(* Proofs about WorkbookTabs, whatever the number of sheets and names.     *)
(* IInv, the types with what is said of the tab order and of the two       *)
(* cached indices, is inductive, and so are NamesInv (names tell sheets    *)
(* and source parts apart) and ScopesInv (scopes denote owners, while the  *)
(* worksheets are the tabs in order) with it.  The action properties about *)
(* the active tab and about reloads follow from IInv and NamesInv.         *)
(* The theorems are about SpecLenient, in which a load may also go on past *)
(* the tabs it cannot read, and so about Spec (SpecIsLenient).             *)
(***************************************************************************)
EXTENDS WorkbookTabs, SequenceTheorems, FiniteSetTheorems, TLAPS

-----------------------------------------------------------------------------
(* Sequences and enumerations *)

\* A function on 1..n is a sequence of length n.
LEMMA FunctionIsSeq ==
  ASSUME NEW T, NEW n \in Nat, NEW f \in [1..n -> T]
  PROVE  f \in Seq(T) /\ Len(f) = n /\ DOMAIN f = 1..n
<1>1. f \in Seq(T)
  BY SeqDef
<1> QED
  BY <1>1, LenProperties

\* The empty sequence is the one of length zero.
LEMMA LengthOfSeq ==
  ASSUME NEW T, NEW s \in Seq(T)
  PROVE  Len(s) \in Nat /\ DOMAIN s = 1..Len(s) /\ (Len(s) = 0 <=> s = <<>>)
BY LenProperties, EmptySeq

\* Erasing one element of a sequence.
LEMMA WithoutType ==
  ASSUME NEW T, NEW s \in Seq(T), NEW i \in DOMAIN s
  PROVE  /\ Without(s, i) \in Seq(T)
         /\ Len(Without(s, i)) = Len(s) - 1
         /\ DOMAIN Without(s, i) = 1..(Len(s) - 1)
         /\ \A j \in 1..(Len(s) - 1) :
              Without(s, i)[j] = IF j < i THEN s[j] ELSE s[j + 1]
<1>1. Len(s) \in Nat /\ DOMAIN s = 1..Len(s)
  BY LenProperties
<1>2. Len(s) - 1 \in Nat
  BY <1>1
<1>3. \A j \in 1..(Len(s) - 1) : s[j] \in T /\ s[j + 1] \in T
  BY <1>1, ElementOfSeq
<1>4. Without(s, i) \in [1..(Len(s) - 1) -> T]
  BY <1>3 DEF Without
<1>5. Without(s, i) \in Seq(T) /\ Len(Without(s, i)) = Len(s) - 1
        /\ DOMAIN Without(s, i) = 1..(Len(s) - 1)
  BY <1>2, <1>4, FunctionIsSeq
<1> QED
  BY <1>5 DEF Without

-----------------------------------------------------------------------------
(* The tab order as a list of all sheets *)

\* The kinds of sheets that all have a tab: the worksheets always, the
\* chartsheets too unless one failed late in a lenient load.
KindSets == {{"worksheet"}, Kinds}

\* o lists sheets among the 1..n[kind] of each kind, each at most once, and all
\* of those of the kinds in K.
Lists(o, n, K) ==
  /\ \A p \in DOMAIN o : o[p].kindIndex <= n[o[p].kind]
  /\ \A p, q \in DOMAIN o :
       (o[p].kind = o[q].kind /\ o[p].kindIndex = o[q].kindIndex) => p = q
  /\ \A kind \in K : \A k \in 1..n[kind] :
       \E p \in DOMAIN o : o[p].kind = kind /\ o[p].kindIndex = k

\* The counts with a sheet less of the kind.
OneLess(n, kind) == [n EXCEPT ![kind] = @ - 1]

\* The same of the workbook's tab order.
Ordered(K) == OrderInRange /\ OrderOnce /\ \A kind \in K : HaveTabs(kind)

Counts == [kind \in Kinds |-> KindCount(kind)]

LEMMA KindSetsType ==
  ASSUME NEW K \in KindSets
  PROVE  K \subseteq Kinds /\ "worksheet" \in K /\ "worksheet" \in Kinds
           /\ "chartsheet" \in Kinds
BY DEF KindSets, Kinds

LEMMA OrderedIsLists ==
  ASSUME NEW K \in KindSets
  PROVE  TypeOK => /\ Ordered(K) <=> Lists(order, Counts, K)
                   /\ Counts \in [Kinds -> Nat]
                   /\ Counts["worksheet"] = Len(sheets)
                   /\ Counts["chartsheet"] = Len(chartsheets)
<1> HAVE TypeOK
<1>1. Len(sheets) \in Nat /\ Len(chartsheets) \in Nat
  BY LenProperties DEF TypeOK
<1>2. \A p \in DOMAIN order : order[p] \in Tab
  BY LenProperties, ElementOfSeq DEF TypeOK
<1>3. \A p \in DOMAIN order : order[p].kind \in Kinds
  BY <1>2 DEF Tab
<1>4. \A kind \in Kinds : KindCount(kind) \in Nat /\ Counts[kind] = KindCount(kind)
  BY <1>1 DEF KindCount, Counts, Kinds
<1>5. Ordered(K) <=> Lists(order, Counts, K)
  BY <1>3, <1>4, KindSetsType DEF Ordered, OrderInRange, OrderOnce, HaveTabs, Lists
<1>6. Counts \in [Kinds -> Nat]
  BY <1>4 DEF Counts
<1>7. Counts["worksheet"] = Len(sheets) /\ Counts["chartsheet"] = Len(chartsheets)
  BY DEF Counts, KindCount, Kinds
<1> QED
  BY <1>5, <1>6, <1>7

\* A new sheet, numbered after the others of its kind, gets the last tab.
LEMMA AppendLists ==
  ASSUME NEW o \in Seq(Tab), NEW n \in [Kinds -> Nat], NEW K \in KindSets, Lists(o, n, K),
         NEW kind \in Kinds, NEW v \in Visibilities,
         NEW tab, tab = [kind |-> kind, kindIndex |-> n[kind] + 1, visibility |-> v],
         NEW m, m = [n EXCEPT ![kind] = @ + 1]
  PROVE  Append(o, tab) \in Seq(Tab) /\ Lists(Append(o, tab), m, K)
<1> DEFINE a == Append(o, tab)
<1>1. tab \in Tab
  BY DEF Tab
<1>2. /\ a \in Seq(Tab) /\ Len(a) = Len(o) + 1 /\ Len(o) \in Nat
      /\ DOMAIN a = 1..(Len(o) + 1) /\ DOMAIN o = 1..Len(o)
      /\ a[Len(o) + 1] = tab
      /\ \A p \in 1..Len(o) : a[p] = o[p]
  BY <1>1, AppendProperties, LenProperties
<1>3. \A p \in 1..Len(o) : o[p] \in Tab
  BY ElementOfSeq
<1>4. \A p \in 1..Len(o) : o[p].kind \in Kinds /\ o[p].kindIndex \in Nat
        /\ o[p].kindIndex <= n[o[p].kind]
  BY <1>2, <1>3 DEF Tab, Lists
<1>5. m \in [Kinds -> Nat] /\ m[kind] = n[kind] + 1
        /\ \A j \in Kinds \ {kind} : m[j] = n[j]
  OBVIOUS
<1> HIDE DEF a
<1>6. \A p \in DOMAIN a : a[p].kindIndex <= m[a[p].kind]
  <2> SUFFICES ASSUME NEW p \in DOMAIN a PROVE a[p].kindIndex <= m[a[p].kind]
    OBVIOUS
  <2>1. CASE p = Len(o) + 1
    BY <2>1, <1>2, <1>5
  <2>2. CASE p # Len(o) + 1
    <3>1. p \in 1..Len(o) /\ a[p] = o[p]
      BY <2>2, <1>2
    <3> QED
      BY <3>1, <1>4, <1>5
  <2> QED
    BY <2>1, <2>2
<1>7. \A p, q \in DOMAIN a :
        (a[p].kind = a[q].kind /\ a[p].kindIndex = a[q].kindIndex) => p = q
  <2> SUFFICES ASSUME NEW p \in DOMAIN a, NEW q \in DOMAIN a,
                      a[p].kind = a[q].kind, a[p].kindIndex = a[q].kindIndex
               PROVE  p = q
    OBVIOUS
  <2>1. \A r \in 1..Len(o) :
          ~(a[r].kind = tab.kind /\ a[r].kindIndex = tab.kindIndex)
    BY <1>2, <1>4
  <2>2. CASE p = Len(o) + 1 \/ q = Len(o) + 1
    BY <2>1, <2>2, <1>2
  <2>3. CASE p # Len(o) + 1 /\ q # Len(o) + 1
    <3>1. p \in DOMAIN o /\ q \in DOMAIN o /\ a[p] = o[p] /\ a[q] = o[q]
      BY <2>3, <1>2
    <3> QED
      BY <3>1 DEF Lists
  <2> QED
    BY <2>2, <2>3
<1>8. \A j \in K : \A k \in 1..m[j] :
        \E p \in DOMAIN a : a[p].kind = j /\ a[p].kindIndex = k
  <2> SUFFICES ASSUME NEW j \in K, NEW k \in 1..m[j]
               PROVE  \E p \in DOMAIN a : a[p].kind = j /\ a[p].kindIndex = k
    OBVIOUS
  <2>1. CASE j = kind /\ k = n[kind] + 1
    BY <2>1, <1>2
  <2>2. CASE ~(j = kind /\ k = n[kind] + 1)
    <3>1. k \in 1..n[j]
      BY <2>2, <1>5
    <3>2. PICK p \in DOMAIN o : o[p].kind = j /\ o[p].kindIndex = k
      BY <3>1 DEF Lists
    <3> QED
      BY <3>2, <1>2
  <2> QED
    BY <2>1, <2>2
<1>9. Lists(a, m, K)
  BY <1>6, <1>7, <1>8 DEF Lists
<1> QED
  BY <1>2, <1>9 DEF a

\* OrderWithout on an order of its own: tab t goes, the indices after it in
\* its kind shift down.
Dropped(o, t) ==
  [p \in DOMAIN Without(o, t) |->
     IF /\ Without(o, t)[p].kind = o[t].kind
        /\ Without(o, t)[p].kindIndex > o[t].kindIndex
     THEN [Without(o, t)[p] EXCEPT !.kindIndex = @ - 1]
     ELSE Without(o, t)[p]]

\* The tab of a listed order a place of the shortened one came from.
Origin(t, p) == IF p < t THEN p ELSE p + 1

LEMMA DroppedTabs ==
  ASSUME NEW o \in Seq(Tab), NEW t \in DOMAIN o
  PROVE  /\ Len(o) \in Nat \ {0} /\ DOMAIN o = 1..Len(o) /\ t \in 1..Len(o)
         /\ Dropped(o, t) \in Seq(Tab)
         /\ Len(Dropped(o, t)) = Len(o) - 1
         /\ DOMAIN Dropped(o, t) = 1..(Len(o) - 1)
         /\ \A p \in 1..(Len(o) - 1) :
              /\ Origin(t, p) \in DOMAIN o \ {t}
              /\ Dropped(o, t)[p].kind = o[Origin(t, p)].kind
              /\ Dropped(o, t)[p].visibility = o[Origin(t, p)].visibility
              /\ Dropped(o, t)[p].kindIndex =
                   IF /\ o[Origin(t, p)].kind = o[t].kind
                      /\ o[Origin(t, p)].kindIndex > o[t].kindIndex
                   THEN o[Origin(t, p)].kindIndex - 1
                   ELSE o[Origin(t, p)].kindIndex
<1> DEFINE w == Without(o, t)
<1>1. /\ Len(o) \in Nat \ {0} /\ DOMAIN o = 1..Len(o) /\ t \in 1..Len(o)
      /\ Len(o) - 1 \in Nat
  BY LenProperties
<1>2. /\ w \in Seq(Tab) /\ DOMAIN w = 1..(Len(o) - 1)
      /\ \A p \in 1..(Len(o) - 1) : w[p] = o[Origin(t, p)]
  BY <1>1, WithoutType DEF Origin
<1>3. \A p \in 1..(Len(o) - 1) : Origin(t, p) \in DOMAIN o \ {t}
  BY <1>1 DEF Origin
<1>4. \A p \in DOMAIN o : o[p] \in Tab
  BY <1>1, ElementOfSeq
<1>5. \A p \in 1..(Len(o) - 1) : w[p] \in Tab
  BY <1>2, <1>3, <1>4
<1> HIDE DEF w
<1>6. \A p \in 1..(Len(o) - 1) :
        (w[p].kindIndex > o[t].kindIndex)
          => [w[p] EXCEPT !.kindIndex = @ - 1] \in Tab
  <2> SUFFICES ASSUME NEW p \in 1..(Len(o) - 1), w[p].kindIndex > o[t].kindIndex
               PROVE  [w[p] EXCEPT !.kindIndex = @ - 1] \in Tab
    OBVIOUS
  <2>1. w[p] \in Tab /\ o[t].kindIndex \in Nat \ {0}
    BY <1>4, <1>5 DEF Tab
  <2>2. w[p].kindIndex - 1 \in Nat \ {0}
    BY <2>1, SMTT(30) DEF Tab
  <2> QED
    BY <2>1, <2>2 DEF Tab
<1>7. Dropped(o, t) = [p \in 1..(Len(o) - 1) |->
                         IF w[p].kind = o[t].kind /\ w[p].kindIndex > o[t].kindIndex
                         THEN [w[p] EXCEPT !.kindIndex = @ - 1] ELSE w[p]]
  BY <1>2 DEF Dropped, w
<1>8. Dropped(o, t) \in [1..(Len(o) - 1) -> Tab]
  BY <1>5, <1>6, <1>7
<1>9. /\ Dropped(o, t) \in Seq(Tab) /\ Len(Dropped(o, t)) = Len(o) - 1
      /\ DOMAIN Dropped(o, t) = 1..(Len(o) - 1)
  BY <1>1, <1>8, FunctionIsSeq
<1>10. ASSUME NEW p \in 1..(Len(o) - 1)
       PROVE  /\ Dropped(o, t)[p].kind = w[p].kind
              /\ Dropped(o, t)[p].visibility = w[p].visibility
              /\ Dropped(o, t)[p].kindIndex =
                   IF w[p].kind = o[t].kind /\ w[p].kindIndex > o[t].kindIndex
                   THEN w[p].kindIndex - 1 ELSE w[p].kindIndex
  <2>1. w[p] \in Tab
    BY <1>5
  <2>2. Dropped(o, t)[p] = IF w[p].kind = o[t].kind /\ w[p].kindIndex > o[t].kindIndex
                           THEN [w[p] EXCEPT !.kindIndex = @ - 1] ELSE w[p]
    BY <1>7
  <2> QED
    BY <2>1, <2>2 DEF Tab
<1> QED
  BY <1>1, <1>2, <1>3, <1>9, <1>10

\* Shifting down the indices after z merges no two others.
LEMMA ShiftInjective ==
  ASSUME NEW x \in Nat, NEW y \in Nat, NEW z \in Nat, x # z, y # z,
         (IF x > z THEN x - 1 ELSE x) = (IF y > z THEN y - 1 ELSE y)
  PROVE  x = y
OBVIOUS

\* Removing the tab of a listed sheet leaves an order that lists the others.
LEMMA DroppedLists ==
  ASSUME NEW o \in Seq(Tab), NEW n \in [Kinds -> Nat], NEW K \in KindSets, Lists(o, n, K),
         NEW t \in DOMAIN o
  PROVE  Lists(Dropped(o, t), OneLess(n, o[t].kind), K)
<1> DEFINE d == Dropped(o, t)
           m == OneLess(n, o[t].kind)
<1>1. /\ Len(o) \in Nat \ {0} /\ DOMAIN o = 1..Len(o) /\ t \in 1..Len(o)
      /\ DOMAIN d = 1..(Len(o) - 1)
      /\ \A p \in 1..(Len(o) - 1) :
           /\ Origin(t, p) \in DOMAIN o \ {t}
           /\ d[p].kind = o[Origin(t, p)].kind
           /\ d[p].kindIndex =
                IF /\ o[Origin(t, p)].kind = o[t].kind
                   /\ o[Origin(t, p)].kindIndex > o[t].kindIndex
                THEN o[Origin(t, p)].kindIndex - 1
                ELSE o[Origin(t, p)].kindIndex
  BY DroppedTabs
<1>2. \A p \in DOMAIN o : o[p] \in Tab
  BY <1>1, ElementOfSeq
<1>3. \A p \in DOMAIN o : o[p].kind \in Kinds /\ o[p].kindIndex \in Nat \ {0}
        /\ o[p].kindIndex <= n[o[p].kind]
  BY <1>2 DEF Tab, Lists
<1>4. n[o[t].kind] \in Nat \ {0}
  BY <1>3
<1>5. /\ m \in [Kinds -> Nat] /\ m[o[t].kind] = n[o[t].kind] - 1
      /\ \A j \in Kinds : j # o[t].kind => m[j] = n[j]
  BY <1>3, <1>4 DEF OneLess
<1>6. \A p \in DOMAIN o \ {t} : o[p].kind = o[t].kind => o[p].kindIndex # o[t].kindIndex
  BY DEF Lists
<1> HIDE DEF d, m
<1>7. \A p \in DOMAIN d : d[p].kindIndex <= m[d[p].kind]
  <2> SUFFICES ASSUME NEW p \in 1..(Len(o) - 1) PROVE d[p].kindIndex <= m[d[p].kind]
    BY <1>1
  <2> DEFINE q == Origin(t, p)
  <2>1. q \in DOMAIN o \ {t} /\ d[p].kind = o[q].kind
        /\ d[p].kindIndex = IF o[q].kind = o[t].kind /\ o[q].kindIndex > o[t].kindIndex
                            THEN o[q].kindIndex - 1 ELSE o[q].kindIndex
    BY <1>1
  <2> HIDE DEF q
  <2>2. CASE o[q].kind = o[t].kind
    <3>1. /\ o[q].kindIndex \in Nat \ {0} /\ o[q].kindIndex <= n[o[t].kind]
          /\ o[t].kindIndex \in Nat \ {0} /\ o[t].kindIndex <= n[o[t].kind]
          /\ o[q].kindIndex # o[t].kindIndex /\ n[o[t].kind] \in Nat
      BY <2>1, <2>2, <1>3, <1>4, <1>6
    <3>2. m[d[p].kind] = n[o[t].kind] - 1
      BY <2>1, <2>2, <1>5
    <3> QED
      BY ONLY <2>1, <2>2, <3>1, <3>2
  <2>3. CASE o[q].kind # o[t].kind
    BY <2>1, <2>3, <1>3, <1>5
  <2> QED
    BY <2>2, <2>3
<1>8. \A p, q \in DOMAIN d :
        (d[p].kind = d[q].kind /\ d[p].kindIndex = d[q].kindIndex) => p = q
  <2> SUFFICES ASSUME NEW p \in 1..(Len(o) - 1), NEW q \in 1..(Len(o) - 1),
                      d[p].kind = d[q].kind, d[p].kindIndex = d[q].kindIndex
               PROVE  p = q
    BY <1>1
  <2> DEFINE a == Origin(t, p)
             b == Origin(t, q)
  <2>1. /\ a \in DOMAIN o \ {t} /\ d[p].kind = o[a].kind
        /\ d[p].kindIndex = IF o[a].kind = o[t].kind /\ o[a].kindIndex > o[t].kindIndex
                            THEN o[a].kindIndex - 1 ELSE o[a].kindIndex
    BY <1>1
  <2>2. /\ b \in DOMAIN o \ {t} /\ d[q].kind = o[b].kind
        /\ d[q].kindIndex = IF o[b].kind = o[t].kind /\ o[b].kindIndex > o[t].kindIndex
                            THEN o[b].kindIndex - 1 ELSE o[b].kindIndex
    BY <1>1
  <2>3. o[a].kind = o[b].kind /\ o[a].kindIndex = o[b].kindIndex
    <3>1. o[a].kind = o[b].kind
      BY <2>1, <2>2
    <3>2. d[p].kindIndex = d[q].kindIndex
      OBVIOUS
    <3> HIDE DEF a, b
    <3>3. CASE o[a].kind = o[t].kind
      <4>1. /\ o[a].kindIndex \in Nat /\ o[b].kindIndex \in Nat
            /\ o[t].kindIndex \in Nat
            /\ o[a].kindIndex # o[t].kindIndex /\ o[b].kindIndex # o[t].kindIndex
        BY <3>1, <3>3, <2>1, <2>2, <1>3, <1>6
      <4>2. (IF o[a].kindIndex > o[t].kindIndex
               THEN o[a].kindIndex - 1 ELSE o[a].kindIndex)
            = (IF o[b].kindIndex > o[t].kindIndex
                 THEN o[b].kindIndex - 1 ELSE o[b].kindIndex)
        BY <3>1, <3>2, <3>3, <2>1, <2>2
      <4> QED
        BY <4>1, <4>2, <3>1, ShiftInjective
    <3>4. CASE o[a].kind # o[t].kind
      BY <3>1, <3>2, <3>4, <2>1, <2>2
    <3> QED
      BY <3>3, <3>4
  <2>4. a = b
    BY <2>1, <2>2, <2>3 DEF Lists
  <2> QED
    BY <2>4, <1>1 DEF Origin
<1>9. \A j \in K : \A k \in 1..m[j] :
        \E p \in DOMAIN d : d[p].kind = j /\ d[p].kindIndex = k
  <2> SUFFICES ASSUME NEW j \in K, NEW k \in 1..m[j]
               PROVE  \E p \in DOMAIN d : d[p].kind = j /\ d[p].kindIndex = k
    OBVIOUS
  <2> DEFINE old == IF j = o[t].kind /\ k >= o[t].kindIndex THEN k + 1 ELSE k
  <2>0. /\ n[j] \in Nat /\ k \in 1..(IF j = o[t].kind THEN n[j] - 1 ELSE n[j])
        /\ o[t].kindIndex \in Nat \ {0}
    BY <1>3, <1>5, KindSetsType
  <2>1. /\ old \in 1..n[j] /\ (j = o[t].kind => old # o[t].kindIndex)
        /\ k = IF j = o[t].kind /\ old > o[t].kindIndex THEN old - 1 ELSE old
    BY ONLY <2>0
  <2> HIDE DEF old
  <2>2. PICK q \in DOMAIN o : o[q].kind = j /\ o[q].kindIndex = old
    BY <2>1 DEF Lists
  <2>3. q # t
    BY <2>1, <2>2
  <2> DEFINE p == IF q < t THEN q ELSE q - 1
  <2>4. p \in 1..(Len(o) - 1) /\ Origin(t, p) = q
    BY <2>2, <2>3, <1>1 DEF Origin
  <2> HIDE DEF p
  <2>5. d[p].kind = j /\ d[p].kindIndex = k
    BY <2>1, <2>2, <2>4, <1>1
  <2> QED
    BY <2>4, <2>5, <1>1
<1>10. Lists(d, m, K)
  BY <1>7, <1>8, <1>9 DEF Lists
<1> QED
  BY <1>10 DEF d, m

\* Orders that agree on the sheets they list, whatever the visibilities.
LEMMA SameListing ==
  ASSUME NEW o, NEW r, NEW n, NEW K, Lists(o, n, K), DOMAIN r = DOMAIN o,
         \A p \in DOMAIN o : r[p].kind = o[p].kind /\ r[p].kindIndex = o[p].kindIndex
  PROVE  Lists(r, n, K)
BY DEF Lists

\* A move permutes the tabs.
Moved(o, from, to) == [p \in DOMAIN o |-> o[CameFrom(from, to, p)]]

LEMMA MovedLists ==
  ASSUME NEW o \in Seq(Tab), NEW n, NEW K \in KindSets, Lists(o, n, K),
         NEW from \in DOMAIN o, NEW to \in DOMAIN o
  PROVE  /\ Moved(o, from, to) \in Seq(Tab)
         /\ Len(Moved(o, from, to)) = Len(o)
         /\ Lists(Moved(o, from, to), n, K)
<1> DEFINE r == Moved(o, from, to)
<1>1. Len(o) \in Nat /\ DOMAIN o = 1..Len(o)
  BY LenProperties
<1>2. \A p \in DOMAIN o : CameFrom(from, to, p) \in DOMAIN o
  BY <1>1 DEF CameFrom
<1>3. \A p \in DOMAIN o : /\ CameFrom(to, from, p) \in DOMAIN o
                          /\ CameFrom(from, to, CameFrom(to, from, p)) = p
  BY <1>1 DEF CameFrom
<1>4. \A p, q \in DOMAIN o : CameFrom(from, to, p) = CameFrom(from, to, q) => p = q
  BY <1>1 DEF CameFrom
<1>5. r \in [1..Len(o) -> Tab]
  BY <1>1, <1>2, ElementOfSeq DEF Moved
<1>6. r \in Seq(Tab) /\ Len(r) = Len(o) /\ DOMAIN r = DOMAIN o
  BY <1>1, <1>5, FunctionIsSeq
<1>7. \A p \in DOMAIN o : r[p] = o[CameFrom(from, to, p)]
  BY DEF Moved
<1> SUFFICES r \in Seq(Tab) /\ Len(r) = Len(o) /\ Lists(r, n, K)
  OBVIOUS
<1> HIDE DEF r
<1>8. \A p \in DOMAIN r : r[p].kindIndex <= n[r[p].kind]
  BY <1>2, <1>6, <1>7 DEF Lists
<1>9. \A p, q \in DOMAIN r :
        (r[p].kind = r[q].kind /\ r[p].kindIndex = r[q].kindIndex) => p = q
  BY <1>2, <1>4, <1>6, <1>7 DEF Lists
<1>10. \A kind \in K : \A k \in 1..n[kind] :
         \E p \in DOMAIN r : r[p].kind = kind /\ r[p].kindIndex = k
  <2> SUFFICES ASSUME NEW kind \in K, NEW k \in 1..n[kind]
               PROVE  \E p \in DOMAIN r : r[p].kind = kind /\ r[p].kindIndex = k
    OBVIOUS
  <2>1. PICK q \in DOMAIN o : o[q].kind = kind /\ o[q].kindIndex = k
    BY DEF Lists
  <2>2. CameFrom(to, from, q) \in DOMAIN o /\ r[CameFrom(to, from, q)] = o[q]
    BY <1>3, <1>7
  <2> QED
    BY <2>1, <2>2, <1>6
<1> QED
  BY <1>6, <1>8, <1>9, <1>10 DEF Lists

\* An ascending enumeration numbers the elements of its set one to one.
LEMMA AscendingNumbers ==
  ASSUME NEW S, IsFiniteSet(S), \A p \in S : p \in Nat, NEW e \in Ascending(S)
  PROVE  /\ Cardinality(S) \in Nat
         /\ e \in [1..Cardinality(S) -> S]
         /\ \A p \in S : PlaceIn(e, p) \in 1..Cardinality(S) /\ e[PlaceIn(e, p)] = p
         /\ \A i, j \in 1..Cardinality(S) : e[i] = e[j] => i = j
         /\ \A i \in 1..Cardinality(S) : PlaceIn(e, e[i]) = i
<1>1. Cardinality(S) \in Nat
  BY FS_CardinalityType
<1>2. /\ e \in [1..Cardinality(S) -> S]
      /\ \A i, j \in DOMAIN e : i < j => e[i] < e[j]
      /\ \A p \in S : \E i \in DOMAIN e : e[i] = p
  <2>1. /\ e \in [1..Cardinality(S) -> S]
        /\ \A j \in DOMAIN e : \A i \in 1..(j - 1) : e[i] < e[j]
        /\ \A p \in S : \E i \in DOMAIN e : e[i] = p
    BY DEF Ascending
  <2> QED
    BY <1>1, <2>1
<1>3. \A p \in S : PlaceIn(e, p) \in DOMAIN e /\ e[PlaceIn(e, p)] = p
  BY <1>2 DEF PlaceIn
<1>4. \A i, j \in 1..Cardinality(S) : e[i] = e[j] => i = j
  <2> SUFFICES ASSUME NEW i \in 1..Cardinality(S), NEW j \in 1..Cardinality(S),
                      e[i] = e[j], i # j
               PROVE  FALSE
    OBVIOUS
  <2>1. i < j \/ j < i
    BY <1>1
  <2>2. e[i] < e[j] \/ e[j] < e[i]
    BY <2>1, <1>2
  <2>3. e[i] \in Nat /\ e[j] \in Nat
    BY <1>2
  <2> QED
    BY <2>2, <2>3
<1>5. \A i \in 1..Cardinality(S) : PlaceIn(e, e[i]) = i
  BY <1>2, <1>3, <1>4
<1> QED
  BY <1>1, <1>2, <1>3, <1>4, <1>5

\* S holds the tabs of T that are of one kind.
KindIs(S, T, kind, j) == \A p : p \in S <=> p \in T /\ kind[p] = j

\* o gives every tab its kind and its number among those of the kind.
Numbered(o, kind, tabAt, sheetAt, chartAt) ==
  /\ DOMAIN o = DOMAIN tabAt
  /\ \A q \in DOMAIN tabAt :
       /\ o[q].kind = kind[tabAt[q]]
       /\ o[q].kindIndex = PlaceIn(IF kind[tabAt[q]] = "worksheet"
                                   THEN sheetAt ELSE chartAt, tabAt[q])

\* The tabs as a load numbers them, be they all or some of the file's, list the
\* sheets it creates; C may hold chartsheets that are not among them.
LEMMA ReadLists ==
  ASSUME NEW K \in KindSets,
         NEW T, IsFiniteSet(T), T \subseteq Nat,
         NEW kind, kind \in [T -> Kinds],
         NEW W, KindIs(W, T, kind, "worksheet"),
         NEW C, IsFiniteSet(C), C \subseteq Nat,
         \A p \in T : p \in C <=> kind[p] = "chartsheet",
         "chartsheet" \in K => C \subseteq T,
         NEW tabAt, tabAt \in Ascending(T),
         NEW sheetAt, sheetAt \in Ascending(W),
         NEW chartAt, chartAt \in Ascending(C),
         NEW o, Numbered(o, kind, tabAt, sheetAt, chartAt),
         NEW n, n["worksheet"] = Cardinality(W), n["chartsheet"] = Cardinality(C)
  PROVE  Lists(o, n, K)
<1> USE DEF KindIs, Numbered
<1>1. /\ IsFiniteSet(T) /\ (\A p \in T : p \in Nat)
      /\ IsFiniteSet(W) /\ (\A p \in W : p \in Nat /\ p \in T)
      /\ IsFiniteSet(C) /\ (\A p \in C : p \in Nat)
  <2>1. W \subseteq T
    OBVIOUS
  <2>2. IsFiniteSet(W)
    BY <2>1, FS_Subset
  <2> QED
    BY <2>1, <2>2
<1>2. /\ tabAt \in [1..Cardinality(T) -> T]
      /\ \A p \in T : PlaceIn(tabAt, p) \in 1..Cardinality(T) /\ tabAt[PlaceIn(tabAt, p)] = p
      /\ \A p, q \in 1..Cardinality(T) : tabAt[p] = tabAt[q] => p = q
  <2>1. tabAt \in Ascending(T)
    OBVIOUS
  <2> QED
    BY ONLY <1>1, <2>1, AscendingNumbers
<1>3. /\ Cardinality(W) \in Nat
      /\ sheetAt \in [1..Cardinality(W) -> W]
      /\ \A p \in W : PlaceIn(sheetAt, p) \in 1..Cardinality(W) /\ sheetAt[PlaceIn(sheetAt, p)] = p
      /\ \A i \in 1..Cardinality(W) : PlaceIn(sheetAt, sheetAt[i]) = i
  BY <1>1, AscendingNumbers
<1>4. /\ Cardinality(C) \in Nat
      /\ chartAt \in [1..Cardinality(C) -> C]
      /\ \A p \in C : PlaceIn(chartAt, p) \in 1..Cardinality(C) /\ chartAt[PlaceIn(chartAt, p)] = p
      /\ \A i \in 1..Cardinality(C) : PlaceIn(chartAt, chartAt[i]) = i
  <2>1. chartAt \in Ascending(C)
    OBVIOUS
  <2> QED
    BY ONLY <1>1, <2>1, AscendingNumbers
<1>5. DOMAIN tabAt = 1..Cardinality(T) /\ \A q \in DOMAIN tabAt : tabAt[q] \in T
  BY <1>2
<1>6. ASSUME NEW q \in DOMAIN tabAt
      PROVE  \/ /\ tabAt[q] \in W /\ o[q].kind = "worksheet"
                /\ o[q].kindIndex = PlaceIn(sheetAt, tabAt[q])
             \/ /\ tabAt[q] \in C /\ o[q].kind = "chartsheet"
                /\ o[q].kindIndex = PlaceIn(chartAt, tabAt[q])
  <2>1. tabAt[q] \in T /\ kind[tabAt[q]] \in Kinds
    BY <1>5
  <2>2. /\ o[q].kind = kind[tabAt[q]]
        /\ o[q].kindIndex = PlaceIn(IF kind[tabAt[q]] = "worksheet"
                                    THEN sheetAt ELSE chartAt, tabAt[q])
    OBVIOUS
  <2>3. CASE kind[tabAt[q]] = "worksheet"
    BY <2>1, <2>2, <2>3
  <2>4. CASE kind[tabAt[q]] = "chartsheet"
    BY <2>1, <2>2, <2>4
  <2> QED
    BY <2>1, <2>3, <2>4 DEF Kinds
<1>7. \A p \in DOMAIN o : o[p].kindIndex <= n[o[p].kind]
  <2> SUFFICES ASSUME NEW q \in DOMAIN tabAt PROVE o[q].kindIndex <= n[o[q].kind]
    OBVIOUS
  <2>1. n["worksheet"] = Cardinality(W) /\ n["chartsheet"] = Cardinality(C)
    OBVIOUS
  <2>2. /\ \A i \in 1..Cardinality(W) : i <= Cardinality(W)
        /\ \A i \in 1..Cardinality(C) : i <= Cardinality(C)
    BY <1>3, <1>4
  <2> QED
    BY ONLY <1>3, <1>4, <1>6, <2>1, <2>2
<1>8. \A p, q \in DOMAIN o :
        (o[p].kind = o[q].kind /\ o[p].kindIndex = o[q].kindIndex) => p = q
  <2> SUFFICES ASSUME NEW p \in DOMAIN tabAt, NEW q \in DOMAIN tabAt,
                      o[p].kind = o[q].kind, o[p].kindIndex = o[q].kindIndex
               PROVE  tabAt[p] = tabAt[q]
    BY <1>2, <1>5
  <2>1. CASE o[p].kind = "worksheet"
    <3>1. /\ tabAt[p] \in W /\ o[p].kindIndex = PlaceIn(sheetAt, tabAt[p])
          /\ tabAt[q] \in W /\ o[q].kindIndex = PlaceIn(sheetAt, tabAt[q])
      <4>1. "worksheet" # "chartsheet"
        OBVIOUS
      <4> QED
        BY <2>1, <4>1, <1>6
    <3>2. /\ sheetAt[PlaceIn(sheetAt, tabAt[p])] = tabAt[p]
          /\ sheetAt[PlaceIn(sheetAt, tabAt[q])] = tabAt[q]
      BY <3>1, <1>3
    <3>3. PlaceIn(sheetAt, tabAt[p]) = PlaceIn(sheetAt, tabAt[q])
      BY <3>1
    <3> QED
      BY <3>2, <3>3
  <2>2. CASE o[p].kind = "chartsheet"
    <3>1. /\ tabAt[p] \in C /\ o[p].kindIndex = PlaceIn(chartAt, tabAt[p])
          /\ tabAt[q] \in C /\ o[q].kindIndex = PlaceIn(chartAt, tabAt[q])
      <4>1. "worksheet" # "chartsheet"
        OBVIOUS
      <4> QED
        BY <2>2, <4>1, <1>6
    <3>2. /\ chartAt[PlaceIn(chartAt, tabAt[p])] = tabAt[p]
          /\ chartAt[PlaceIn(chartAt, tabAt[q])] = tabAt[q]
      BY <3>1, <1>4
    <3>3. PlaceIn(chartAt, tabAt[p]) = PlaceIn(chartAt, tabAt[q])
      BY <3>1
    <3> QED
      BY <3>2, <3>3
  <2> QED
    BY <2>1, <2>2, <1>6
<1>9. \A j \in K : \A k \in 1..n[j] :
        \E p \in DOMAIN o : o[p].kind = j /\ o[p].kindIndex = k
  <2>1. ASSUME NEW k \in 1..n["worksheet"]
        PROVE  \E p \in DOMAIN o : o[p].kind = "worksheet" /\ o[p].kindIndex = k
    <3>1. sheetAt[k] \in W /\ PlaceIn(sheetAt, sheetAt[k]) = k /\ sheetAt[k] \notin C
      BY <1>3
    <3>2. PICK q \in DOMAIN tabAt : tabAt[q] = sheetAt[k]
      BY <3>1, <1>1, <1>2, <1>5
    <3>3. o[q].kind = "worksheet" /\ o[q].kindIndex = k
      BY <3>1, <3>2, <1>6
    <3> QED
      BY <3>3
  <2>2. ASSUME "chartsheet" \in K, NEW k \in 1..n["chartsheet"]
        PROVE  \E p \in DOMAIN o : o[p].kind = "chartsheet" /\ o[p].kindIndex = k
    <3>1. chartAt[k] \in C /\ PlaceIn(chartAt, chartAt[k]) = k /\ chartAt[k] \in T
            /\ chartAt[k] \notin W
      BY <2>2, <1>4
    <3>2. PICK q \in DOMAIN tabAt : tabAt[q] = chartAt[k]
      BY <3>1, <1>1, <1>2, <1>5
    <3>3. o[q].kind = "chartsheet" /\ o[q].kindIndex = k
      BY <3>1, <3>2, <1>6
    <3> QED
      BY <3>3
  <2> QED
    BY <2>1, <2>2, KindSetsType DEF Kinds
<1> QED
  BY <1>7, <1>8, <1>9 DEF Lists

-----------------------------------------------------------------------------
(* The first visible tab *)

\* What firstVisibleWorkbookSheetIndex() computes is a visible tab or, when
\* there is none, the index past the last.
LEMMA FirstVisibleIs ==
  ASSUME NEW o \in Seq(Tab), NEW f \in FirstVisible(o)
  PROVE  /\ f \in 1..(Len(o) + 1)
         /\ f \in DOMAIN o => o[f].visibility = "visible"
<1>1. Len(o) \in Nat /\ DOMAIN o = 1..Len(o)
  BY LenProperties
<1>2. CASE VisibleTabs(o) = {}
  BY <1>1, <1>2 DEF FirstVisible
<1>3. CASE VisibleTabs(o) # {}
  BY <1>1, <1>3 DEF FirstVisible, FirstOf, VisibleTabs
<1> QED
  BY <1>2, <1>3

\* A visible tab listed last leaves it alone, unless it is the only one.
LEMMA FirstVisibleOfAppend ==
  ASSUME NEW o \in Seq(Tab), NEW tab \in Tab, tab.visibility = "visible",
         NEW f \in FirstVisible(o)
  PROVE  f \in FirstVisible(Append(o, tab))
<1> DEFINE a == Append(o, tab)
<1>1. /\ Len(o) \in Nat /\ DOMAIN o = 1..Len(o) /\ DOMAIN a = 1..(Len(o) + 1)
      /\ a[Len(o) + 1] = tab
      /\ \A p \in 1..Len(o) : a[p] = o[p]
  BY LenProperties, AppendProperties
<1> SUFFICES f \in FirstVisible(a)
  OBVIOUS
<1> HIDE DEF a
<1>2. VisibleTabs(a) = VisibleTabs(o) \cup {Len(o) + 1}
  BY <1>1 DEF VisibleTabs
<1>3. \A p \in VisibleTabs(o) : p \in 1..Len(o)
  BY <1>1 DEF VisibleTabs
<1>4. CASE VisibleTabs(o) = {}
  <2>1. f = Len(o) + 1
    BY <1>4 DEF FirstVisible
  <2> QED
    BY <2>1, <1>1, <1>2, <1>4 DEF FirstVisible, FirstOf
<1>5. CASE VisibleTabs(o) # {}
  <2>1. f \in VisibleTabs(o) /\ \A p \in VisibleTabs(o) : f <= p
    BY <1>5 DEF FirstVisible, FirstOf
  <2>2. f \in VisibleTabs(a) /\ \A p \in VisibleTabs(a) : f <= p
    BY <2>1, <1>1, <1>2, <1>3
  <2> QED
    BY <2>2 DEF FirstVisible, FirstOf
<1> QED
  BY <1>4, <1>5

-----------------------------------------------------------------------------
(* The inductive invariant *)

IInv(K) == TypeOK /\ Ordered(K) /\ ActiveNeverHidden /\ FirstVisibleFresh

LEMMA OrderedIsListsNext ==
  ASSUME NEW K \in KindSets
  PROVE  TypeOK' => /\ Ordered(K)' <=> Lists(order', Counts', K)
                    /\ Counts' \in [Kinds -> Nat]
                    /\ Counts'["worksheet"] = Len(sheets')
                    /\ Counts'["chartsheet"] = Len(chartsheets')
<1>1. (TypeOK => /\ Ordered(K) <=> Lists(order, Counts, K)
                 /\ Counts \in [Kinds -> Nat]
                 /\ Counts["worksheet"] = Len(sheets)
                 /\ Counts["chartsheet"] = Len(chartsheets))'
  BY OrderedIsLists, PTL
<1> QED
  BY <1>1

\* The types, taken apart.
LEMMA TypesOf ==
  TypeOK =>
    /\ Len(sheets) \in Nat /\ DOMAIN sheets = 1..Len(sheets)
    /\ Len(chartsheets) \in Nat /\ DOMAIN chartsheets = 1..Len(chartsheets)
    /\ Len(order) \in Nat /\ DOMAIN order = 1..Len(order)
    /\ \A i \in DOMAIN sheets : sheets[i] \in Sheet
    /\ \A i \in DOMAIN chartsheets : chartsheets[i] \in SheetNames
    /\ \A p \in DOMAIN order : /\ order[p] \in Tab
                               /\ order[p].kind \in Kinds
                               /\ order[p].kindIndex \in Nat \ {0}
                               /\ order[p].visibility \in Visibilities
<1> HAVE TypeOK
<1>1. /\ Len(sheets) \in Nat /\ DOMAIN sheets = 1..Len(sheets)
      /\ Len(chartsheets) \in Nat /\ DOMAIN chartsheets = 1..Len(chartsheets)
      /\ Len(order) \in Nat /\ DOMAIN order = 1..Len(order)
  BY LenProperties DEF TypeOK
<1>2. /\ \A i \in DOMAIN sheets : sheets[i] \in Sheet
      /\ \A i \in DOMAIN chartsheets : chartsheets[i] \in SheetNames
      /\ \A p \in DOMAIN order : order[p] \in Tab
  BY <1>1, ElementOfSeq DEF TypeOK
<1> QED
  BY <1>1, <1>2 DEF Tab

\* FreshId is an identity, and every step leaves room for one.
LEMMA FreshIdType == Ids \ UsedIds # {} => FreshId \in Ids
BY DEF FreshId

LEMMA FreshIdIsFresh == Ids \ UsedIds # {} => FreshId \in Ids /\ FreshId \notin UsedIds
BY DEF FreshId

\* A new sheet with the next index of its kind and a visible last tab.
LEMMA ListTabStep ==
  ASSUME NEW K \in KindSets, IInv(K), TypeOK', NEW kind \in Kinds, ListTab(kind, KindCount(kind) + 1),
         UNCHANGED <<active, firstVisible>>,
         \A j \in Kinds : KindCount(j)' = IF j = kind THEN KindCount(j) + 1
                                                      ELSE KindCount(j)
  PROVE  Ordered(K)' /\ ActiveNeverHidden' /\ FirstVisibleFresh'
<1> DEFINE tab == [kind |-> kind, kindIndex |-> KindCount(kind) + 1,
                   visibility |-> "visible"]
<1>1. /\ Len(order) \in Nat /\ DOMAIN order = 1..Len(order)
      /\ order \in Seq(Tab) /\ order' = Append(order, tab)
      /\ Lists(order, Counts, K) /\ Counts \in [Kinds -> Nat]
  BY TypesOf, OrderedIsLists DEF IInv, TypeOK, ListTab
<1>2. /\ Counts' = [Counts EXCEPT ![kind] = @ + 1]
      /\ KindCount(kind) = Counts[kind]
  BY DEF Counts
<1>3. "visible" \in Visibilities
  BY DEF Visibilities
<1>4. Lists(order', Counts', K)
  BY <1>1, <1>2, <1>3, AppendLists
<1>5. Ordered(K)'
  BY <1>4, OrderedIsListsNext
<1>6. tab \in Tab /\ tab.visibility = "visible"
  BY <1>1, <1>2, <1>3 DEF Tab
<1> HIDE DEF tab
<1>7. /\ Len(order') = Len(order) + 1 /\ DOMAIN order' = 1..(Len(order) + 1)
      /\ order'[Len(order) + 1] = tab
      /\ \A p \in 1..Len(order) : order'[p] = order[p]
  BY <1>1, <1>6, AppendProperties, LenProperties
<1>8. ActiveNeverHidden'
  BY <1>1, <1>6, <1>7 DEF IInv, ActiveNeverHidden
<1>9. FirstVisibleFresh'
  BY <1>1, <1>6, FirstVisibleOfAppend DEF IInv, FirstVisibleFresh
<1> QED
  BY <1>5, <1>8, <1>9

\* Addition: Workbook::addWorksheet, copyWorksheet and addChartsheet.
LEMMA AddSheetType ==
  ASSUME TypeOK, NEW s \in Sheet,
         sheets' = Append(sheets, s), ListTab("worksheet", Len(sheets) + 1),
         UNCHANGED <<chartsheets, active, firstVisible, definedNames, slicers,
                     source>>
  PROVE  /\ TypeOK'
         /\ \A j \in Kinds : KindCount(j)' = IF j = "worksheet" THEN KindCount(j) + 1
                                                                ELSE KindCount(j)
<1>1. sheets' \in Seq(Sheet) /\ Len(sheets') = Len(sheets) + 1
  BY AppendProperties DEF TypeOK
<1>2. [kind |-> "worksheet", kindIndex |-> Len(sheets) + 1,
       visibility |-> "visible"] \in Tab
  BY TypesOf DEF Tab, Kinds, Visibilities
<1>3. order' \in Seq(Tab)
  BY <1>2, AppendProperties DEF TypeOK, ListTab
<1> QED
  BY <1>1, <1>3 DEF TypeOK, KindCount, Kinds

LEMMA AddWorksheetStep ==
  ASSUME NEW K \in KindSets, IInv(K), NEW n \in SheetNames, AddWorksheet(n)
  PROVE  IInv(K)'
<1>1. FreshId \in Ids
  BY FreshIdType DEF AddWorksheet
<1>2. [name |-> n, id |-> FreshId, area |-> None, titles |-> None] \in Sheet
  BY <1>1 DEF Sheet
<1>3. /\ TypeOK'
      /\ \A j \in Kinds : KindCount(j)' = IF j = "worksheet" THEN KindCount(j) + 1
                                                             ELSE KindCount(j)
  BY <1>2, AddSheetType DEF IInv, AddWorksheet
<1>4. /\ ListTab("worksheet", KindCount("worksheet") + 1)
      /\ UNCHANGED <<active, firstVisible>>
  BY DEF AddWorksheet, KindCount
<1>5. "worksheet" \in Kinds
  BY DEF Kinds
<1> QED
  BY <1>3, <1>4, <1>5, ListTabStep DEF IInv

LEMMA CopyWorksheetStep ==
  ASSUME NEW K \in KindSets, IInv(K), NEW i \in DOMAIN sheets, NEW n \in SheetNames, CopyWorksheet(i, n)
  PROVE  IInv(K)'
<1>1. FreshId \in Ids /\ sheets[i] \in Sheet
  BY FreshIdType, TypesOf DEF CopyWorksheet, IInv
<1>2. [sheets[i] EXCEPT !.name = n, !.id = FreshId] \in Sheet
  BY <1>1 DEF Sheet
<1>3. /\ TypeOK'
      /\ \A j \in Kinds : KindCount(j)' = IF j = "worksheet" THEN KindCount(j) + 1
                                                             ELSE KindCount(j)
  BY <1>2, AddSheetType DEF IInv, CopyWorksheet
<1>4. /\ ListTab("worksheet", KindCount("worksheet") + 1)
      /\ UNCHANGED <<active, firstVisible>>
  BY DEF CopyWorksheet, KindCount
<1>5. "worksheet" \in Kinds
  BY DEF Kinds
<1> QED
  BY <1>3, <1>4, <1>5, ListTabStep DEF IInv

LEMMA AddChartsheetStep ==
  ASSUME NEW K \in KindSets, IInv(K), NEW n \in SheetNames, AddChartsheet(n)
  PROVE  IInv(K)'
<1>1. chartsheets' \in Seq(SheetNames) /\ Len(chartsheets') = Len(chartsheets) + 1
  BY AppendProperties DEF IInv, TypeOK, AddChartsheet
<1>2. [kind |-> "chartsheet", kindIndex |-> Len(chartsheets) + 1,
       visibility |-> "visible"] \in Tab
  BY TypesOf DEF IInv, Tab, Kinds, Visibilities
<1>3. order' \in Seq(Tab)
  BY <1>2, AppendProperties DEF IInv, TypeOK, AddChartsheet, ListTab
<1>4. TypeOK'
  BY <1>1, <1>3 DEF IInv, TypeOK, AddChartsheet
<1>5. \A j \in Kinds : KindCount(j)' = IF j = "chartsheet" THEN KindCount(j) + 1
                                                           ELSE KindCount(j)
  BY <1>1 DEF KindCount, Kinds, AddChartsheet
<1>6. /\ ListTab("chartsheet", KindCount("chartsheet") + 1)
      /\ UNCHANGED <<active, firstVisible>>
  BY DEF AddChartsheet, KindCount
<1>7. "chartsheet" \in Kinds
  BY DEF Kinds
<1> QED
  BY <1>4, <1>5, <1>6, <1>7, ListTabStep DEF IInv

\* A step that keeps the tabs and the numbers of sheets keeps what is said
\* of the tab order.
LEMMA SameTabsStep ==
  ASSUME NEW K \in KindSets, IInv(K), TypeOK', UNCHANGED <<order, active, firstVisible>>,
         Len(sheets') = Len(sheets), Len(chartsheets') = Len(chartsheets)
  PROVE  IInv(K)'
<1>1. \A kind \in Kinds : KindCount(kind)' = KindCount(kind)
  BY DEF KindCount
<1>2. \A p \in DOMAIN order : order[p].kind \in Kinds
  BY TypesOf DEF IInv
<1>3. Ordered(K)'
  <2>1. (OrderInRange /\ OrderOnce)'
    BY <1>1, <1>2 DEF IInv, Ordered, OrderInRange, OrderOnce
  <2>2. \A kind \in K : HaveTabs(kind)'
    BY <1>1, KindSetsType DEF IInv, Ordered, HaveTabs
  <2> QED
    BY <2>1, <2>2 DEF Ordered
<1> QED
  BY <1>3 DEF IInv, ActiveNeverHidden, FirstVisibleFresh

\* A record of a sequence replaced by another of its type.
LEMMA ReplacedType ==
  ASSUME NEW T, NEW s \in Seq(T), NEW i \in DOMAIN s, NEW e \in T
  PROVE  /\ [s EXCEPT ![i] = e] \in Seq(T)
         /\ Len([s EXCEPT ![i] = e]) = Len(s)
BY ExceptSeq, LenProperties

LEMMA RenameWorksheetStep ==
  ASSUME NEW K \in KindSets, IInv(K), NEW i \in DOMAIN sheets, NEW n \in SheetNames,
         RenameWorksheet(i, n)
  PROVE  IInv(K)'
<1>1. [sheets[i] EXCEPT !.name = n] \in Sheet
  BY TypesOf DEF IInv, Sheet
<1>2. sheets' = [sheets EXCEPT ![i] = [sheets[i] EXCEPT !.name = n]]
  BY DEF RenameWorksheet
<1>3. sheets' \in Seq(Sheet) /\ Len(sheets') = Len(sheets)
  BY <1>1, <1>2, ReplacedType DEF IInv, TypeOK
<1> DEFINE Part == [name : SheetNames, part : Ids]
<1>4. source \in Seq(Part) /\ Len(source) \in Nat /\ DOMAIN source = 1..Len(source)
  BY LenProperties DEF IInv, TypeOK
<1>5. \A j \in DOMAIN source : source[j] \in Part
  BY <1>4, ElementOfSeq
<1>6. \A j \in DOMAIN source : [source[j] EXCEPT !.name = n] \in Part
  BY <1>5
<1>7. source' \in [1..Len(source) -> Part]
  BY <1>4, <1>5, <1>6 DEF RenameWorksheet
<1>8. source' \in Seq(Part)
  BY <1>4, <1>7, FunctionIsSeq
<1>9. TypeOK'
  BY <1>3, <1>8 DEF IInv, TypeOK, RenameWorksheet
<1> QED
  BY <1>3, <1>9, SameTabsStep DEF RenameWorksheet

LEMMA RenameChartsheetStep ==
  ASSUME NEW K \in KindSets, IInv(K), NEW i \in DOMAIN chartsheets, NEW n \in SheetNames,
         RenameChartsheet(i, n)
  PROVE  IInv(K)'
<1>1. chartsheets' \in Seq(SheetNames) /\ Len(chartsheets') = Len(chartsheets)
  BY ReplacedType DEF IInv, TypeOK, RenameChartsheet
<1>2. TypeOK'
  BY <1>1 DEF IInv, TypeOK, RenameChartsheet
<1> QED
  BY <1>1, <1>2, SameTabsStep DEF RenameChartsheet

\* Worksheet::setPrintArea, setPrintTitlesRows and setPrintTitlesCols.
LEMMA SetPrintStep ==
  ASSUME NEW K \in KindSets, IInv(K), NEW i \in DOMAIN sheets, NEW r \in Ranges \cup {None},
         SetPrintArea(i, r) \/ SetPrintTitles(i, r)
  PROVE  IInv(K)'
<1>1. /\ [sheets[i] EXCEPT !.area = r] \in Sheet
      /\ [sheets[i] EXCEPT !.titles = r] \in Sheet
  BY TypesOf DEF IInv, Sheet
<1>2. PICK s \in Sheet : sheets' = [sheets EXCEPT ![i] = s]
  BY <1>1 DEF SetPrintArea, SetPrintTitles
<1>3. sheets' \in Seq(Sheet) /\ Len(sheets') = Len(sheets)
  BY <1>2, ReplacedType DEF IInv, TypeOK
<1>4. TypeOK'
  BY <1>3 DEF IInv, TypeOK, SetPrintArea, SetPrintTitles
<1> QED
  BY <1>3, <1>4, SameTabsStep DEF SetPrintArea, SetPrintTitles

LEMMA AddDefinedNameStep ==
  ASSUME NEW K \in KindSets, IInv(K), NEW n \in DefNames, NEW scope \in 0..Len(sheets),
         AddDefinedName(n, scope)
  PROVE  IInv(K)'
<1> DEFINE owner == IF scope = 0 THEN None ELSE sheets[scope].id
<1>1. scope \in Nat /\ owner \in Ids \cup {None}
  BY TypesOf DEF IInv, Sheet
<1>2. [name |-> n, scope |-> scope, owner |-> owner] \in ScopedName
  BY <1>1 DEF ScopedName
<1>3. definedNames' \in SUBSET ScopedName
  BY <1>2 DEF IInv, TypeOK, AddDefinedName
<1>4. TypeOK'
  BY <1>3 DEF IInv, TypeOK, AddDefinedName, tabs
<1> QED
  BY <1>4, SameTabsStep DEF AddDefinedName, tabs

LEMMA AddSlicerStep ==
  ASSUME NEW K \in KindSets, IInv(K), NEW n \in SheetNames, AddSlicer(n)
  PROVE  IInv(K)'
<1>1. slicers' \in Seq(SheetNames)
  BY AppendProperties DEF IInv, TypeOK, AddSlicer
<1>2. TypeOK'
  BY <1>1 DEF IInv, TypeOK, AddSlicer, tabs
<1> QED
  BY <1>2, SameTabsStep DEF AddSlicer, tabs

\* The tab of a sheet is found, or there is none.
LEMMA TabOfFound ==
  ASSUME NEW kind, NEW k
  PROVE  \/ /\ TabOf(kind, k) \in DOMAIN order
            /\ order[TabOf(kind, k)].kind = kind
            /\ order[TabOf(kind, k)].kindIndex = k
         \/ /\ TabOf(kind, k) = Len(order) + 1
            /\ \A p \in DOMAIN order : ~(order[p].kind = kind /\ order[p].kindIndex = k)
<1> DEFINE at == {p \in DOMAIN order : order[p].kind = kind /\ order[p].kindIndex = k}
<1>1. CASE at = {}
  BY <1>1 DEF TabOf
<1>2. CASE at # {}
  <2>1. TabOf(kind, k) \in at
    BY <1>2 DEF TabOf
  <2> QED
    BY <2>1
<1> QED
  BY <1>1, <1>2

\* Every sheet of a kind that has all its tabs has one.
LEMMA TabOfIsListed ==
  ASSUME NEW K \in KindSets, IInv(K), NEW kind \in K, NEW k \in 1..KindCount(kind)
  PROVE  /\ TabOf(kind, k) \in DOMAIN order
         /\ order[TabOf(kind, k)].kind = kind
         /\ order[TabOf(kind, k)].kindIndex = k
<1>1. \E p \in DOMAIN order : order[p].kind = kind /\ order[p].kindIndex = k
  BY DEF IInv, Ordered, HaveTabs
<1> QED
  BY <1>1, TabOfFound

\* The order with the indices after k in the kind shifted down.
ShiftedDown(o, kind, k) ==
  [p \in DOMAIN o |->
     IF o[p].kind = kind /\ o[p].kindIndex > k
     THEN [o[p] EXCEPT !.kindIndex = @ - 1] ELSE o[p]]

\* Removing a sheet without a tab leaves an order that lists the others.
LEMMA ShiftedLists ==
  ASSUME NEW o \in Seq(Tab), NEW n \in [Kinds -> Nat], NEW K \in KindSets, Lists(o, n, K),
         NEW kind \in Kinds, kind \notin K, NEW k \in 1..n[kind],
         \A p \in DOMAIN o : ~(o[p].kind = kind /\ o[p].kindIndex = k)
  PROVE  /\ ShiftedDown(o, kind, k) \in Seq(Tab)
         /\ Len(ShiftedDown(o, kind, k)) = Len(o)
         /\ \A p \in DOMAIN o :
              /\ ShiftedDown(o, kind, k)[p].kind = o[p].kind
              /\ ShiftedDown(o, kind, k)[p].visibility = o[p].visibility
              /\ ShiftedDown(o, kind, k)[p].kindIndex =
                   IF o[p].kind = kind /\ o[p].kindIndex > k
                   THEN o[p].kindIndex - 1 ELSE o[p].kindIndex
         /\ Lists(ShiftedDown(o, kind, k), OneLess(n, kind), K)
<1> DEFINE s == ShiftedDown(o, kind, k)
           m == OneLess(n, kind)
<1>1. Len(o) \in Nat /\ DOMAIN o = 1..Len(o) /\ \A p \in DOMAIN o : o[p] \in Tab
  BY LenProperties, ElementOfSeq
<1>2. \A p \in DOMAIN o : o[p].kind \in Kinds /\ o[p].kindIndex \in Nat \ {0}
        /\ o[p].kindIndex <= n[o[p].kind]
  BY <1>1 DEF Tab, Lists
<1>3. ASSUME NEW p \in DOMAIN o
      PROVE  /\ s[p] \in Tab /\ s[p].kind = o[p].kind
             /\ s[p].visibility = o[p].visibility
             /\ s[p].kindIndex = IF o[p].kind = kind /\ o[p].kindIndex > k
                                 THEN o[p].kindIndex - 1 ELSE o[p].kindIndex
  <2>1. CASE o[p].kind = kind /\ o[p].kindIndex > k
    <3>1. o[p].kindIndex - 1 \in Nat \ {0}
      BY <2>1, <1>2
    <3>2. s[p] = [o[p] EXCEPT !.kindIndex = o[p].kindIndex - 1]
      BY <2>1 DEF ShiftedDown
    <3> QED
      BY <3>1, <3>2, <2>1, <1>1 DEF Tab
  <2>2. CASE ~(o[p].kind = kind /\ o[p].kindIndex > k)
    BY <2>2, <1>1 DEF ShiftedDown
  <2> QED
    BY <2>1, <2>2
<1>4. s \in [1..Len(o) -> Tab]
  BY <1>1, <1>3 DEF ShiftedDown
<1>5. s \in Seq(Tab) /\ Len(s) = Len(o) /\ DOMAIN s = DOMAIN o
  BY <1>1, <1>4, FunctionIsSeq
<1>6. /\ m \in [Kinds -> Nat] /\ m[kind] = n[kind] - 1 /\ n[kind] \in Nat
      /\ \A j \in Kinds : j # kind => m[j] = n[j]
  BY DEF OneLess
<1> SUFFICES s \in Seq(Tab) /\ Len(s) = Len(o) /\ Lists(s, m, K)
  BY <1>3
<1> HIDE DEF s, m
<1>7. \A p \in DOMAIN s : s[p].kindIndex <= m[s[p].kind]
  <2> SUFFICES ASSUME NEW p \in DOMAIN o PROVE s[p].kindIndex <= m[s[p].kind]
    BY <1>5
  <2>1. /\ o[p].kind \in Kinds /\ o[p].kindIndex \in Nat \ {0}
        /\ o[p].kindIndex <= n[o[p].kind] /\ n[o[p].kind] \in Nat
        /\ s[p].kind = o[p].kind
        /\ s[p].kindIndex = IF o[p].kind = kind /\ o[p].kindIndex > k
                            THEN o[p].kindIndex - 1 ELSE o[p].kindIndex
    BY <1>2, <1>3
  <2>2. CASE o[p].kind = kind
    <3>1. /\ m[o[p].kind] = n[o[p].kind] - 1 /\ k \in 1..n[o[p].kind]
          /\ o[p].kindIndex # k
      BY <2>2, <1>6
    <3> QED
      BY ONLY <2>1, <2>2, <3>1
  <2>3. CASE o[p].kind # kind
    BY <2>1, <2>3, <1>6
  <2> QED
    BY <2>2, <2>3
<1>8. \A p, q \in DOMAIN s :
        (s[p].kind = s[q].kind /\ s[p].kindIndex = s[q].kindIndex) => p = q
  <2> SUFFICES ASSUME NEW p \in DOMAIN o, NEW q \in DOMAIN o,
                      s[p].kind = s[q].kind, s[p].kindIndex = s[q].kindIndex
               PROVE  p = q
    BY <1>5
  <2>1. o[p].kind = o[q].kind
    BY <1>3
  <2>2. o[p].kindIndex = o[q].kindIndex
    <3>1. CASE o[p].kind = kind
      <4>1. /\ o[p].kindIndex \in Nat /\ o[q].kindIndex \in Nat /\ k \in Nat
            /\ o[p].kindIndex # k /\ o[q].kindIndex # k
        BY <3>1, <2>1, <1>2
      <4>2. (IF o[p].kindIndex > k THEN o[p].kindIndex - 1 ELSE o[p].kindIndex)
            = (IF o[q].kindIndex > k THEN o[q].kindIndex - 1 ELSE o[q].kindIndex)
        BY <3>1, <2>1, <1>3
      <4> QED
        BY <4>1, <4>2, ShiftInjective
    <3>2. CASE o[p].kind # kind
      BY <3>2, <2>1, <1>3
    <3> QED
      BY <3>1, <3>2
  <2> QED
    BY <2>1, <2>2 DEF Lists
<1>9. \A j \in K : \A i \in 1..m[j] :
        \E p \in DOMAIN s : s[p].kind = j /\ s[p].kindIndex = i
  <2> SUFFICES ASSUME NEW j \in K, NEW i \in 1..m[j]
               PROVE  \E p \in DOMAIN s : s[p].kind = j /\ s[p].kindIndex = i
    OBVIOUS
  <2>1. j # kind /\ i \in 1..n[j]
    BY <1>6, KindSetsType
  <2>2. PICK p \in DOMAIN o : o[p].kind = j /\ o[p].kindIndex = i
    BY <2>1 DEF Lists
  <2> QED
    BY <2>1, <2>2, <1>3, <1>5
<1> QED
  BY <1>5, <1>7, <1>8, <1>9 DEF Lists

\* rest is what is left of the tab order when sheet k of the kind is removed,
\* with its tab t or without one: the other tabs in order, the later indices
\* shifted down.
Forgotten(t, rest, kind, k) ==
  /\ t \in 1..(Len(order) + 1)
  /\ rest \in Seq(Tab)
  /\ t \in DOMAIN order => Len(rest) = Len(order) - 1
  /\ t \notin DOMAIN order => t = Len(order) + 1 /\ Len(rest) = Len(order)
  /\ \A p \in DOMAIN rest :
       /\ Origin(t, p) \in DOMAIN order \ {t}
       /\ rest[p].kind = order[Origin(t, p)].kind
       /\ rest[p].visibility = order[Origin(t, p)].visibility
       /\ rest[p].kindIndex =
            IF order[Origin(t, p)].kind = kind /\ order[Origin(t, p)].kindIndex > k
            THEN order[Origin(t, p)].kindIndex - 1
            ELSE order[Origin(t, p)].kindIndex
  /\ \A p \in DOMAIN order : order[p].kind = kind /\ order[p].kindIndex = k => p = t

LEMMA ForgottenOrder ==
  ASSUME NEW K \in KindSets, IInv(K), NEW kind \in Kinds, NEW k \in 1..KindCount(kind)
  PROVE  /\ Forgotten(TabOf(kind, k), OrderWithout(TabOf(kind, k), kind, k), kind, k)
         /\ Lists(OrderWithout(TabOf(kind, k), kind, k), OneLess(Counts, kind), K)
<1> DEFINE t == TabOf(kind, k)
           rest == OrderWithout(t, kind, k)
<1> SUFFICES Forgotten(t, rest, kind, k) /\ Lists(rest, OneLess(Counts, kind), K)
  OBVIOUS
<1>0. rest = OrderWithout(t, kind, k) /\ t = TabOf(kind, k)
  OBVIOUS
<1> HIDE DEF t, rest
<1>1. /\ order \in Seq(Tab) /\ Len(order) \in Nat /\ DOMAIN order = 1..Len(order)
      /\ Lists(order, Counts, K) /\ Counts \in [Kinds -> Nat]
      /\ k \in 1..Counts[kind] /\ K \in KindSets /\ kind \in Kinds
  BY TypesOf, OrderedIsLists DEF IInv, TypeOK, Counts
<1>2. CASE t \in DOMAIN order
  <2>1. order[t].kind = kind /\ order[t].kindIndex = k
    BY <1>0, <1>1, <1>2, TabOfFound
  <2>2. rest = Dropped(order, t)
    BY <1>0, <1>2, <2>1 DEF OrderWithout, Dropped
  <2>3. /\ t \in 1..Len(order) /\ Dropped(order, t) \in Seq(Tab)
        /\ Len(Dropped(order, t)) = Len(order) - 1 /\ DOMAIN Dropped(order, t) = 1..(Len(order) - 1)
        /\ \A p \in 1..(Len(order) - 1) :
             /\ Origin(t, p) \in DOMAIN order \ {t}
             /\ Dropped(order, t)[p].kind = order[Origin(t, p)].kind
             /\ Dropped(order, t)[p].visibility = order[Origin(t, p)].visibility
             /\ Dropped(order, t)[p].kindIndex =
                  IF /\ order[Origin(t, p)].kind = order[t].kind
                     /\ order[Origin(t, p)].kindIndex > order[t].kindIndex
                  THEN order[Origin(t, p)].kindIndex - 1
                  ELSE order[Origin(t, p)].kindIndex
    <3>1. order \in Seq(Tab) /\ t \in DOMAIN order
      BY <1>1, <1>2
    <3> QED
      BY ONLY <3>1, DroppedTabs
  <2>4. Lists(rest, OneLess(Counts, kind), K)
    <3>1. order \in Seq(Tab) /\ t \in DOMAIN order /\ Lists(order, Counts, K)
          /\ Counts \in [Kinds -> Nat] /\ K \in KindSets
      BY <1>1, <1>2
    <3>2. Lists(Dropped(order, t), OneLess(Counts, order[t].kind), K)
      BY ONLY <3>1, DroppedLists
    <3> QED
      BY ONLY <3>2, <2>1, <2>2
  <2>5. \A p \in DOMAIN order : order[p].kind = kind /\ order[p].kindIndex = k => p = t
    BY <1>1, <1>2, <2>1 DEF Lists
  <2>6. /\ DOMAIN rest = 1..(Len(order) - 1) /\ Len(rest) = Len(order) - 1
        /\ rest \in Seq(Tab) /\ t \in 1..(Len(order) + 1)
    BY ONLY <1>1, <2>2, <2>3
  <2>7. ASSUME NEW p \in DOMAIN rest
        PROVE  /\ Origin(t, p) \in DOMAIN order \ {t}
               /\ rest[p].kind = order[Origin(t, p)].kind
               /\ rest[p].visibility = order[Origin(t, p)].visibility
               /\ rest[p].kindIndex =
                    IF /\ order[Origin(t, p)].kind = kind
                       /\ order[Origin(t, p)].kindIndex > k
                    THEN order[Origin(t, p)].kindIndex - 1
                    ELSE order[Origin(t, p)].kindIndex
    <3>1. p \in 1..(Len(order) - 1)
      BY <2>6
    <3> QED
      BY ONLY <3>1, <2>1, <2>2, <2>3
  <2> QED
    BY ONLY <1>2, <2>4, <2>5, <2>6, <2>7 DEF Forgotten
<1>3. CASE t \notin DOMAIN order
  <2>1. /\ t = Len(order) + 1
        /\ \A p \in DOMAIN order : ~(order[p].kind = kind /\ order[p].kindIndex = k)
    BY <1>0, <1>3, TabOfFound
  <2>2. kind \notin K
    BY <1>0, <1>3, TabOfIsListed
  <2>3. rest = ShiftedDown(order, kind, k)
    BY <1>0, <1>3 DEF OrderWithout, ShiftedDown
  <2>4. /\ order \in Seq(Tab) /\ Counts \in [Kinds -> Nat] /\ K \in KindSets
        /\ Lists(order, Counts, K) /\ kind \in Kinds /\ kind \notin K
        /\ k \in 1..Counts[kind]
        /\ \A p \in DOMAIN order : ~(order[p].kind = kind /\ order[p].kindIndex = k)
    BY <1>1, <2>1, <2>2
  <2>5. /\ rest \in Seq(Tab) /\ Len(rest) = Len(order)
        /\ \A p \in DOMAIN order :
             /\ rest[p].kind = order[p].kind
             /\ rest[p].visibility = order[p].visibility
             /\ rest[p].kindIndex =
                  IF order[p].kind = kind /\ order[p].kindIndex > k
                  THEN order[p].kindIndex - 1 ELSE order[p].kindIndex
        /\ Lists(rest, OneLess(Counts, kind), K)
    BY ONLY <2>3, <2>4, ShiftedLists
  <2>6. DOMAIN rest = 1..Len(order)
    BY <2>5, LenProperties
  <2>7. /\ t \notin 1..Len(order) /\ t \in 1..(Len(order) + 1)
        /\ \A p \in 1..Len(order) : Origin(t, p) = p /\ p # t
    BY <1>1, <2>1 DEF Origin
  <2>8. ASSUME NEW p \in DOMAIN rest
        PROVE  /\ Origin(t, p) \in DOMAIN order \ {t}
               /\ rest[p].kind = order[Origin(t, p)].kind
               /\ rest[p].visibility = order[Origin(t, p)].visibility
               /\ rest[p].kindIndex =
                    IF /\ order[Origin(t, p)].kind = kind
                       /\ order[Origin(t, p)].kindIndex > k
                    THEN order[Origin(t, p)].kindIndex - 1
                    ELSE order[Origin(t, p)].kindIndex
    <3>1. p \in DOMAIN order /\ Origin(t, p) = p /\ p # t
      BY <1>1, <2>6, <2>7
    <3> QED
      BY ONLY <3>1, <2>5
  <2>9. \A p \in DOMAIN rest :
          /\ Origin(t, p) \in DOMAIN order \ {t}
          /\ rest[p].kind = order[Origin(t, p)].kind
          /\ rest[p].visibility = order[Origin(t, p)].visibility
          /\ rest[p].kindIndex =
               IF /\ order[Origin(t, p)].kind = kind
                  /\ order[Origin(t, p)].kindIndex > k
               THEN order[Origin(t, p)].kindIndex - 1
               ELSE order[Origin(t, p)].kindIndex
    BY ONLY <2>8
  <2>10. /\ rest \in Seq(Tab) /\ Len(rest) = Len(order) /\ Lists(rest, OneLess(Counts, kind), K)
         /\ t = Len(order) + 1 /\ t \in 1..(Len(order) + 1)
         /\ \A p \in DOMAIN order : order[p].kind = kind /\ order[p].kindIndex = k => p = t
    BY ONLY <2>1, <2>5, <2>7
  <2> QED
    BY ONLY <1>3, <2>9, <2>10 DEF Forgotten
<1> QED
  BY <1>2, <1>3

\* Where the active tab goes when tab t is removed.
LEMMA ActiveAfterType ==
  ASSUME NEW rest \in Seq(Tab), rest # <<>>, NEW t \in 1..(Len(rest) + 1),
         active \in 1..(Len(rest) + 2), NEW a \in ActiveAfter(t, rest)
  PROVE  /\ a \in 1..(Len(rest) + 1)
         /\ a \in DOMAIN rest => rest[a].visibility = "visible"
<1> DEFINE moved == IF active > t THEN active - 1
                    ELSE IF active = t /\ t > Len(rest) THEN Len(rest) ELSE active
<1>1. Len(rest) \in Nat \ {0} /\ DOMAIN rest = 1..Len(rest)
  BY LenProperties, EmptySeq
<1>2. moved \in 1..(Len(rest) + 1)
  BY <1>1
<1>3. a \in IF moved \notin DOMAIN rest THEN {moved} \cup FirstVisible(rest)
            ELSE IF rest[moved].visibility = "visible" THEN {moved}
            ELSE FirstVisible(rest)
  BY DEF ActiveAfter
<1> HIDE DEF moved
<1>4. CASE a \in FirstVisible(rest)
  BY <1>4, FirstVisibleIs
<1>5. CASE a \notin FirstVisible(rest)
  BY <1>1, <1>2, <1>3, <1>5
<1> QED
  BY <1>4, <1>5

\* Places of l tabs among the m that are left when place u is given up.
LEMMA PlacesLeft ==
  ASSUME NEW l \in Nat, NEW m \in Nat, NEW u \in 1..(l + 1), NEW v \in 1..(l + 1),
         u \in 1..l => m = l - 1, u \notin 1..l => m = l
  PROVE  u \in Nat \ {0} /\ u \in 1..(m + 1) /\ v \in 1..(m + 2)
OBVIOUS

\* The tab order, the active and the first visible tab after the removal of
\* one sheet.
LEMMA ForgetTabStep ==
  ASSUME NEW K \in KindSets, IInv(K), NEW kind \in Kinds, NEW k \in 1..KindCount(kind), Len(order) # 1,
         ForgetTab(TabOf(kind, k), kind, k)
  PROVE  /\ order' \in Seq(Tab)
         /\ TabOf(kind, k) \in Nat \ {0}
         /\ active' \in 1..(Len(order') + 1)
         /\ active' \in DOMAIN order' => order'[active'].visibility = "visible"
         /\ firstVisible' \in FirstVisible(order')
         /\ firstVisible' \in Nat \ {0}
         /\ Lists(order', OneLess(Counts, kind), K)
<1> DEFINE t == TabOf(kind, k)
           rest == OrderWithout(t, kind, k)
<1>0. Forgotten(t, rest, kind, k) /\ Lists(rest, OneLess(Counts, kind), K)
  BY ForgottenOrder, Zenon
<1>1. /\ t \in 1..(Len(order) + 1) /\ rest \in Seq(Tab)
      /\ t \in DOMAIN order => Len(rest) = Len(order) - 1
      /\ t \notin DOMAIN order => t = Len(order) + 1 /\ Len(rest) = Len(order)
      /\ Lists(rest, OneLess(Counts, kind), K)
  BY ONLY <1>0 DEF Forgotten
<1>2. /\ order' = rest
      /\ IF rest = <<>> THEN UNCHANGED <<active, firstVisible>>
         ELSE active' \in ActiveAfter(t, rest) /\ firstVisible' \in FirstVisible(rest)
  BY DEF ForgetTab
<1> HIDE DEF t, rest
<1>3. /\ Len(order) \in Nat /\ DOMAIN order = 1..Len(order) /\ order \in Seq(Tab)
      /\ Len(rest) \in Nat /\ DOMAIN rest = 1..Len(rest)
      /\ (Len(rest) = 0 <=> rest = <<>>) /\ (Len(order) = 0 <=> order = <<>>)
  <2>1. order \in Seq(Tab)
    BY DEF IInv, TypeOK
  <2> QED
    BY <1>1, <2>1, LengthOfSeq
<1>4. /\ t \in Nat \ {0} /\ t \in 1..(Len(rest) + 1)
      /\ active \in 1..(Len(rest) + 2)
  <2>1. active \in 1..(Len(order) + 1) /\ t \in 1..(Len(order) + 1)
    BY <1>1 DEF IInv, ActiveNeverHidden
  <2>2. /\ t \in 1..Len(order) => Len(rest) = Len(order) - 1
        /\ t \notin 1..Len(order) => Len(rest) = Len(order)
    BY ONLY <1>1, <1>3
  <2>3. Len(order) \in Nat /\ Len(rest) \in Nat
    BY ONLY <1>3
  <2> QED
    BY ONLY <2>1, <2>2, <2>3, PlacesLeft
<1>5. CASE rest = <<>>
  <2>1. order = <<>>
    BY <1>1, <1>3, <1>5
  <2>2. order' = order /\ active' = active /\ firstVisible' = firstVisible
    BY <2>1, <1>2, <1>5
  <2>3. ActiveNeverHidden /\ FirstVisibleFresh /\ firstVisible \in Nat \ {0}
    BY DEF IInv, TypeOK
  <2>4. /\ active' \in 1..(Len(order') + 1)
        /\ active' \in DOMAIN order' => order'[active'].visibility = "visible"
        /\ firstVisible' \in FirstVisible(order') /\ firstVisible' \in Nat \ {0}
    BY <2>2, <2>3 DEF ActiveNeverHidden, FirstVisibleFresh
  <2> QED
    BY <2>4, <1>1, <1>2, <1>4 DEF t
<1>6. CASE rest # <<>>
  <2>1. active \in 1..(Len(rest) + 2) /\ t \in 1..(Len(rest) + 1)
    BY ONLY <1>4
  <2>2. /\ active' \in 1..(Len(rest) + 1)
        /\ active' \in DOMAIN rest => rest[active'].visibility = "visible"
    <3>1. active' \in ActiveAfter(t, rest) /\ rest \in Seq(Tab)
      BY <1>1, <1>2, <1>6
    <3> QED
      BY ONLY <2>1, <3>1, <1>6, ActiveAfterType
  <2>3. firstVisible' \in FirstVisible(rest) /\ firstVisible' \in Nat \ {0}
    <3>1. firstVisible' \in FirstVisible(rest) /\ rest \in Seq(Tab)
      BY <1>1, <1>2, <1>6
    <3>2. firstVisible' \in 1..(Len(rest) + 1)
      BY ONLY <3>1, FirstVisibleIs
    <3> QED
      BY ONLY <3>1, <3>2, <1>3
  <2> QED
    BY <2>2, <2>3, <1>1, <1>2, <1>4 DEF t
<1> QED
  BY <1>5, <1>6

\* The scopes that survive a removal are scopes.
LEMMA ScopesWithoutType ==
  ASSUME TypeOK, NEW t \in Nat \ {0}
  PROVE  ScopesWithout(t) \in SUBSET ScopedName
<1> SUFFICES ASSUME NEW d \in definedNames
             PROVE  [d EXCEPT !.scope = IF @ > t THEN @ - 1 ELSE @] \in ScopedName
  BY DEF ScopesWithout
<1>1. d \in ScopedName /\ d.scope \in Nat
  BY DEF TypeOK, ScopedName
<1>2. (IF d.scope > t THEN d.scope - 1 ELSE d.scope) \in Nat
  BY <1>1
<1> QED
  BY <1>1, <1>2 DEF ScopedName

LEMMA RetireSourceType ==
  ASSUME TypeOK, NEW n, RetireSource(n)
  PROVE  source' \in Seq([name : SheetNames, part : Ids])
<1>1. source \in Seq([name : SheetNames, part : Ids])
  BY DEF TypeOK
<1>2. CASE UNCHANGED source
  BY <1>1, <1>2
<1>3. CASE \E j \in DOMAIN source : source' = Without(source, j)
  BY <1>1, <1>3, WithoutType
<1> QED
  BY <1>2, <1>3 DEF RetireSource, FirstOf

LEMMA RemoveWorksheetStep ==
  ASSUME NEW K \in KindSets, IInv(K), NEW i \in DOMAIN sheets, RemoveWorksheet(i)
  PROVE  IInv(K)'
<1>1. "worksheet" \in Kinds /\ i \in 1..KindCount("worksheet")
  BY TypesOf DEF IInv, Kinds, KindCount
<1>2. /\ order' \in Seq(Tab)
      /\ TabOf("worksheet", i) \in Nat \ {0}
      /\ active' \in 1..(Len(order') + 1)
      /\ active' \in DOMAIN order' => order'[active'].visibility = "visible"
      /\ firstVisible' \in FirstVisible(order') /\ firstVisible' \in Nat \ {0}
      /\ Lists(order', OneLess(Counts, "worksheet"), K)
  BY <1>1, ForgetTabStep DEF RemoveWorksheet
<1>3. active' \in Nat \ {0}
  BY <1>2, LenProperties
<1>4. sheets' \in Seq(Sheet) /\ Len(sheets') = Len(sheets) - 1
  BY WithoutType DEF IInv, TypeOK, RemoveWorksheet
<1>5. definedNames' \in SUBSET ScopedName
  BY <1>2, ScopesWithoutType DEF IInv, RemoveWorksheet
<1>6. source' \in Seq([name : SheetNames, part : Ids])
  BY RetireSourceType DEF IInv, RemoveWorksheet
<1>7. UNCHANGED <<chartsheets, slicers>>
  BY DEF RemoveWorksheet
<1>8. TypeOK'
  BY <1>2, <1>3, <1>4, <1>5, <1>6, <1>7 DEF IInv, TypeOK
<1>9. Counts' = OneLess(Counts, "worksheet")
  BY <1>4, <1>7 DEF Counts, KindCount, OneLess
<1>10. Ordered(K)'
  BY <1>2, <1>8, <1>9, OrderedIsListsNext
<1>11. ActiveNeverHidden' /\ FirstVisibleFresh'
  BY <1>2 DEF ActiveNeverHidden, FirstVisibleFresh
<1> QED
  BY <1>8, <1>10, <1>11 DEF IInv

LEMMA RemoveChartsheetStep ==
  ASSUME NEW K \in KindSets, IInv(K), NEW i \in DOMAIN chartsheets, RemoveChartsheet(i)
  PROVE  IInv(K)'
<1>1. "chartsheet" \in Kinds /\ i \in 1..KindCount("chartsheet")
  BY TypesOf DEF IInv, Kinds, KindCount
<1>2. /\ order' \in Seq(Tab)
      /\ TabOf("chartsheet", i) \in Nat \ {0}
      /\ active' \in 1..(Len(order') + 1)
      /\ active' \in DOMAIN order' => order'[active'].visibility = "visible"
      /\ firstVisible' \in FirstVisible(order') /\ firstVisible' \in Nat \ {0}
      /\ Lists(order', OneLess(Counts, "chartsheet"), K)
  BY <1>1, ForgetTabStep DEF RemoveChartsheet
<1>3. active' \in Nat \ {0}
  BY <1>2, LenProperties
<1>4. chartsheets' \in Seq(SheetNames) /\ Len(chartsheets') = Len(chartsheets) - 1
  BY WithoutType DEF IInv, TypeOK, RemoveChartsheet
<1>5. definedNames' \in SUBSET ScopedName
  BY <1>2, ScopesWithoutType DEF IInv, RemoveChartsheet
<1>6. UNCHANGED <<sheets, slicers, source>>
  BY DEF RemoveChartsheet
<1>7. TypeOK'
  BY <1>2, <1>3, <1>4, <1>5, <1>6 DEF IInv, TypeOK
<1>8. Counts' = OneLess(Counts, "chartsheet")
  BY <1>4, <1>6 DEF Counts, KindCount, Kinds, OneLess
<1>9. Ordered(K)'
  BY <1>2, <1>7, <1>8, OrderedIsListsNext
<1>10. ActiveNeverHidden' /\ FirstVisibleFresh'
  BY <1>2 DEF ActiveNeverHidden, FirstVisibleFresh
<1> QED
  BY <1>7, <1>9, <1>10 DEF IInv

\* A step that may change the visibilities but not which sheets the tabs show.
LEMMA SameSheetsStep ==
  ASSUME NEW K \in KindSets, IInv(K), TypeOK', UNCHANGED <<sheets, chartsheets>>,
         Lists(order', Counts, K)
  PROVE  Ordered(K)'
<1>1. Counts' = Counts
  BY DEF Counts, KindCount
<1> QED
  BY <1>1, OrderedIsListsNext

LEMMA SetVisibilityStep ==
  ASSUME NEW K \in KindSets, IInv(K), NEW p \in DOMAIN order, NEW v \in Visibilities, SetVisibility(p, v)
  PROVE  IInv(K)'
<1>1. /\ order \in Seq(Tab) /\ order[p] \in Tab /\ Lists(order, Counts, K)
      /\ Len(order) \in Nat /\ DOMAIN order = 1..Len(order)
      /\ active \in 1..(Len(order) + 1)
  BY TypesOf, OrderedIsLists DEF IInv, TypeOK, ActiveNeverHidden
<1>2. [order[p] EXCEPT !.visibility = v] \in Tab
  BY <1>1 DEF Tab
<1>3. order' = [order EXCEPT ![p] = [order[p] EXCEPT !.visibility = v]]
  BY DEF SetVisibility
<1>4. order' \in Seq(Tab) /\ Len(order') = Len(order)
  BY <1>1, <1>2, <1>3, ReplacedType
<1>5. /\ DOMAIN order' = DOMAIN order
      /\ order'[p] = [order[p] EXCEPT !.visibility = v]
      /\ \A q \in DOMAIN order : q # p => order'[q] = order[q]
  BY <1>3
<1>6. /\ order'[p].kind = order[p].kind /\ order'[p].kindIndex = order[p].kindIndex
      /\ order'[p].visibility = v
  BY <1>1, <1>5 DEF Tab
<1>7. \A q \in DOMAIN order : /\ order'[q].kind = order[q].kind
                              /\ order'[q].kindIndex = order[q].kindIndex
  BY <1>5, <1>6
<1>8. Lists(order', Counts, K)
  BY <1>1, <1>5, <1>7, SameListing
<1>9. firstVisible' \in FirstVisible(order') /\ firstVisible' \in Nat \ {0}
  <2>1. firstVisible' \in FirstVisible(order')
    BY DEF SetVisibility
  <2> QED
    BY <2>1, <1>1, <1>4, FirstVisibleIs
<1>10. /\ active' \in 1..(Len(order') + 1)
       /\ active' \in DOMAIN order' => order'[active'].visibility = "visible"
  <2>1. CASE p = active /\ v # "visible"
    BY <2>1, <1>4, FirstVisibleIs DEF SetVisibility
  <2>2. CASE ~(p = active /\ v # "visible")
    <3>1. active' = active
      BY <2>2 DEF SetVisibility
    <3>2. CASE p = active
      BY <2>2, <3>1, <3>2, <1>1, <1>4, <1>6
    <3>3. CASE p # active
      BY <3>1, <3>3, <1>1, <1>4, <1>5 DEF IInv, ActiveNeverHidden
    <3> QED
      BY <3>2, <3>3
  <2> QED
    BY <2>1, <2>2
<1>11. TypeOK'
  <2>1. active' \in Nat \ {0}
    BY <1>1, <1>4, <1>10
  <2> QED
    BY <2>1, <1>4, <1>9 DEF IInv, TypeOK, SetVisibility
<1>12. Ordered(K)'
  BY <1>8, <1>11, SameSheetsStep DEF SetVisibility
<1> QED
  BY <1>9, <1>10, <1>11, <1>12 DEF IInv, ActiveNeverHidden, FirstVisibleFresh

LEMMA SetActiveStep ==
  ASSUME NEW K \in KindSets, IInv(K), NEW p \in DOMAIN order, SetActive(p)
  PROVE  IInv(K)'
<1>1. /\ order \in Seq(Tab) /\ Lists(order, Counts, K)
      /\ Len(order) \in Nat /\ DOMAIN order = 1..Len(order)
  BY TypesOf, OrderedIsLists DEF IInv, TypeOK
<1>2. firstVisible' \in FirstVisible(order) /\ firstVisible' \in Nat \ {0}
  BY <1>1, FirstVisibleIs DEF SetActive
<1>3. active' = p /\ order[p].visibility = "visible" /\ order' = order
  BY DEF SetActive
<1>4. TypeOK'
  BY <1>1, <1>2, <1>3 DEF IInv, TypeOK, SetActive
<1>5. Ordered(K)'
  BY <1>1, <1>3, <1>4, SameSheetsStep DEF SetActive
<1> QED
  BY <1>1, <1>2, <1>3, <1>4, <1>5 DEF IInv, ActiveNeverHidden, FirstVisibleFresh

LEMMA MoveSheetStep ==
  ASSUME NEW K \in KindSets, IInv(K), NEW from \in DOMAIN order, NEW to \in DOMAIN order,
         MoveSheet(from, to)
  PROVE  IInv(K)'
<1>1. /\ order \in Seq(Tab) /\ Lists(order, Counts, K)
      /\ Len(order) \in Nat /\ DOMAIN order = 1..Len(order)
      /\ active \in 1..(Len(order) + 1)
  BY TypesOf, OrderedIsLists DEF IInv, TypeOK, ActiveNeverHidden
<1>2. /\ order' = Moved(order, from, to)
      /\ \A p \in DOMAIN order : order'[p] = order[CameFrom(from, to, p)]
  BY DEF MoveSheet, Moved
<1>3. order' \in Seq(Tab) /\ Len(order') = Len(order) /\ Lists(order', Counts, K)
  BY <1>1, <1>2, MovedLists
<1>4. firstVisible' \in FirstVisible(order') /\ firstVisible' \in Nat \ {0}
  <2>1. firstVisible' \in FirstVisible(order')
    BY DEF MoveSheet
  <2> QED
    BY <2>1, <1>1, <1>3, FirstVisibleIs
<1>5. active' = IF active = from THEN to
                ELSE IF from < active /\ active <= to THEN active - 1
                ELSE IF to <= active /\ active < from THEN active + 1
                ELSE active
  BY DEF MoveSheet
<1>6. /\ active' \in 1..(Len(order) + 1)
      /\ active' \in DOMAIN order => /\ active \in DOMAIN order
                                     /\ CameFrom(from, to, active') = active
  BY <1>1, <1>5 DEF CameFrom
<1>7. active' \in DOMAIN order => order'[active'].visibility = "visible"
  BY <1>1, <1>2, <1>3, <1>6, LenProperties DEF IInv, ActiveNeverHidden
<1>8. TypeOK'
  <2>1. active' \in Nat \ {0}
    BY <1>1, <1>6
  <2> QED
    BY <2>1, <1>3, <1>4 DEF IInv, TypeOK, MoveSheet
<1>9. Ordered(K)'
  BY <1>3, <1>8, SameSheetsStep DEF MoveSheet
<1>10. ActiveNeverHidden' /\ FirstVisibleFresh'
  BY <1>2, <1>3, <1>4, <1>6, <1>7 DEF ActiveNeverHidden, FirstVisibleFresh
<1> QED
  BY <1>8, <1>9, <1>10 DEF IInv

\* What a package says of each tab, and of each worksheet's print settings.
LEMMA PackageType ==
  ASSUME NEW K \in KindSets, IInv(K), NEW p \in DOMAIN order
  PROVE  /\ TabRecord(p).kind = order[p].kind
         /\ TabRecord(p).visibility = order[p].visibility
         /\ TabRecord(p).name \in SheetNames
         /\ order[p].kind = "worksheet" => TabRecord(p).id \in Ids
<1>1. /\ order[p].kind \in Kinds
      /\ order[p].kindIndex \in 1..KindCount(order[p].kind)
  BY TypesOf DEF IInv, Ordered, OrderInRange, KindCount
<1>2. CASE order[p].kind = "worksheet"
  <2>1. sheets[order[p].kindIndex] \in Sheet
    BY <1>1, <1>2, TypesOf DEF IInv, KindCount
  <2> QED
    BY <2>1, <1>2 DEF TabRecord, TabName, Sheet
<1>3. CASE order[p].kind = "chartsheet"
  <2>1. chartsheets[order[p].kindIndex] \in SheetNames
    BY <1>1, <1>3, TypesOf DEF IInv, KindCount
  <2> QED
    BY <2>1, <1>3 DEF TabRecord, TabName
<1> QED
  BY <1>1, <1>2, <1>3 DEF Kinds

LEMMA SettingsType ==
  ASSUME NEW K \in KindSets, IInv(K), NEW p
  PROVE  /\ SettingAt(PrintAreas, p) \in Ranges \cup {None}
         /\ SettingAt(PrintTitles, p) \in Ranges \cup {None}
<1>1. ASSUME p \in DOMAIN PrintAreas
      PROVE  SettingAt(PrintAreas, p) \in Ranges \cup {None}
  <2>1. p \in DOMAIN order /\ order[p].kind = "worksheet"
    BY <1>1 DEF PrintAreas
  <2>2. order[p].kindIndex \in 1..KindCount("worksheet")
    BY <2>1, TypesOf DEF IInv, Ordered, OrderInRange, KindCount
  <2>3. sheets[order[p].kindIndex] \in Sheet
    BY <2>2, TypesOf DEF IInv, KindCount
  <2> QED
    BY <2>3, <1>1 DEF PrintAreas, Sheet, SettingAt
<1>2. ASSUME p \in DOMAIN PrintTitles
      PROVE  SettingAt(PrintTitles, p) \in Ranges \cup {None}
  <2>1. p \in DOMAIN sheets
    BY <1>2 DEF PrintTitles
  <2>2. sheets[p] \in Sheet
    BY <2>1, TypesOf DEF IInv
  <2> QED
    BY <2>2, <1>2 DEF PrintTitles, Sheet, SettingAt
<1>3. p \notin DOMAIN PrintAreas => SettingAt(PrintAreas, p) = None
  BY DEF SettingAt
<1>4. p \notin DOMAIN PrintTitles => SettingAt(PrintTitles, p) = None
  BY DEF SettingAt
<1> QED
  BY <1>1, <1>2, <1>3, <1>4

\* The lenient loader's repair changes a visibility and nothing else.
LEMMA ShowSomeType ==
  ASSUME NEW o \in Seq(Tab)
  PROVE  /\ ShowSome(o) \in Seq(Tab) /\ DOMAIN ShowSome(o) = DOMAIN o
         /\ \A p \in DOMAIN o : /\ ShowSome(o)[p].kind = o[p].kind
                                /\ ShowSome(o)[p].kindIndex = o[p].kindIndex
<1>1. CASE o # <<>> /\ VisibleTabs(o) = {}
  <2>1. 1 \in DOMAIN o /\ o[1] \in Tab
    BY <1>1, EmptySeq, LenProperties, ElementOfSeq
  <2>2. [o[1] EXCEPT !.visibility = "visible"] \in Tab
    BY <2>1 DEF Tab, Visibilities
  <2>3. ShowSome(o) = [o EXCEPT ![1] = [o[1] EXCEPT !.visibility = "visible"]]
    BY <1>1 DEF ShowSome
  <2>4. ShowSome(o) \in Seq(Tab) /\ DOMAIN ShowSome(o) = DOMAIN o
    BY <2>1, <2>2, <2>3, ReplacedType
  <2> QED
    BY <2>1, <2>3, <2>4 DEF Tab
<1>2. CASE ~(o # <<>> /\ VisibleTabs(o) = {})
  BY <1>2 DEF ShowSome
<1> QED
  BY <1>1, <1>2

\* T are some tabs, W the worksheets among them and C the chartsheets, with
\* others outside T when K does not ask for all their tabs.
KeptTabs(T, W, C, K) ==
  /\ T \subseteq DOMAIN order
  /\ \A p : p \in W <=> p \in T /\ order[p].kind = "worksheet"
  /\ C \subseteq DOMAIN order
  /\ \A p \in C : order[p].kind = "chartsheet"
  /\ \A p \in T : order[p].kind = "chartsheet" => p \in C
  /\ "chartsheet" \in K => C \subseteq T

\* The order a load gives the tabs it keeps.
LEMMA ReadOrderType ==
  ASSUME NEW K \in KindSets, IInv(K), NEW a, NEW T, NEW stateless, NEW W, NEW C,
         KeptTabs(T, W, C, K), NEW tabAt \in Ascending(T),
         NEW sheetAt \in Ascending(W), NEW chartAt \in Ascending(C)
  PROVE  /\ Cardinality(W) \in Nat /\ sheetAt \in [1..Cardinality(W) -> W]
         /\ Cardinality(C) \in Nat /\ chartAt \in [1..Cardinality(C) -> C]
         /\ ReadOrder(Package(a), tabAt, sheetAt, chartAt, stateless) \in Seq(Tab)
         /\ \A n : n["worksheet"] = Cardinality(W) /\ n["chartsheet"] = Cardinality(C)
                     => Lists(ReadOrder(Package(a), tabAt, sheetAt, chartAt, stateless), n, K)
<1> USE DEF KeptTabs
<1> DEFINE o == ReadOrder(Package(a), tabAt, sheetAt, chartAt, stateless)
           kind == [p \in T |-> order[p].kind]
<1>1. /\ IsFiniteSet(T) /\ T \subseteq Nat
      /\ \A p \in T : order[p].kind \in Kinds /\ order[p].visibility \in Visibilities
  <2>1. Len(order) \in Nat /\ DOMAIN order = 1..Len(order)
    BY TypesOf DEF IInv
  <2>2. IsFiniteSet(1..Len(order)) /\ (\A p \in 1..Len(order) : p \in Nat)
          /\ T \subseteq 1..Len(order)
    <3>1. IsFiniteSet(1..Len(order)) /\ \A p \in 1..Len(order) : p \in Nat
      BY ONLY <2>1, FS_Interval
    <3> QED
      BY <2>1, <3>1
  <2>3. IsFiniteSet(T)
    BY ONLY <2>2, FS_Subset, Zenon
  <2>4. T \subseteq Nat
    BY ONLY <2>2
  <2> QED
    BY <2>3, <2>4, TypesOf DEF IInv
<1>2. /\ \A p : p \in W <=> p \in T /\ kind[p] = "worksheet"
      /\ \A p \in T : p \in C <=> kind[p] = "chartsheet"
  OBVIOUS
<1>3. kind \in [T -> Kinds]
  BY <1>1
<1>4. \A p \in T : /\ Package(a).tabs[p].kind = order[p].kind
                   /\ Package(a).tabs[p].visibility = order[p].visibility
  BY PackageType DEF Package
<1> HIDE DEF kind
<1>5. /\ IsFiniteSet(W) /\ (\A p \in W : p \in Nat /\ p \in T)
      /\ IsFiniteSet(C) /\ (\A p \in C : p \in Nat)
  <2>1. W \subseteq T
    BY <1>2
  <2>2. IsFiniteSet(W)
    BY <2>1, <1>1, FS_Subset
  <2>3. IsFiniteSet(DOMAIN order) /\ \A p \in DOMAIN order : p \in Nat
    <3>1. Len(order) \in Nat /\ DOMAIN order = 1..Len(order)
      BY TypesOf DEF IInv
    <3> QED
      BY ONLY <3>1, FS_Interval
  <2>4. IsFiniteSet(C) /\ \A p \in C : p \in Nat
    <3>1. C \subseteq DOMAIN order
      OBVIOUS
    <3>2. IsFiniteSet(C)
      BY ONLY <2>3, <3>1, FS_Subset, Zenon
    <3> QED
      BY ONLY <2>3, <3>1, <3>2
  <2> QED
    BY <2>1, <2>2, <2>4, <1>1
<1>7. /\ Cardinality(T) \in Nat /\ tabAt \in [1..Cardinality(T) -> T]
      /\ Cardinality(W) \in Nat /\ sheetAt \in [1..Cardinality(W) -> W]
      /\ \A p \in W : PlaceIn(sheetAt, p) \in 1..Cardinality(W)
      /\ Cardinality(C) \in Nat /\ chartAt \in [1..Cardinality(C) -> C]
      /\ \A p \in C : PlaceIn(chartAt, p) \in 1..Cardinality(C)
  BY <1>1, <1>5, AscendingNumbers
<1>8. /\ DOMAIN o = DOMAIN tabAt
      /\ \A q \in DOMAIN tabAt :
           /\ o[q].kind = kind[tabAt[q]]
           /\ o[q].kindIndex = PlaceIn(IF kind[tabAt[q]] = "worksheet"
                                       THEN sheetAt ELSE chartAt, tabAt[q])
  BY <1>1, <1>2, <1>4, <1>7 DEF ReadOrder, kind
<1>9. \A q \in DOMAIN tabAt : o[q] \in Tab
  <2> SUFFICES ASSUME NEW q \in DOMAIN tabAt PROVE o[q] \in Tab
    OBVIOUS
  <2> DEFINE index == PlaceIn(IF kind[tabAt[q]] = "worksheet"
                              THEN sheetAt ELSE chartAt, tabAt[q])
  <2>1. tabAt[q] \in T
    BY <1>7
  <2>2. kind[tabAt[q]] = order[tabAt[q]].kind /\ order[tabAt[q]].kind \in Kinds
    BY <2>1, <1>1 DEF kind
  <2>3. index \in Nat \ {0}
    <3>1. CASE kind[tabAt[q]] = "worksheet"
      BY <3>1, <2>1, <1>1, <1>2, <1>7
    <3>2. CASE kind[tabAt[q]] = "chartsheet"
      BY <3>2, <2>1, <1>1, <1>2, <1>7
    <3> QED
      BY <3>1, <3>2, <2>2 DEF Kinds
  <2>4. o[q] = [kind |-> order[tabAt[q]].kind, kindIndex |-> index,
                visibility |-> IF tabAt[q] \in stateless THEN "visible"
                               ELSE order[tabAt[q]].visibility]
    BY <2>1, <2>2, <1>4 DEF ReadOrder
  <2>5. (IF tabAt[q] \in stateless THEN "visible" ELSE order[tabAt[q]].visibility)
          \in Visibilities
    BY <2>1, <1>1 DEF Visibilities
  <2> HIDE DEF index, o
  <2> QED
    BY <2>1, <2>3, <2>4, <2>5, <1>1 DEF Tab
<1> HIDE DEF o
<1>10. o \in [1..Cardinality(T) -> Tab]
  <2>1. o = [q \in DOMAIN o |-> o[q]]
    BY DEF o, ReadOrder
  <2> QED
    BY <2>1, <1>7, <1>8, <1>9
<1>11. o \in Seq(Tab)
  BY <1>7, <1>10, FunctionIsSeq
<1>12. ASSUME NEW n, n["worksheet"] = Cardinality(W), n["chartsheet"] = Cardinality(C)
       PROVE  Lists(o, n, K)
  <2>1. /\ KindIs(W, T, kind, "worksheet")
        /\ IsFiniteSet(C) /\ C \subseteq Nat
        /\ \A p \in T : p \in C <=> kind[p] = "chartsheet"
        /\ "chartsheet" \in K => C \subseteq T
    BY <1>2, <1>5 DEF KindIs
  <2>2. Numbered(o, kind, tabAt, sheetAt, chartAt)
    BY <1>8 DEF Numbered
  <2>3. /\ IsFiniteSet(T) /\ T \subseteq Nat /\ tabAt \in Ascending(T)
        /\ sheetAt \in Ascending(W) /\ chartAt \in Ascending(C)
        /\ K \in KindSets
    BY <1>1
  <2> QED
    BY ONLY <1>3, <1>12, <2>1, <2>2, <2>3, ReadLists, Zenon
<1> QED
  BY <1>7, <1>11, <1>12 DEF o

\* The worksheets and the chartsheets among the tabs a load reads, those that
\* fail late with them.
Worksheets(kept)           == OfKind(kept, "worksheet")
Chartsheets(kept, orphans) == OfKind(kept \cup orphans, "chartsheet")

\* The tabs a load can read, those that come back without their state and the
\* chartsheets that come back without a tab.
Readable(kept, stateless, orphans) ==
  /\ kept \subseteq DOMAIN order
  /\ stateless \subseteq Worksheets(kept)
  /\ orphans \subseteq OfKind(DOMAIN order \ kept, "chartsheet")

\* The state after a load of the package with active tab a, the tabs, the
\* worksheets, their source parts and the chartsheets numbered by tabAt,
\* sheetAt, sourceAt and chartAt.
LoadedAs(a, stateless, tabAt, sheetAt, sourceAt, chartAt) ==
  LET shown == ShowSome(ReadOrder(Package(a), tabAt, sheetAt, chartAt, stateless))
      asked == AskedTabs(Package(a), tabAt, shown)
  IN  /\ sheets' = ReadSheets(Package(a), tabAt, sheetAt)
      /\ chartsheets' = [k \in DOMAIN chartAt |-> Package(a).tabs[chartAt[k]].name]
      /\ order' = shown
      /\ firstVisible' \in FirstVisible(shown)
      /\ active' \in IF asked = {} THEN FirstVisible(shown) ELSE FirstOf(asked)
      /\ source' = ReadSources(Package(a), sheetAt, sourceAt)
      /\ definedNames' = Package(a).names
      /\ slicers' = <<>>

LEMMA ReadTabsLoads ==
  ASSUME NEW a, NEW kept, NEW stateless, NEW orphans,
         ReadTabs(Package(a), kept, stateless, orphans)
  PROVE  \E tabAt \in Ascending(kept), sheetAt \in Ascending(Worksheets(kept)),
            sourceAt \in Ascending(Worksheets(kept) \ stateless),
            chartAt \in Ascending(Chartsheets(kept, orphans)) :
           LoadedAs(a, stateless, tabAt, sheetAt, sourceAt, chartAt)
BY DEF ReadTabs, LoadedAs, Worksheets, Chartsheets

\* The worksheets, their source parts and the chartsheets of a load have
\* numbers of their own, one after the other.
KindNumbers(kept, stateless, orphans, sheetAt, sourceAt, chartAt) ==
  /\ \A p : p \in Worksheets(kept) <=> p \in kept /\ order[p].kind = "worksheet"
  /\ \A p : p \in Chartsheets(kept, orphans)
              <=> p \in kept \cup orphans /\ order[p].kind = "chartsheet"
  /\ \A p \in Worksheets(kept) : p \in DOMAIN order
  /\ \A p \in Chartsheets(kept, orphans) : p \in DOMAIN order
  /\ \A k \in DOMAIN sheetAt : sheetAt[k] \in Worksheets(kept)
  /\ \A k, l \in DOMAIN sheetAt : sheetAt[k] = sheetAt[l] => k = l
  /\ \A p \in Worksheets(kept) :
       PlaceIn(sheetAt, p) \in DOMAIN sheetAt /\ sheetAt[PlaceIn(sheetAt, p)] = p
  /\ \A k \in DOMAIN sourceAt : sourceAt[k] \in Worksheets(kept) \ stateless
  /\ \A k, l \in DOMAIN sourceAt : sourceAt[k] = sourceAt[l] => k = l
  /\ \A k \in DOMAIN chartAt : chartAt[k] \in Chartsheets(kept, orphans)
  /\ \A k, l \in DOMAIN chartAt : chartAt[k] = chartAt[l] => k = l
  /\ \A p \in Chartsheets(kept, orphans) :
       PlaceIn(chartAt, p) \in DOMAIN chartAt /\ chartAt[PlaceIn(chartAt, p)] = p
  /\ \E n \in Nat : DOMAIN sourceAt = 1..n

LEMMA KindsAreNumbered ==
  ASSUME NEW K \in KindSets, IInv(K), NEW kept, NEW stateless, NEW orphans,
         Readable(kept, stateless, orphans),
         NEW sheetAt \in Ascending(Worksheets(kept)),
         NEW sourceAt \in Ascending(Worksheets(kept) \ stateless),
         NEW chartAt \in Ascending(Chartsheets(kept, orphans))
  PROVE  KindNumbers(kept, stateless, orphans, sheetAt, sourceAt, chartAt)
<1> DEFINE W == Worksheets(kept)
           R == Worksheets(kept) \ stateless
           C == Chartsheets(kept, orphans)
<1>1. /\ \A p : p \in W <=> p \in kept /\ order[p].kind = "worksheet"
      /\ \A p : p \in C <=> p \in kept \cup orphans /\ order[p].kind = "chartsheet"
  BY DEF Worksheets, Chartsheets, OfKind
<1>2. \A p \in kept \cup orphans : p \in DOMAIN order
  BY DEF Readable, OfKind
<1>3. IsFiniteSet(DOMAIN order) /\ \A p \in DOMAIN order : p \in Nat
  <2>1. Len(order) \in Nat /\ DOMAIN order = 1..Len(order)
    BY TypesOf DEF IInv
  <2> QED
    BY ONLY <2>1, FS_Interval
<1>4. sheetAt \in Ascending(W) /\ sourceAt \in Ascending(R) /\ chartAt \in Ascending(C)
        /\ R \subseteq W
  OBVIOUS
<1> HIDE DEF W, R, C
<1>5. W \subseteq DOMAIN order /\ R \subseteq DOMAIN order /\ C \subseteq DOMAIN order
  BY <1>1, <1>2, <1>4
<1>6. /\ IsFiniteSet(W) /\ \A p \in W : p \in Nat
      /\ IsFiniteSet(R) /\ \A p \in R : p \in Nat
      /\ IsFiniteSet(C) /\ \A p \in C : p \in Nat
  BY <1>3, <1>5, FS_Subset
<1>7. /\ sheetAt \in [1..Cardinality(W) -> W]
      /\ \A p \in W : PlaceIn(sheetAt, p) \in 1..Cardinality(W) /\ sheetAt[PlaceIn(sheetAt, p)] = p
      /\ \A k, l \in 1..Cardinality(W) : sheetAt[k] = sheetAt[l] => k = l
  BY ONLY <1>4, <1>6, AscendingNumbers
<1>8. /\ Cardinality(R) \in Nat /\ sourceAt \in [1..Cardinality(R) -> R]
      /\ \A k, l \in 1..Cardinality(R) : sourceAt[k] = sourceAt[l] => k = l
  BY ONLY <1>4, <1>6, AscendingNumbers
<1>9. /\ chartAt \in [1..Cardinality(C) -> C]
      /\ \A p \in C : PlaceIn(chartAt, p) \in 1..Cardinality(C) /\ chartAt[PlaceIn(chartAt, p)] = p
      /\ \A k, l \in 1..Cardinality(C) : chartAt[k] = chartAt[l] => k = l
  BY ONLY <1>4, <1>6, AscendingNumbers
<1>10. /\ DOMAIN sourceAt = 1..Cardinality(R)
       /\ \A k \in DOMAIN sourceAt : sourceAt[k] \in R
       /\ \A k, l \in DOMAIN sourceAt : sourceAt[k] = sourceAt[l] => k = l
  BY <1>8
<1>11. /\ \A k \in DOMAIN sheetAt : sheetAt[k] \in W
       /\ \A k, l \in DOMAIN sheetAt : sheetAt[k] = sheetAt[l] => k = l
       /\ \A p \in W : PlaceIn(sheetAt, p) \in DOMAIN sheetAt /\ sheetAt[PlaceIn(sheetAt, p)] = p
  BY <1>7
<1>12. /\ \A k \in DOMAIN chartAt : chartAt[k] \in C
       /\ \A k, l \in DOMAIN chartAt : chartAt[k] = chartAt[l] => k = l
       /\ \A p \in C : PlaceIn(chartAt, p) \in DOMAIN chartAt /\ chartAt[PlaceIn(chartAt, p)] = p
  BY <1>9
<1>13. \E n \in Nat : DOMAIN sourceAt = 1..n
  BY <1>8, <1>10
<1>14. (\A p \in W : p \in DOMAIN order) /\ (\A p \in C : p \in DOMAIN order)
  BY <1>5
<1> QED
  BY ONLY <1>1, <1>10, <1>11, <1>12, <1>13, <1>14 DEF W, R, C, KindNumbers

\* A load of the tabs kept, all of a package's or those a lenient load could
\* read.  Unless a chartsheet fails late, every sheet it keeps has a tab.
LEMMA ReadTabsStep ==
  ASSUME NEW K \in KindSets, IInv(K), NEW a, NEW kept, NEW stateless, NEW orphans,
         Readable(kept, stateless, orphans), "chartsheet" \in K => orphans = {},
         ReadTabs(Package(a), kept, stateless, orphans)
  PROVE  IInv(K)'
<1> DEFINE W == Worksheets(kept)
           R == Worksheets(kept) \ stateless
           C == Chartsheets(kept, orphans)
           pkg == Package(a)
<1>2. PICK tabAt \in Ascending(kept), sheetAt \in Ascending(W),
           sourceAt \in Ascending(R), chartAt \in Ascending(C) :
        LoadedAs(a, stateless, tabAt, sheetAt, sourceAt, chartAt)
  BY ReadTabsLoads
<1> DEFINE read == ReadOrder(pkg, tabAt, sheetAt, chartAt, stateless)
           asked == AskedTabs(pkg, tabAt, order')
<1>3. /\ kept \subseteq DOMAIN order
      /\ \A p : p \in W <=> p \in kept /\ order[p].kind = "worksheet"
      /\ C \subseteq DOMAIN order /\ \A p \in C : order[p].kind = "chartsheet"
      /\ \A p \in kept : order[p].kind = "chartsheet" => p \in C
      /\ "chartsheet" \in K => C \subseteq kept
      /\ \A p \in W : p \in DOMAIN order
      /\ \A k \in DOMAIN sourceAt : sourceAt[k] \in W
      /\ \E n \in Nat : DOMAIN sourceAt = 1..n
  <2>1. \A p : p \in C <=> p \in kept \cup orphans /\ order[p].kind = "chartsheet"
    BY DEF Chartsheets, OfKind
  <2>2. kept \subseteq DOMAIN order
    BY DEF Readable
  <2>3. /\ \A p : p \in W <=> p \in kept /\ order[p].kind = "worksheet"
        /\ \A p \in W : p \in DOMAIN order
        /\ \A p \in C : p \in DOMAIN order
        /\ \A k \in DOMAIN sourceAt : sourceAt[k] \in R
        /\ \E n \in Nat : DOMAIN sourceAt = 1..n
    <3>1. KindNumbers(kept, stateless, orphans, sheetAt, sourceAt, chartAt)
      BY KindsAreNumbered, Zenon
    <3> QED
      BY ONLY <3>1 DEF KindNumbers
  <2>4. "chartsheet" \in K => orphans = {}
    OBVIOUS
  <2>5. \A k \in DOMAIN sourceAt : sourceAt[k] \in W
    BY <2>3
  <2> QED
    BY ONLY <2>1, <2>2, <2>3, <2>4, <2>5
<1>4. /\ sheets' = ReadSheets(pkg, tabAt, sheetAt)
      /\ chartsheets' = [k \in DOMAIN chartAt |-> pkg.tabs[chartAt[k]].name]
      /\ order' = ShowSome(read) /\ firstVisible' \in FirstVisible(order')
      /\ active' \in IF asked = {} THEN FirstVisible(order') ELSE FirstOf(asked)
      /\ source' = ReadSources(pkg, sheetAt, sourceAt)
      /\ definedNames' = pkg.names /\ slicers' = <<>>
  BY <1>2 DEF LoadedAs
<1>5. asked \subseteq VisibleTabs(order')
  BY DEF AskedTabs
<1>6. /\ \A p \in DOMAIN order : /\ pkg.tabs[p].name \in SheetNames
                                 /\ p \in W => pkg.tabs[p].id \in Ids
      /\ \A p : /\ SettingAt(pkg.areas, p) \in Ranges \cup {None}
                /\ SettingAt(pkg.titles, p) \in Ranges \cup {None}
      /\ pkg.names = definedNames
  BY <1>3, PackageType, SettingsType DEF Package
<1> HIDE DEF W, R, C, pkg, asked
<1>7. /\ Cardinality(W) \in Nat /\ sheetAt \in [1..Cardinality(W) -> W]
      /\ Cardinality(C) \in Nat /\ chartAt \in [1..Cardinality(C) -> C]
      /\ read \in Seq(Tab)
      /\ \A n : n["worksheet"] = Cardinality(W) /\ n["chartsheet"] = Cardinality(C)
                  => Lists(read, n, K)
  <2>1. /\ tabAt \in Ascending(kept)
        /\ sheetAt \in Ascending(W) /\ chartAt \in Ascending(C)
        /\ IInv(K) /\ K \in KindSets
    OBVIOUS
  <2>2. KeptTabs(kept, W, C, K)
    BY ONLY <1>3 DEF KeptTabs
  <2> QED
    BY ONLY <2>1, <2>2, ReadOrderType DEF pkg, read
<1> HIDE DEF read
<1>8. sheets' \in Seq(Sheet) /\ Len(sheets') = Cardinality(W)
  <2>1. \A k \in 1..Cardinality(W) : sheetAt[k] \in W /\ sheetAt[k] \in DOMAIN order
    BY <1>3, <1>7
  <2>2. DOMAIN sheetAt = 1..Cardinality(W)
    BY <1>7
  <2>3. sheets' \in [1..Cardinality(W) -> Sheet]
    BY <2>1, <2>2, <1>4, <1>6 DEF ReadSheets, Sheet
  <2> QED
    BY <2>3, <1>7, FunctionIsSeq
<1>9. chartsheets' \in Seq(SheetNames) /\ Len(chartsheets') = Cardinality(C)
  <2>1. chartsheets' \in [1..Cardinality(C) -> SheetNames]
    BY <1>3, <1>4, <1>6, <1>7
  <2> QED
    BY <2>1, <1>7, FunctionIsSeq
<1>10. source' \in Seq([name : SheetNames, part : Ids])
  <2>1. PICK n \in Nat : DOMAIN sourceAt = 1..n
    BY <1>3
  <2>2. \A k \in 1..n : sourceAt[k] \in W /\ sourceAt[k] \in DOMAIN order
    BY <2>1, <1>3
  <2>3. source' \in [1..n -> [name : SheetNames, part : Ids]]
    BY <2>1, <2>2, <1>4, <1>6 DEF ReadSources
  <2> QED
    BY <2>3, FunctionIsSeq
<1>11. /\ order' \in Seq(Tab) /\ DOMAIN order' = DOMAIN read
       /\ \A p \in DOMAIN read : /\ order'[p].kind = read[p].kind
                                 /\ order'[p].kindIndex = read[p].kindIndex
  BY <1>4, <1>7, ShowSomeType
<1>12. Len(order') \in Nat /\ DOMAIN order' = 1..Len(order')
  BY <1>11, LenProperties
<1>13. firstVisible' \in Nat \ {0} /\ FirstVisibleFresh'
  BY <1>4, <1>11, <1>12, FirstVisibleIs DEF FirstVisibleFresh
<1>14. active' \in Nat \ {0} /\ ActiveNeverHidden'
  <2>1. CASE active' \in FirstVisible(order')
    BY <2>1, <1>11, <1>12, FirstVisibleIs DEF ActiveNeverHidden
  <2>2. CASE active' \in FirstOf(asked)
    <3>1. active' \in DOMAIN order' /\ order'[active'].visibility = "visible"
      BY <2>2, <1>5 DEF FirstOf, VisibleTabs
    <3> QED
      BY <3>1, <1>12 DEF ActiveNeverHidden
  <2> QED
    BY <2>1, <2>2, <1>4
<1>15. TypeOK'
  BY <1>4, <1>6, <1>8, <1>9, <1>10, <1>11, <1>13, <1>14, EmptySeq DEF IInv, TypeOK
<1>16. Ordered(K)'
  <2>1. Counts'["worksheet"] = Cardinality(W) /\ Counts'["chartsheet"] = Cardinality(C)
    BY <1>8, <1>9, <1>15, OrderedIsListsNext
  <2>2. Lists(read, Counts', K)
    BY <2>1, <1>7
  <2>3. Lists(order', Counts', K)
    BY <2>2, <1>11, SameListing
  <2> QED
    BY <2>3, <1>15, OrderedIsListsNext
<1> QED
  BY <1>13, <1>14, <1>15, <1>16 DEF IInv

-----------------------------------------------------------------------------
(* The theorems *)

LEMMA InitIInv == ASSUME NEW K \in KindSets PROVE Init => IInv(K)
<1> HAVE Init
<1>1. Len(order) = 0 /\ Len(sheets) = 0 /\ Len(chartsheets) = 0 /\ DOMAIN order = {}
  BY EmptySeq DEF Init
<1>2. TypeOK
  BY EmptySeq DEF Init, TypeOK
<1>3. Ordered(K)
  BY <1>1 DEF Ordered, OrderInRange, OrderOnce, HaveTabs, KindCount
<1>4. ActiveNeverHidden /\ FirstVisibleFresh
  BY <1>1 DEF Init, ActiveNeverHidden, FirstVisibleFresh, FirstVisible, VisibleTabs
<1> QED
  BY <1>2, <1>3, <1>4 DEF IInv

\* Some load reads a package in which all sheets can be read but for some lost
\* ones, the stateless worksheets and the chartsheets that fail late.
Loads(kept, stateless, orphans) ==
  /\ Readable(kept, stateless, orphans)
  /\ \E a \in EffectiveActive : ReadTabs(Package(a), kept, stateless, orphans)

\* What a load, strict or lenient, does.
LEMMA ReloadReads == Reload => Loads(DOMAIN order, {}, {})
BY DEF Reload, Loads, Readable

LEMMA LenientReads ==
  LoadLenient => /\ definedNames = {}
                 /\ \E kept, stateless, orphans :
                      /\ Loads(kept, stateless, orphans)
                      /\ orphans # {} => FailsLate
<1> HAVE LoadLenient
<1>1. PICK lost \in SUBSET DOMAIN order :
        \E stateless \in SUBSET OfKind(DOMAIN order \ lost, "worksheet"),
           orphans \in SUBSET OfKind(lost, "chartsheet") :
          ReloadLenient(lost, stateless, orphans)
  BY DEF LoadLenient
<1>2. PICK stateless \in SUBSET OfKind(DOMAIN order \ lost, "worksheet"),
           orphans \in SUBSET OfKind(lost, "chartsheet") :
        ReloadLenient(lost, stateless, orphans)
  BY <1>1
<1>3. Readable(DOMAIN order \ lost, stateless, orphans)
  BY DEF Readable, OfKind, Worksheets
<1>4. Loads(DOMAIN order \ lost, stateless, orphans)
  BY <1>2, <1>3 DEF Loads, ReloadLenient
<1>5. orphans # {} => FailsLate
  BY <1>2 DEF FailsLate
<1>6. definedNames = {}
  BY DEF LoadLenient
<1> QED
  BY <1>4, <1>5, <1>6

LEMMA LoadsIInv ==
  ASSUME NEW K \in KindSets, IInv(K),
         NEW kept, NEW stateless, NEW orphans, Loads(kept, stateless, orphans),
         "chartsheet" \in K => orphans = {}
  PROVE  IInv(K)'
<1>1. PICK a : ReadTabs(Package(a), kept, stateless, orphans)
  BY DEF Loads
<1>2. Readable(kept, stateless, orphans)
  BY DEF Loads
<1> QED
  BY <1>1, <1>2, ReadTabsStep

\* An operation, or a strict load, keeps the tabs of the kinds in K.
LEMMA NextIInv ==
  ASSUME NEW K \in KindSets, IInv(K), [Next]_vars
  PROVE  IInv(K)'
<1>1. ASSUME NEW n \in SheetNames, AddWorksheet(n) PROVE IInv(K)'
  BY <1>1, AddWorksheetStep
<1>2. ASSUME NEW i \in DOMAIN sheets, NEW n \in SheetNames, CopyWorksheet(i, n)
      PROVE  IInv(K)'
  BY <1>2, CopyWorksheetStep
<1>3. ASSUME NEW n \in SheetNames, AddChartsheet(n) PROVE IInv(K)'
  BY <1>3, AddChartsheetStep
<1>4. CASE Rename
  BY <1>4, RenameWorksheetStep, RenameChartsheetStep DEF Rename
<1>5. ASSUME NEW i \in DOMAIN sheets, RemoveWorksheet(i) PROVE IInv(K)'
  BY <1>5, RemoveWorksheetStep
<1>6. ASSUME NEW i \in DOMAIN chartsheets, RemoveChartsheet(i) PROVE IInv(K)'
  BY <1>6, RemoveChartsheetStep
<1>7. ASSUME NEW p \in DOMAIN order, NEW v \in Visibilities, SetVisibility(p, v)
      PROVE  IInv(K)'
  BY <1>7, SetVisibilityStep
<1>8. ASSUME NEW p \in DOMAIN order, SetActive(p) PROVE IInv(K)'
  BY <1>8, SetActiveStep
<1>9. ASSUME NEW n \in DefNames, NEW scope \in 0..Len(sheets),
             AddDefinedName(n, scope)
      PROVE  IInv(K)'
  BY <1>9, AddDefinedNameStep
<1>10. ASSUME NEW n \in SheetNames, AddSlicer(n) PROVE IInv(K)'
  BY <1>10, AddSlicerStep
<1>11. ASSUME NEW i \in DOMAIN sheets, NEW r \in Ranges \cup {None},
              SetPrintArea(i, r) \/ SetPrintTitles(i, r)
       PROVE  IInv(K)'
  BY <1>11, SetPrintStep
<1>12. CASE Reload
  BY <1>12, ReloadReads, LoadsIInv
<1>13. ASSUME NEW from \in DOMAIN order, NEW to \in DOMAIN order, MoveSheet(from, to)
       PROVE  IInv(K)'
  BY <1>13, MoveSheetStep
<1>14. CASE UNCHANGED vars
  <2>1. TypeOK'
    BY <1>14 DEF vars, IInv, TypeOK
  <2> QED
    BY <2>1, <1>14, SameTabsStep DEF vars
<1> QED
  BY <1>1, <1>2, <1>3, <1>4, <1>5, <1>6, <1>7, <1>8, <1>9, <1>10, <1>11, <1>12,
     <1>13, <1>14 DEF Next

\* So does a lenient load, but for the chartsheets when one of them fails late.
LEMMA StepIInv ==
  ASSUME NEW K \in KindSets, IInv(K), [NextLenient]_vars,
         "chartsheet" \in K => ~FailsLate
  PROVE  IInv(K)'
<1>1. CASE [Next]_vars
  BY <1>1, NextIInv
<1>2. CASE LoadLenient
  <2>1. PICK kept, stateless, orphans : /\ Loads(kept, stateless, orphans)
                                        /\ orphans # {} => FailsLate
    BY <1>2, LenientReads
  <2> QED
    BY <2>1, LoadsIInv
<1> QED
  BY <1>1, <1>2 DEF NextLenient

\* What holds throughout: the invariant but for the chartsheets' tabs.
Always == {"worksheet"}
Sound  == IInv(Always)

LEMMA AlwaysIs == Always \in KindSets /\ "chartsheet" \notin Always
BY DEF Always, KindSets

LEMMA StepSound == Sound /\ [NextLenient]_vars => Sound'
<1> SUFFICES ASSUME IInv(Always), [NextLenient]_vars PROVE IInv(Always)'
  BY DEF Sound
<1> QED
  BY AlwaysIs, StepIInv

LEMMA SpecSound == SpecLenient => []Sound
<1>1. Init => Sound
  BY AlwaysIs, InitIInv DEF Sound
<1>2. Sound /\ [NextLenient]_vars => Sound'
  BY StepSound
<1> QED
  BY <1>1, <1>2, PTL DEF SpecLenient

\* Every behaviour without lenient loads is one of SpecLenient.
LEMMA SpecIsLenient == Spec => SpecLenient
<1>1. [Next]_vars => [NextLenient]_vars
  BY DEF NextLenient
<1> QED
  BY <1>1, PTL DEF Spec, SpecLenient

\* The collections, the tab order and the indices keep their types under
\* every operation of xlpp::Workbook, for every set of names and any bounds.
THEOREM TypesHold == SpecLenient => []TypeOK
<1>1. Sound => TypeOK
  BY DEF Sound, IInv
<1> QED
  BY <1>1, SpecSound, PTL

\* sheetOrder_ lists every worksheet exactly once, every chartsheet at most once
\* and nothing else, so that no lookup through it leaves sheets_ or chartsheets_,
\* whatever is edited, reloaded and loaded from damaged packages.  A chartsheet
\* loses its tab only by a lenient load in which one fails after it was added.
THEOREM TabOrderIsComplete == SpecLenient => OrderComplete
<1>1. Sound => OrderInRange /\ OrderOnce /\ HaveTabs("worksheet")
  BY DEF Sound, Always, IInv, Ordered
<1>2. Sound /\ HaveTabs("chartsheet") => IInv(Kinds)
  BY DEF Sound, Always, IInv, Ordered, Kinds
<1>3. IInv(Kinds) => HaveTabs("chartsheet")
  BY DEF IInv, Ordered, Kinds
<1>4. IInv(Kinds) /\ [NextLenient]_vars /\ ~FailsLate => IInv(Kinds)'
  BY StepIInv DEF KindSets
<1>5. /\ Sound /\ [NextLenient]_vars /\ Sound'
      /\ Sound' => (OrderInRange /\ OrderOnce /\ HaveTabs("worksheet"))'
      /\ IInv(Kinds)' => HaveTabs("chartsheet")'
      => [/\ OrderInRange' /\ OrderOnce' /\ HaveTabs("worksheet")'
          /\ HaveTabs("chartsheet") => HaveTabs("chartsheet")' \/ FailsLate]_vars
  BY <1>2, <1>4
<1> QED
  BY <1>1, <1>3, <1>5, SpecSound, PTL DEF SpecLenient, OrderComplete

\* Without lenient loads every sheet of either kind always has its tab.
THEOREM EverySheetIsATab == Spec => []EverySheetHasTab
<1>1. Init => IInv(Kinds)
  BY InitIInv DEF KindSets
<1>2. IInv(Kinds) /\ [Next]_vars => IInv(Kinds)'
  BY NextIInv DEF KindSets
<1>3. IInv(Kinds) => EverySheetHasTab
  BY DEF IInv, Ordered, EverySheetHasTab
<1> QED
  BY <1>1, <1>2, <1>3, PTL DEF Spec

\* activeWorkbookSheetIndex_ never denotes a hidden tab.
THEOREM ActiveTabIsVisible == SpecLenient => []ActiveNeverHidden
<1>1. Sound => ActiveNeverHidden
  BY DEF Sound, IInv
<1> QED
  BY <1>1, SpecSound, PTL

\* firstVisibleWorkbookSheetIndex_ is never stale, though the operations that
\* add a tab do not refresh it.
THEOREM FirstVisibleIsFresh == SpecLenient => []FirstVisibleFresh
<1>1. Sound => FirstVisibleFresh
  BY DEF Sound, IInv
<1> QED
  BY <1>1, SpecSound, PTL

-----------------------------------------------------------------------------
(* Names and source parts *)

\* No two source parts have the same name.
SourceOnce ==
  \A j, k \in DOMAIN source : source[j].name = source[k].name => j = k

NamesInv == SourceTracksSheet /\ SourceOnce

\* What is left when one element is erased: the others, in order.
LEMMA WithoutLeaves ==
  ASSUME NEW T, NEW s \in Seq(T), NEW i \in DOMAIN s
  PROVE  /\ \A j \in DOMAIN Without(s, i) :
              /\ Origin(i, j) \in DOMAIN s \ {i}
              /\ Without(s, i)[j] = s[Origin(i, j)]
         /\ \A j, k \in DOMAIN Without(s, i) : Origin(i, j) = Origin(i, k) => j = k
         /\ \A k \in DOMAIN s \ {i} :
              \E j \in DOMAIN Without(s, i) : Without(s, i)[j] = s[k]
<1> DEFINE w == Without(s, i)
<1>1. Len(s) \in Nat /\ DOMAIN s = 1..Len(s) /\ i \in 1..Len(s)
  BY LenProperties
<1>2. /\ DOMAIN w = 1..(Len(s) - 1)
      /\ \A j \in 1..(Len(s) - 1) : w[j] = IF j < i THEN s[j] ELSE s[j + 1]
  BY WithoutType
<1> HIDE DEF w
<1>3. \A j \in DOMAIN w : Origin(i, j) \in DOMAIN s \ {i} /\ w[j] = s[Origin(i, j)]
  BY <1>1, <1>2 DEF Origin
<1>4. \A j, k \in DOMAIN w : Origin(i, j) = Origin(i, k) => j = k
  BY <1>1, <1>2 DEF Origin
<1>5. ASSUME NEW k \in DOMAIN s \ {i} PROVE \E j \in DOMAIN w : w[j] = s[k]
  <2> DEFINE j == IF k < i THEN k ELSE k - 1
  <2>1. j \in DOMAIN w /\ Origin(i, j) = k
    BY <1>1, <1>2 DEF Origin
  <2> HIDE DEF j
  <2> QED
    BY <2>1, <1>3
<1> QED
  BY <1>3, <1>4, <1>5 DEF w

LEMMA SameNamesStep ==
  ASSUME NamesInv, UNCHANGED <<chartsheets, source>>, DOMAIN sheets' = DOMAIN sheets,
         \A i \in DOMAIN sheets : /\ sheets'[i].name = sheets[i].name
                                  /\ sheets'[i].id = sheets[i].id
  PROVE  NamesInv'
BY DEF NamesInv, SourceTracksSheet, NamesUnique, SourceOnce

\* A new worksheet under a name that is not taken.
LEMMA NewSheetNames ==
  ASSUME TypeOK, NamesInv, NEW s \in Sheet, ~NameTaken(s.name),
         sheets' = Append(sheets, s), UNCHANGED <<chartsheets, source>>
  PROVE  NamesInv'
<1>1. /\ Len(sheets) \in Nat /\ DOMAIN sheets = 1..Len(sheets)
      /\ DOMAIN sheets' = 1..(Len(sheets) + 1) /\ sheets'[Len(sheets) + 1] = s
      /\ \A i \in 1..Len(sheets) : sheets'[i] = sheets[i]
  BY AppendProperties, LenProperties DEF TypeOK
<1>2. \A i \in DOMAIN sheets' : i \in DOMAIN sheets \/ i = Len(sheets) + 1
  BY <1>1
<1>3. NamesUnique'
  <2>1. \A i, j \in DOMAIN sheets' :
          Equivalent(sheets'[i].name, sheets'[j].name) => i = j
    <3> SUFFICES ASSUME NEW i \in DOMAIN sheets', NEW j \in DOMAIN sheets',
                        Equivalent(sheets'[i].name, sheets'[j].name)
                 PROVE  i = j
      OBVIOUS
    <3>1. CASE i \in DOMAIN sheets /\ j \in DOMAIN sheets
      BY <3>1, <1>1 DEF NamesInv, SourceTracksSheet, NamesUnique
    <3>2. CASE i = Len(sheets) + 1 /\ j \in DOMAIN sheets
      BY <3>2, <1>1 DEF NameTaken, Equivalent
    <3>3. CASE i \in DOMAIN sheets /\ j = Len(sheets) + 1
      BY <3>3, <1>1 DEF NameTaken, Equivalent
    <3> QED
      BY <3>1, <3>2, <3>3, <1>2
  <2>2. \A i \in DOMAIN sheets', j \in DOMAIN chartsheets :
          ~Equivalent(sheets'[i].name, chartsheets[j])
    <3> SUFFICES ASSUME NEW i \in DOMAIN sheets', NEW j \in DOMAIN chartsheets
                 PROVE  ~Equivalent(sheets'[i].name, chartsheets[j])
      OBVIOUS
    <3>1. CASE i \in DOMAIN sheets
      BY <3>1, <1>1 DEF NamesInv, SourceTracksSheet, NamesUnique
    <3>2. CASE i = Len(sheets) + 1
      BY <3>2, <1>1 DEF NameTaken, Equivalent
    <3> QED
      BY <3>1, <3>2, <1>2
  <2> QED
    BY <2>1, <2>2 DEF NamesInv, SourceTracksSheet, NamesUnique
<1>4. \A j \in DOMAIN source : \E i \in DOMAIN sheets' :
         /\ sheets'[i].name = source[j].name /\ sheets'[i].id = source[j].part
  <2> SUFFICES ASSUME NEW j \in DOMAIN source
               PROVE  \E i \in DOMAIN sheets' : /\ sheets'[i].name = source[j].name
                                                /\ sheets'[i].id = source[j].part
    OBVIOUS
  <2>1. PICK i \in DOMAIN sheets : /\ sheets[i].name = source[j].name
                                   /\ sheets[i].id = source[j].part
    BY DEF NamesInv, SourceTracksSheet
  <2> QED
    BY <2>1, <1>1
<1> QED
  BY <1>3, <1>4 DEF NamesInv, SourceTracksSheet, SourceOnce

LEMMA NewChartsheetNames ==
  ASSUME TypeOK, NamesInv, NEW n \in SheetNames, ~NameTaken(n),
         chartsheets' = Append(chartsheets, n), UNCHANGED <<sheets, source>>
  PROVE  NamesInv'
<1>1. /\ Len(chartsheets) \in Nat /\ DOMAIN chartsheets = 1..Len(chartsheets)
      /\ DOMAIN chartsheets' = 1..(Len(chartsheets) + 1)
      /\ chartsheets'[Len(chartsheets) + 1] = n
      /\ \A i \in 1..Len(chartsheets) : chartsheets'[i] = chartsheets[i]
  BY AppendProperties, LenProperties DEF TypeOK
<1>2. \A i \in DOMAIN chartsheets' : i \in DOMAIN chartsheets \/ i = Len(chartsheets) + 1
  BY <1>1
<1>3. \A i, j \in DOMAIN chartsheets' :
        Equivalent(chartsheets'[i], chartsheets'[j]) => i = j
  <2> SUFFICES ASSUME NEW i \in DOMAIN chartsheets', NEW j \in DOMAIN chartsheets',
                      Equivalent(chartsheets'[i], chartsheets'[j])
               PROVE  i = j
    OBVIOUS
  <2>1. CASE i \in DOMAIN chartsheets /\ j \in DOMAIN chartsheets
    BY <2>1, <1>1 DEF NamesInv, SourceTracksSheet, NamesUnique
  <2>2. CASE i = Len(chartsheets) + 1 /\ j \in DOMAIN chartsheets
    BY <2>2, <1>1 DEF NameTaken, Equivalent
  <2>3. CASE i \in DOMAIN chartsheets /\ j = Len(chartsheets) + 1
    BY <2>3, <1>1 DEF NameTaken, Equivalent
  <2> QED
    BY <2>1, <2>2, <2>3, <1>2
<1>4. \A i \in DOMAIN sheets, j \in DOMAIN chartsheets' :
        ~Equivalent(sheets[i].name, chartsheets'[j])
  <2> SUFFICES ASSUME NEW i \in DOMAIN sheets, NEW j \in DOMAIN chartsheets'
               PROVE  ~Equivalent(sheets[i].name, chartsheets'[j])
    OBVIOUS
  <2>1. CASE j \in DOMAIN chartsheets
    BY <2>1, <1>1 DEF NamesInv, SourceTracksSheet, NamesUnique
  <2>2. CASE j = Len(chartsheets) + 1
    BY <2>2, <1>1 DEF NameTaken, Equivalent
  <2> QED
    BY <2>1, <2>2, <1>2
<1> QED
  BY <1>3, <1>4 DEF NamesInv, SourceTracksSheet, NamesUnique, SourceOnce
LEMMA SheetTypes ==
  ASSUME TypeOK
  PROVE  /\ \A i \in DOMAIN sheets : sheets[i] \in Sheet
         /\ \A j \in DOMAIN source : source[j] \in [name : SheetNames, part : Ids]
BY ElementOfSeq, LenProperties DEF TypeOK

\* A rename moves the source part along with its worksheet.
LEMMA RenameWorksheetNames ==
  ASSUME TypeOK, NamesInv, NEW i \in DOMAIN sheets, NEW n \in SheetNames,
         RenameWorksheet(i, n)
  PROVE  NamesInv'
<1>1. /\ DOMAIN sheets' = DOMAIN sheets /\ UNCHANGED chartsheets
      /\ sheets'[i].name = n /\ sheets'[i].id = sheets[i].id
      /\ \A k \in DOMAIN sheets : k # i => sheets'[k] = sheets[k]
  BY SheetTypes DEF RenameWorksheet, Sheet
<1>2. /\ \A k \in DOMAIN sheets : k # i => ~Equivalent(sheets[k].name, n)
      /\ \A k \in DOMAIN chartsheets : ~Equivalent(chartsheets[k], n)
  BY DEF RenameWorksheet
<1>3. NamesUnique'
  BY <1>1, <1>2 DEF NamesInv, SourceTracksSheet, NamesUnique, Equivalent
<1> DEFINE Renamed(j) == Equivalent(source[j].name, sheets[i].name)
<1>4. /\ DOMAIN source' = DOMAIN source
      /\ \A j \in DOMAIN source :
           /\ Renamed(j) => source'[j].name = n /\ source'[j].part = source[j].part
           /\ ~Renamed(j) => source'[j] = source[j]
  BY SheetTypes DEF RenameWorksheet
<1>5. ASSUME NEW j \in DOMAIN source
      PROVE  /\ Renamed(j) => /\ source[j].name = sheets[i].name
                              /\ source[j].part = sheets[i].id
             /\ ~Renamed(j) => \E k \in DOMAIN sheets \ {i} :
                                 /\ sheets[k].name = source[j].name
                                 /\ sheets[k].id = source[j].part
  <2>1. PICK k \in DOMAIN sheets : /\ sheets[k].name = source[j].name
                                   /\ sheets[k].id = source[j].part
    BY DEF NamesInv, SourceTracksSheet
  <2>2. CASE k = i
    BY <2>1, <2>2 DEF Equivalent
  <2>3. CASE k # i
    <3>1. ~Renamed(j)
      BY <2>1, <2>3 DEF NamesInv, SourceTracksSheet, NamesUnique
    <3> QED
      BY <3>1, <2>1, <2>3
  <2> QED
    BY <2>2, <2>3
<1> HIDE DEF Renamed
<1>6. \A j \in DOMAIN source' : \E k \in DOMAIN sheets' :
        /\ sheets'[k].name = source'[j].name /\ sheets'[k].id = source'[j].part
  BY <1>1, <1>4, <1>5
<1>7. SourceOnce'
  <2> SUFFICES ASSUME NEW j \in DOMAIN source, NEW k \in DOMAIN source,
                      source'[j].name = source'[k].name
               PROVE  j = k
    BY <1>4 DEF SourceOnce
  <2>1. ASSUME NEW r \in DOMAIN source, ~Renamed(r) PROVE source'[r].name # n
    BY <2>1, <1>2, <1>4, <1>5 DEF Equivalent
  <2>2. Renamed(j) <=> Renamed(k)
    BY <2>1, <1>4
  <2>3. source[j].name = source[k].name
    BY <2>2, <1>4, <1>5
  <2> QED
    BY <2>3 DEF NamesInv, SourceOnce
<1> QED
  BY <1>3, <1>6, <1>7 DEF NamesInv, SourceTracksSheet

LEMMA RenameChartsheetNames ==
  ASSUME TypeOK, NamesInv, NEW i \in DOMAIN chartsheets, NEW n \in SheetNames,
         RenameChartsheet(i, n)
  PROVE  NamesInv'
<1>1. /\ DOMAIN chartsheets' = DOMAIN chartsheets /\ UNCHANGED <<sheets, source>>
      /\ chartsheets'[i] = n
      /\ \A k \in DOMAIN chartsheets : k # i => chartsheets'[k] = chartsheets[k]
  BY DEF RenameChartsheet
<1>2. /\ \A k \in DOMAIN chartsheets : k # i => ~Equivalent(chartsheets[k], n)
      /\ \A k \in DOMAIN sheets : ~Equivalent(sheets[k].name, n)
  BY DEF RenameChartsheet
<1> QED
  BY <1>1, <1>2 DEF NamesInv, SourceTracksSheet, NamesUnique, SourceOnce, Equivalent

\* The part that is retired with a worksheet is its own: the others stay with
\* the sheets they were read from.
LEMMA RemoveWorksheetNames ==
  ASSUME TypeOK, NamesInv, NEW i \in DOMAIN sheets, RemoveWorksheet(i)
  PROVE  NamesInv'
<1>1. sheets \in Seq(Sheet) /\ source \in Seq([name : SheetNames, part : Ids])
  BY DEF TypeOK
<1>2. sheets' = Without(sheets, i) /\ UNCHANGED chartsheets
  BY DEF RemoveWorksheet
<1>3. /\ \A k \in DOMAIN sheets' : /\ Origin(i, k) \in DOMAIN sheets \ {i}
                                   /\ sheets'[k] = sheets[Origin(i, k)]
      /\ \A k, l \in DOMAIN sheets' : Origin(i, k) = Origin(i, l) => k = l
      /\ \A k \in DOMAIN sheets \ {i} : \E l \in DOMAIN sheets' : sheets'[l] = sheets[k]
  BY <1>1, <1>2, WithoutLeaves
<1>4. NamesUnique'
  BY <1>2, <1>3 DEF NamesInv, SourceTracksSheet, NamesUnique
\* The parts left are parts of before, each once, and not the removed sheet's.
<1>5. /\ \A j \in DOMAIN source' : \E k \in DOMAIN source :
           source'[j] = source[k] /\ source[k].name # sheets[i].name
      /\ SourceOnce'
  <2>1. CASE \A j \in DOMAIN source : source[j].name # sheets[i].name
    <3>1. UNCHANGED source
      BY <2>1 DEF RemoveWorksheet, RetireSource
    <3> QED
      BY <2>1, <3>1 DEF NamesInv, SourceOnce
  <2>2. CASE \E j \in DOMAIN source : source[j].name = sheets[i].name
    <3>1. PICK j \in DOMAIN source :
            source[j].name = sheets[i].name /\ source' = Without(source, j)
      BY <2>2 DEF RemoveWorksheet, RetireSource, FirstOf
    <3>2. /\ \A k \in DOMAIN source' : /\ Origin(j, k) \in DOMAIN source \ {j}
                                       /\ source'[k] = source[Origin(j, k)]
          /\ \A k, l \in DOMAIN source' : Origin(j, k) = Origin(j, l) => k = l
      BY <1>1, <3>1, WithoutLeaves
    <3>3. \A k \in DOMAIN source \ {j} : source[k].name # sheets[i].name
      BY <3>1 DEF NamesInv, SourceOnce
    <3>4. SourceOnce'
      BY <3>2 DEF NamesInv, SourceOnce
    <3> QED
      BY <3>2, <3>3, <3>4
  <2> QED
    BY <2>1, <2>2
<1>6. ASSUME NEW j \in DOMAIN source'
      PROVE  \E k \in DOMAIN sheets' : /\ sheets'[k].name = source'[j].name
                                       /\ sheets'[k].id = source'[j].part
  <2>1. PICK l \in DOMAIN source : source'[j] = source[l] /\ source[l].name # sheets[i].name
    BY <1>5
  <2>2. PICK k \in DOMAIN sheets : /\ sheets[k].name = source[l].name
                                   /\ sheets[k].id = source[l].part
    BY DEF NamesInv, SourceTracksSheet
  <2>3. k # i
    BY <2>1, <2>2
  <2> QED
    BY <2>1, <2>2, <2>3, <1>3
<1> QED
  BY <1>4, <1>5, <1>6 DEF NamesInv, SourceTracksSheet

LEMMA RemoveChartsheetNames ==
  ASSUME TypeOK, NamesInv, NEW i \in DOMAIN chartsheets, RemoveChartsheet(i)
  PROVE  NamesInv'
<1>1. chartsheets \in Seq(SheetNames) /\ chartsheets' = Without(chartsheets, i)
        /\ UNCHANGED <<sheets, source>>
  BY DEF TypeOK, RemoveChartsheet
<1>2. /\ \A k \in DOMAIN chartsheets' : /\ Origin(i, k) \in DOMAIN chartsheets \ {i}
                                        /\ chartsheets'[k] = chartsheets[Origin(i, k)]
      /\ \A k, l \in DOMAIN chartsheets' : Origin(i, k) = Origin(i, l) => k = l
  BY <1>1, WithoutLeaves
<1> QED
  BY <1>1, <1>2 DEF NamesInv, SourceTracksSheet, NamesUnique, SourceOnce

-----------------------------------------------------------------------------
(* What a load reads *)

\* The tabs of a workbook have different names.
LEMMA TabNamesDiffer ==
  ASSUME NEW K \in KindSets, IInv(K), NamesInv, NEW p \in DOMAIN order, NEW q \in DOMAIN order,
         Equivalent(TabName(p), TabName(q))
  PROVE  p = q
<1>1. \A r \in DOMAIN order :
        \/ /\ order[r].kind = "worksheet" /\ order[r].kindIndex \in DOMAIN sheets
           /\ TabName(r) = sheets[order[r].kindIndex].name
        \/ /\ order[r].kind = "chartsheet" /\ order[r].kindIndex \in DOMAIN chartsheets
           /\ TabName(r) = chartsheets[order[r].kindIndex]
  <2> SUFFICES ASSUME NEW r \in DOMAIN order
               PROVE
        \/ /\ order[r].kind = "worksheet" /\ order[r].kindIndex \in DOMAIN sheets
           /\ TabName(r) = sheets[order[r].kindIndex].name
        \/ /\ order[r].kind = "chartsheet" /\ order[r].kindIndex \in DOMAIN chartsheets
           /\ TabName(r) = chartsheets[order[r].kindIndex]
    OBVIOUS
  <2>1. /\ order[r].kind \in Kinds
        /\ order[r].kindIndex \in 1..KindCount(order[r].kind)
    BY TypesOf DEF IInv, Ordered, OrderInRange, KindCount
  <2>2. CASE order[r].kind = "worksheet"
    BY <2>1, <2>2, TypesOf DEF IInv, KindCount, TabName
  <2>3. CASE order[r].kind = "chartsheet"
    BY <2>1, <2>3, TypesOf DEF IInv, KindCount, TabName
  <2> QED
    BY <2>1, <2>2, <2>3 DEF Kinds
<1>2. order[p].kind = order[q].kind /\ order[p].kindIndex = order[q].kindIndex
  BY <1>1 DEF NamesInv, SourceTracksSheet, NamesUnique, Equivalent
<1> QED
  BY <1>2 DEF IInv, Ordered, OrderOnce

\* The strict load reads every tab.
LEMMA ReloadLoads ==
  ASSUME Reload
  PROVE  /\ Readable(DOMAIN order, {}, {})
         /\ \E a \in EffectiveActive, tabAt \in Ascending(DOMAIN order),
               sheetAt \in Ascending(Worksheets(DOMAIN order)),
               sourceAt \in Ascending(Worksheets(DOMAIN order) \ {}),
               chartAt \in Ascending(Chartsheets(DOMAIN order, {})) :
              LoadedAs(a, {}, tabAt, sheetAt, sourceAt, chartAt)
<1>1. Readable(DOMAIN order, {}, {})
  BY DEF Readable
<1>2. PICK a \in EffectiveActive : ReadTabs(Package(a), DOMAIN order, {}, {})
  BY DEF Reload
<1> QED
  BY <1>1, <1>2, ReadTabsLoads

\* A load gives every worksheet with a source part the one it was read from,
\* under its name.
LEMMA ReadTabsNames ==
  ASSUME NEW K \in KindSets, IInv(K), NamesInv,
         NEW kept, NEW stateless, NEW orphans, Loads(kept, stateless, orphans)
  PROVE  NamesInv'
<1>1. PICK a \in EffectiveActive, tabAt \in Ascending(kept),
           sheetAt \in Ascending(Worksheets(kept)),
           sourceAt \in Ascending(Worksheets(kept) \ stateless),
           chartAt \in Ascending(Chartsheets(kept, orphans)) :
        LoadedAs(a, stateless, tabAt, sheetAt, sourceAt, chartAt)
  BY ReadTabsLoads DEF Loads
<1>2. /\ \A p \in Worksheets(kept) : p \in DOMAIN order /\ order[p].kind = "worksheet"
      /\ \A p \in Chartsheets(kept, orphans) :
           p \in DOMAIN order /\ order[p].kind = "chartsheet"
      /\ \A k \in DOMAIN sheetAt : sheetAt[k] \in Worksheets(kept)
      /\ \A k, l \in DOMAIN sheetAt : sheetAt[k] = sheetAt[l] => k = l
      /\ \A p \in Worksheets(kept) : /\ PlaceIn(sheetAt, p) \in DOMAIN sheetAt
                                     /\ sheetAt[PlaceIn(sheetAt, p)] = p
      /\ \A k \in DOMAIN sourceAt : sourceAt[k] \in Worksheets(kept) \ stateless
      /\ \A k, l \in DOMAIN sourceAt : sourceAt[k] = sourceAt[l] => k = l
      /\ \A k \in DOMAIN chartAt : chartAt[k] \in Chartsheets(kept, orphans)
      /\ \A k, l \in DOMAIN chartAt : chartAt[k] = chartAt[l] => k = l
  <2>1. Readable(kept, stateless, orphans)
    BY DEF Loads
  <2>2. KindNumbers(kept, stateless, orphans, sheetAt, sourceAt, chartAt)
    BY <2>1, KindsAreNumbered, Zenon
  <2> QED
    BY ONLY <2>2 DEF KindNumbers
<1>3. \A p \in DOMAIN order : Package(a).tabs[p].name = TabName(p)
  BY DEF Package, TabRecord
<1>4. /\ DOMAIN sheets' = DOMAIN sheetAt
      /\ \A k \in DOMAIN sheetAt :
           /\ sheets'[k].name = Package(a).tabs[sheetAt[k]].name
           /\ sheets'[k].id = Package(a).tabs[sheetAt[k]].id
  BY <1>1 DEF LoadedAs, ReadSheets
<1>5. /\ DOMAIN chartsheets' = DOMAIN chartAt
      /\ \A k \in DOMAIN chartAt : chartsheets'[k] = Package(a).tabs[chartAt[k]].name
  BY <1>1 DEF LoadedAs
<1>6. /\ DOMAIN source' = DOMAIN sourceAt
      /\ \A k \in DOMAIN sourceAt :
           /\ source'[k].name = Package(a).tabs[sourceAt[k]].name
           /\ source'[k].part = Package(a).tabs[sourceAt[k]].id
  BY <1>1 DEF LoadedAs, ReadSources
<1>7. \A p, q \in DOMAIN order :
        Equivalent(Package(a).tabs[p].name, Package(a).tabs[q].name) => p = q
  BY <1>3, TabNamesDiffer
<1>8. NamesUnique'
  <2>1. \A k, l \in DOMAIN sheets' :
          Equivalent(sheets'[k].name, sheets'[l].name) => k = l
    BY <1>2, <1>4, <1>7
  <2>2. \A k, l \in DOMAIN chartsheets' :
          Equivalent(chartsheets'[k], chartsheets'[l]) => k = l
    BY <1>2, <1>5, <1>7
  <2>3. \A k \in DOMAIN sheets', l \in DOMAIN chartsheets' :
          ~Equivalent(sheets'[k].name, chartsheets'[l])
    <3> SUFFICES ASSUME NEW k \in DOMAIN sheetAt, NEW l \in DOMAIN chartAt
                 PROVE  ~Equivalent(sheets'[k].name, chartsheets'[l])
      BY <1>4, <1>5
    <3>1. sheetAt[k] # chartAt[l]
      BY <1>2
    <3> QED
      BY <3>1, <1>2, <1>4, <1>5, <1>7
  <2> QED
    BY <2>1, <2>2, <2>3 DEF NamesUnique
<1>9. SourceOnce'
  BY <1>2, <1>6, <1>7 DEF SourceOnce, Equivalent
<1>10. ASSUME NEW j \in DOMAIN source'
       PROVE  \E k \in DOMAIN sheets' : /\ sheets'[k].name = source'[j].name
                                        /\ sheets'[k].id = source'[j].part
  <2>1. sourceAt[j] \in Worksheets(kept)
    BY <1>2, <1>6
  <2>2. PICK k \in DOMAIN sheetAt : sheetAt[k] = sourceAt[j]
    BY <2>1, <1>2
  <2> QED
    BY <2>2, <1>4, <1>6
<1> QED
  BY <1>8, <1>9, <1>10 DEF NamesInv, SourceTracksSheet

LEMMA InitNames == Init => NamesInv
<1>1. DOMAIN << >> = {}
  BY EmptySeq
<1> QED
  BY <1>1 DEF Init, NamesInv, SourceTracksSheet, NamesUnique, SourceOnce

LEMMA StepNames == Sound /\ NamesInv /\ [NextLenient]_vars => NamesInv'
<1> SUFFICES ASSUME Sound, NamesInv, [NextLenient]_vars PROVE NamesInv'
  OBVIOUS
<1>1. TypeOK
  BY DEF Sound, IInv
<1>2. ASSUME NEW n \in SheetNames, AddWorksheet(n) PROVE NamesInv'
  <2> DEFINE s == [name |-> n, id |-> FreshId, area |-> None, titles |-> None]
  <2>1. s \in Sheet /\ s.name = n
    BY <1>2, FreshIdType DEF AddWorksheet, Sheet
  <2>2. ~NameTaken(n) /\ sheets' = Append(sheets, s) /\ UNCHANGED <<chartsheets, source>>
    BY <1>2 DEF AddWorksheet
  <2> QED
    BY <1>1, <2>1, <2>2, NewSheetNames
<1>3. ASSUME NEW i \in DOMAIN sheets, NEW n \in SheetNames, CopyWorksheet(i, n)
      PROVE  NamesInv'
  <2> DEFINE s == [sheets[i] EXCEPT !.name = n, !.id = FreshId]
  <2>1. s \in Sheet /\ s.name = n
    BY <1>1, <1>3, FreshIdType, SheetTypes DEF CopyWorksheet, Sheet
  <2>2. ~NameTaken(n) /\ sheets' = Append(sheets, s) /\ UNCHANGED <<chartsheets, source>>
    BY <1>3 DEF CopyWorksheet
  <2> QED
    BY <1>1, <2>1, <2>2, NewSheetNames
<1>4. ASSUME NEW n \in SheetNames, AddChartsheet(n) PROVE NamesInv'
  BY <1>1, <1>4, NewChartsheetNames DEF AddChartsheet
<1>5. CASE Rename
  BY <1>1, <1>5, RenameWorksheetNames, RenameChartsheetNames DEF Rename
<1>6. ASSUME NEW i \in DOMAIN sheets, RemoveWorksheet(i) PROVE NamesInv'
  BY <1>1, <1>6, RemoveWorksheetNames
<1>7. ASSUME NEW i \in DOMAIN chartsheets, RemoveChartsheet(i) PROVE NamesInv'
  BY <1>1, <1>7, RemoveChartsheetNames
<1>8. CASE UNCHANGED <<sheets, chartsheets, source>>
  BY <1>8, SameNamesStep
<1>9. ASSUME NEW i \in DOMAIN sheets, NEW r \in Ranges \cup {None},
             SetPrintArea(i, r) \/ SetPrintTitles(i, r)
      PROVE  NamesInv'
  <2>1. /\ DOMAIN sheets' = DOMAIN sheets /\ UNCHANGED <<chartsheets, source>>
        /\ \A k \in DOMAIN sheets : /\ sheets'[k].name = sheets[k].name
                                    /\ sheets'[k].id = sheets[k].id
    BY <1>1, <1>9, SheetTypes DEF SetPrintArea, SetPrintTitles, Sheet
  <2> QED
    BY <2>1, SameNamesStep
<1>10. CASE Reload \/ LoadLenient
  <2>1. PICK kept, stateless, orphans : Loads(kept, stateless, orphans)
    BY <1>10, ReloadReads, LenientReads
  <2> QED
    BY <2>1, AlwaysIs, ReadTabsNames DEF Sound
<1>11. \/ \E p \in DOMAIN order, v \in Visibilities : SetVisibility(p, v)
       \/ \E p \in DOMAIN order : SetActive(p)
       \/ \E n \in DefNames, scope \in 0..Len(sheets) : AddDefinedName(n, scope)
       \/ \E n \in SheetNames : AddSlicer(n)
       \/ \E from, to \in DOMAIN order : MoveSheet(from, to)
       \/ UNCHANGED vars
       => UNCHANGED <<sheets, chartsheets, source>>
  BY DEF SetVisibility, SetActive, AddDefinedName, AddSlicer, MoveSheet, tabs, vars
<1> QED
  BY <1>2, <1>3, <1>4, <1>5, <1>6, <1>7, <1>8, <1>9, <1>10, <1>11
     DEF Next, NextLenient

LEMMA SpecNames == SpecLenient => [](Sound /\ NamesInv)
<1>1. Sound /\ NamesInv /\ [NextLenient]_vars => NamesInv'
  BY StepNames
<1> QED
  BY <1>1, InitNames, SpecSound, PTL DEF SpecLenient

\* Names tell sheets apart, and each part of the source package stays with the
\* worksheet that was read from it, whatever is renamed, removed and added
\* again: save() never gives a sheet another's drawings.
THEOREM SourcePartsFollowSheets == SpecLenient => []SourceTracksSheet
<1>1. NamesInv => SourceTracksSheet
  BY DEF NamesInv
<1> QED
  BY <1>1, SpecNames, PTL

\* The ascending enumeration of 1..N is the identity: e maps the numbers up to
\* i one to one into those up to e[i], and those from i on into those from e[i].
LEMMA AscendingInterval ==
  ASSUME NEW N \in Nat, NEW e \in Ascending(1..N)
  PROVE  /\ DOMAIN e = 1..N
         /\ \A i \in 1..N : e[i] = i /\ PlaceIn(e, i) = i
<1>1. IsFiniteSet(1..N) /\ Cardinality(1..N) = N /\ \A p \in 1..N : p \in Nat
  BY FS_Interval
<1>2. /\ e \in [1..N -> 1..N]
      /\ \A i, j \in 1..N : i < j => e[i] < e[j]
  <2>1. /\ e \in [1..N -> 1..N]
        /\ \A j \in DOMAIN e : \A i \in 1..(j - 1) : e[i] < e[j]
    BY <1>1 DEF Ascending
  <2> QED
    BY <2>1
<1>3. /\ \A i, j \in 1..N : e[i] = e[j] => i = j
      /\ \A i \in 1..N : PlaceIn(e, e[i]) = i
  BY <1>1, AscendingNumbers, SMTT(30)
<1>4. ASSUME NEW i \in 1..N PROVE e[i] = i
  <2> DEFINE below == [j \in 1..i |-> e[j]]
             above == [j \in i..N |-> e[j]]
  <2>1. e[i] \in 1..N /\ i \in 1..N
    BY <1>2
  <2>2. i <= e[i]
    <3>1. ASSUME NEW j \in 1..i PROVE j \in 1..N /\ e[j] \in 1..e[i]
      <4>1. j \in 1..N /\ e[j] \in 1..N /\ (j = i \/ j < i)
        BY <1>2, <2>1
      <4>2. e[j] <= e[i]
        BY <4>1, <1>2, <2>1, SMTT(30)
      <4> QED
        BY <4>1, <4>2, <2>1
    <3>2. below \in Injection(1..i, 1..e[i])
      BY <3>1, <1>3 DEF Injection, IsInjective
    <3>3. IsFiniteSet(1..e[i]) /\ Cardinality(1..e[i]) = e[i] /\ Cardinality(1..i) = i
      BY <2>1, FS_Interval
    <3> QED
      BY <3>2, <3>3, FS_Injection
  <2>3. e[i] <= i
    <3>1. ASSUME NEW j \in i..N PROVE j \in 1..N /\ e[j] \in e[i]..N
      <4>1. j \in 1..N /\ e[j] \in 1..N /\ (j = i \/ i < j)
        BY <1>2, <2>1
      <4>2. e[i] <= e[j]
        BY <4>1, <1>2, <2>1, SMTT(30)
      <4> QED
        BY <4>1, <4>2, <2>1
    <3>2. above \in Injection(i..N, e[i]..N)
      BY <3>1, <1>3 DEF Injection, IsInjective
    <3>3. /\ IsFiniteSet(e[i]..N) /\ Cardinality(e[i]..N) = N - e[i] + 1
          /\ Cardinality(i..N) = N - i + 1
      BY <2>1, FS_Interval
    <3>4. N - i + 1 <= N - e[i] + 1
      BY <3>2, <3>3, FS_Injection
    <3> QED
      BY <3>4, <2>1
  <2> QED
    BY <2>1, <2>2, <2>3
<1> QED
  BY <1>2, <1>3, <1>4

\* The tab that save() writes as the active one is a visible tab.
LEMMA EffectiveIsVisible ==
  ASSUME NEW K \in KindSets, IInv(K), CanSave, NEW a \in EffectiveActive
  PROVE  a \in VisibleTabs(order)
<1>1. VisibleTabs(order) # {}
  BY DEF CanSave
<1> QED
  BY <1>1 DEF EffectiveActive, VisibleTabs, FirstVisible, FirstOf

LEMMA ReloadRestores ==
  ASSUME NEW K \in KindSets, IInv(K), NamesInv, Reload
  PROVE  /\ Len(order') = Len(order)
         /\ \A p \in DOMAIN order : TabRecord(p)' = TabRecord(p)
         /\ active' \in EffectiveActive
         /\ PrintAreas' = PrintAreas
<1>1. PICK a \in EffectiveActive, tabAt \in Ascending(DOMAIN order),
           sheetAt \in Ascending(Worksheets(DOMAIN order)),
           sourceAt \in Ascending(Worksheets(DOMAIN order) \ {}),
           chartAt \in Ascending(Chartsheets(DOMAIN order, {})) :
        LoadedAs(a, {}, tabAt, sheetAt, sourceAt, chartAt)
  BY ReloadLoads
<1> DEFINE pkg  == Package(a)
           read == ReadOrder(pkg, tabAt, sheetAt, chartAt, {})
<1>2. CanSave /\ a \in VisibleTabs(order) /\ VisibleTabs(order) # {}
  BY EffectiveIsVisible DEF Reload
<1>3. Len(order) \in Nat /\ DOMAIN order = 1..Len(order)
  BY TypesOf DEF IInv
<1>4. DOMAIN tabAt = DOMAIN order /\ \A p \in DOMAIN order : tabAt[p] = p /\ PlaceIn(tabAt, p) = p
  BY <1>3, AscendingInterval
<1> DEFINE W == Worksheets(DOMAIN order)
           C == Chartsheets(DOMAIN order, {})
<1>5. /\ \A p : p \in W <=> p \in DOMAIN order /\ order[p].kind = "worksheet"
      /\ \A p : p \in C <=> p \in DOMAIN order /\ order[p].kind = "chartsheet"
      /\ \A p \in W : /\ PlaceIn(sheetAt, p) \in DOMAIN sheetAt
                      /\ sheetAt[PlaceIn(sheetAt, p)] = p
      /\ \A p \in C : /\ PlaceIn(chartAt, p) \in DOMAIN chartAt
                      /\ chartAt[PlaceIn(chartAt, p)] = p
  <2>1. Readable(DOMAIN order, {}, {})
    BY DEF Readable
  <2>2. /\ \A p : p \in W <=> p \in DOMAIN order /\ order[p].kind = "worksheet"
        /\ \A p : p \in C <=> p \in DOMAIN order /\ order[p].kind = "chartsheet"
    BY DEF Worksheets, Chartsheets, OfKind
  <2>3. /\ \A p \in W : /\ PlaceIn(sheetAt, p) \in DOMAIN sheetAt
                        /\ sheetAt[PlaceIn(sheetAt, p)] = p
        /\ \A p \in C : /\ PlaceIn(chartAt, p) \in DOMAIN chartAt
                        /\ chartAt[PlaceIn(chartAt, p)] = p
    <3>1. KindNumbers(DOMAIN order, {}, {}, sheetAt, sourceAt, chartAt)
      BY <2>1, KindsAreNumbered, Zenon
    <3> QED
      BY ONLY <3>1 DEF KindNumbers
  <2> QED
    BY ONLY <2>2, <2>3
<1> HIDE DEF W, C
<1>6. /\ \A p \in DOMAIN order : pkg.tabs[p] = TabRecord(p)
      /\ pkg.areas = PrintAreas /\ pkg.active = a
  BY DEF Package
<1>7. \A p \in DOMAIN order : /\ order[p].kind \in Kinds
                              /\ pkg.tabs[p].kind = order[p].kind
                              /\ pkg.tabs[p].visibility = order[p].visibility
                              /\ pkg.tabs[p].name = TabName(p)
  <2> SUFFICES ASSUME NEW p \in DOMAIN order
               PROVE  /\ order[p].kind \in Kinds
                      /\ TabRecord(p).kind = order[p].kind
                      /\ TabRecord(p).visibility = order[p].visibility
                      /\ TabRecord(p).name = TabName(p)
    BY <1>6
  <2> QED
    BY TypesOf DEF TabRecord, IInv
<1>8. read \in Seq(Tab)
  <2>1. /\ tabAt \in Ascending(DOMAIN order)
        /\ sheetAt \in Ascending(W) /\ chartAt \in Ascending(C)
    BY DEF W, C
  <2>2. KeptTabs(DOMAIN order, W, C, K)
    BY <1>5 DEF KeptTabs
  <2>3. IInv(K) /\ K \in KindSets
    OBVIOUS
  <2> QED
    BY ONLY <2>1, <2>2, <2>3, ReadOrderType DEF pkg, read
<1> HIDE DEF pkg
<1>9. /\ DOMAIN read = DOMAIN order
      /\ \A p \in DOMAIN order :
           /\ read[p].kind = order[p].kind
           /\ read[p].visibility = order[p].visibility
           /\ read[p].kindIndex = PlaceIn(IF order[p].kind = "worksheet"
                                          THEN sheetAt ELSE chartAt, p)
  BY <1>4, <1>7 DEF ReadOrder
<1>10. VisibleTabs(read) = VisibleTabs(order)
  BY <1>9 DEF VisibleTabs
<1> HIDE DEF read
<1>11. order' = read
  BY <1>1, <1>2, <1>10 DEF LoadedAs, ShowSome, pkg, read
<1>12. Len(order') = Len(order)
  BY <1>3, <1>8, <1>9, <1>11, LenProperties
<1>13. /\ sheets' = ReadSheets(pkg, tabAt, sheetAt)
       /\ chartsheets' = [k \in DOMAIN chartAt |-> pkg.tabs[chartAt[k]].name]
       /\ active' \in IF AskedTabs(pkg, tabAt, order') = {} THEN FirstVisible(order')
                      ELSE FirstOf(AskedTabs(pkg, tabAt, order'))
  BY <1>1 DEF LoadedAs, pkg
<1>14. ASSUME NEW p \in DOMAIN order, order[p].kind = "worksheet"
       PROVE  /\ sheets'[order'[p].kindIndex].name = pkg.tabs[p].name
              /\ sheets'[order'[p].kindIndex].id = pkg.tabs[p].id
              /\ sheets'[order'[p].kindIndex].area = SettingAt(PrintAreas, p)
  <2>1. p \in W /\ order'[p].kindIndex = PlaceIn(sheetAt, p)
    BY <1>5, <1>9, <1>11, <1>14
  <2> QED
    BY <2>1, <1>4, <1>5, <1>6, <1>13 DEF ReadSheets
<1>15. ASSUME NEW p \in DOMAIN order, order[p].kind = "chartsheet"
       PROVE  chartsheets'[order'[p].kindIndex] = pkg.tabs[p].name
  <2>1. p \in C /\ order'[p].kindIndex = PlaceIn(chartAt, p)
    BY <1>5, <1>9, <1>11, <1>15
  <2> QED
    BY <2>1, <1>5, <1>13
<1>16. ASSUME NEW p \in DOMAIN order PROVE TabRecord(p)' = TabRecord(p)
  <2>1. order'[p].kind = order[p].kind /\ order'[p].visibility = order[p].visibility
    BY <1>9, <1>11
  <2>2. TabRecord(p)' = [kind |-> order'[p].kind, name |-> TabName(p)',
                         visibility |-> order'[p].visibility,
                         id |-> IF order'[p].kind = "worksheet"
                                THEN sheets'[order'[p].kindIndex].id ELSE None]
    BY DEF TabRecord
  <2>3. TabName(p)' = TabName(p)
    BY <2>1, <1>7, <1>14, <1>15 DEF TabName, Kinds
  <2>4. order[p].kind = "worksheet"
          => sheets'[order'[p].kindIndex].id = sheets[order[p].kindIndex].id
    <3>1. TabRecord(p).id = IF order[p].kind = "worksheet"
                            THEN sheets[order[p].kindIndex].id ELSE None
      BY DEF TabRecord
    <3>2. pkg.tabs[p] = TabRecord(p)
      BY <1>6
    <3> QED
      BY <3>1, <3>2, <1>14
  <2> QED
    BY <2>1, <2>2, <2>3, <2>4 DEF TabRecord
<1>17. AskedTabs(pkg, tabAt, order') = {a}
  <2>1. \A q \in DOMAIN order : Equivalent(TabName(q), TabName(a)) <=> q = a
    BY <1>2, TabNamesDiffer DEF VisibleTabs, Equivalent
  <2> QED
    BY <2>1, <1>2, <1>4, <1>6, <1>7, <1>10, <1>11 DEF AskedTabs, VisibleTabs
<1>18. active' = a
  BY <1>13, <1>17 DEF FirstOf
<1>19. PrintAreas' = PrintAreas
  <2> DEFINE Area(p) == sheets[order[p].kindIndex].area
             Printed == {q \in DOMAIN order : order[q].kind = "worksheet" /\ Area(q) # None}
  <2>1. PrintAreas = [p \in Printed |-> Area(p)]
    BY DEF PrintAreas
  <2>2. \A p \in DOMAIN order : order[p].kind = "worksheet" => SettingAt(PrintAreas, p) = Area(p)
    BY DEF SettingAt, PrintAreas
  <2>3. /\ DOMAIN order' = DOMAIN order
        /\ \A p \in DOMAIN order :
             /\ order'[p].kind = order[p].kind
             /\ order[p].kind = "worksheet" => sheets'[order'[p].kindIndex].area = Area(p)
    BY <2>2, <1>9, <1>11, <1>14
  <2> HIDE DEF Area
  <2>4. {q \in DOMAIN order' : /\ order'[q].kind = "worksheet"
                               /\ sheets'[order'[q].kindIndex].area # None} = Printed
    BY <2>3
  <2>5. PrintAreas' = [p \in Printed |-> sheets'[order'[p].kindIndex].area]
    BY <2>4 DEF PrintAreas
  <2>6. \A p \in Printed : sheets'[order'[p].kindIndex].area = Area(p)
    BY <2>3
  <2> HIDE DEF Printed
  <2> QED
    BY <2>1, <2>5, <2>6
<1> QED
  BY <1>12, <1>16, <1>18, <1>19

\* A workbook comes back from a file read in full with the tabs it was saved
\* with: their order, kinds, names and visibilities, the active tab and the
\* print areas, though load() numbers worksheets and chartsheets anew.
THEOREM SavedTabsReload == SpecLenient => ReloadRestoresTabs
<1>1. Sound /\ NamesInv /\ Reload =>
        /\ Len(order') = Len(order)
        /\ \A p \in DOMAIN order : TabRecord(p)' = TabRecord(p)
        /\ active' \in EffectiveActive
        /\ PrintAreas' = PrintAreas
  BY AlwaysIs, ReloadRestores DEF Sound
<1>2. Sound /\ NamesInv /\ [NextLenient]_vars =>
        [\/ /\ Len(order') = Len(order)
            /\ \A p \in DOMAIN order : TabRecord(p)' = TabRecord(p)
            /\ active' \in EffectiveActive
            /\ PrintAreas' = PrintAreas
         \/ ~Reload]_vars
  BY <1>1
<1> QED
  BY <1>2, SpecNames, PTL DEF SpecLenient, ReloadRestoresTabs

-----------------------------------------------------------------------------
(* The active tab *)

\* The active tab is the one it was.
FollowsTab == active' \in DOMAIN order' /\ ActiveName' = ActiveName

\* The tab of an existing sheet names it.
LEMMA TabsNameSheets ==
  ASSUME NEW K \in KindSets, IInv(K), NEW p \in DOMAIN order
  PROVE  /\ order[p].kind \in Kinds
         /\ order[p].kind = "worksheet" => order[p].kindIndex \in DOMAIN sheets
         /\ order[p].kind = "chartsheet" => order[p].kindIndex \in DOMAIN chartsheets
<1>1. /\ order[p].kind \in Kinds
      /\ order[p].kindIndex \in 1..KindCount(order[p].kind)
  BY TypesOf DEF IInv, Ordered, OrderInRange, KindCount
<1> QED
  BY <1>1, TypesOf DEF IInv, KindCount

\* Operations that add a tab leave the active one alone.
LEMMA AddedTabFollows ==
  ASSUME NEW K \in KindSets, IInv(K), active \in DOMAIN order, NEW tab, order' = Append(order, tab),
         UNCHANGED active,
         \A i \in DOMAIN sheets : sheets'[i] = sheets[i],
         \A i \in DOMAIN chartsheets : chartsheets'[i] = chartsheets[i]
  PROVE  FollowsTab
<1>1. /\ DOMAIN order = 1..Len(order) /\ Len(order) \in Nat
      /\ DOMAIN order' = 1..(Len(order) + 1) /\ order'[active] = order[active]
  BY AppendProperties, LenProperties DEF IInv, TypeOK
<1>2. active \in DOMAIN order'
  BY <1>1
<1>3. TabName(active)' = TabName(active)
  BY <1>1, TabsNameSheets DEF TabName, Kinds
<1> QED
  BY <1>2, <1>3 DEF FollowsTab, ActiveName

LEMMA AppendKeeps ==
  ASSUME NEW T, NEW s \in Seq(T), NEW e \in T
  PROVE  \A i \in DOMAIN s : Append(s, e)[i] = s[i]
BY AppendProperties, LenProperties

LEMMA AddWorksheetFollows ==
  ASSUME NEW K \in KindSets, IInv(K), active \in DOMAIN order, NEW n \in SheetNames,
         \/ AddWorksheet(n)
         \/ AddChartsheet(n)
         \/ \E i \in DOMAIN sheets : CopyWorksheet(i, n)
  PROVE  FollowsTab
<1>1. UNCHANGED active /\ \E tab : order' = Append(order, tab)
  BY DEF AddWorksheet, AddChartsheet, CopyWorksheet, ListTab
<1>2. \/ UNCHANGED sheets \/ \E s \in Sheet : sheets' = Append(sheets, s)
  <2>1. ASSUME NEW i \in DOMAIN sheets, Ids \ UsedIds # {}
        PROVE  [sheets[i] EXCEPT !.name = n, !.id = FreshId] \in Sheet
    BY <2>1, TypesOf, FreshIdType DEF IInv, Sheet
  <2>2. Ids \ UsedIds # {} => [name |-> n, id |-> FreshId, area |-> None,
                               titles |-> None] \in Sheet
    BY FreshIdType DEF Sheet
  <2> QED
    BY <2>1, <2>2 DEF AddWorksheet, AddChartsheet, CopyWorksheet
<1>3. \A i \in DOMAIN sheets : sheets'[i] = sheets[i]
  <2>1. CASE UNCHANGED sheets
    BY <2>1
  <2>2. ASSUME NEW s \in Sheet, sheets' = Append(sheets, s)
        PROVE  \A i \in DOMAIN sheets : sheets'[i] = sheets[i]
    BY <2>2, AppendKeeps DEF IInv, TypeOK
  <2> QED
    BY <1>2, <2>1, <2>2
<1>4. \A i \in DOMAIN chartsheets : chartsheets'[i] = chartsheets[i]
  <2>1. UNCHANGED chartsheets \/ chartsheets' = Append(chartsheets, n)
    BY DEF AddWorksheet, AddChartsheet, CopyWorksheet
  <2> QED
    BY <2>1, AppendKeeps, SMTT(30) DEF IInv, TypeOK
<1> QED
  BY <1>1, <1>3, <1>4, AddedTabFollows

\* Place x of l tabs when place u is given up and m tabs are left.
LEMMA PlaceMoved ==
  ASSUME NEW l \in Nat, NEW m \in Nat, m # 0, NEW u \in 1..(l + 1), NEW x \in 1..l,
         (u \in 1..l /\ m = l - 1) \/ (u = l + 1 /\ m = l),
         NEW y, y = IF x > u THEN x - 1 ELSE IF x = u /\ u > m THEN m ELSE x
  PROVE  y \in 1..m /\ (u # x => (IF y < u THEN y ELSE y + 1) = x)
OBVIOUS

\* Where the removal of a sheet leaves the active tab: on the tab it was, or
\* on a visible one when there is one.
LEMMA ForgottenTab ==
  ASSUME NEW K \in KindSets, IInv(K), active \in DOMAIN order, Len(order) # 1,
         NEW kind \in Kinds, NEW k \in 1..KindCount(kind),
         ForgetTab(TabOf(kind, k), kind, k)
  PROVE  /\ active' \in VisibleTabs(order') \/ VisibleTabs(order') = {}
         /\ TabOf(kind, k) # active =>
              /\ active' \in DOMAIN order'
              /\ order'[active'].kind = order[active].kind
              /\ order'[active'].kindIndex =
                   IF order[active].kind = kind /\ order[active].kindIndex > k
                   THEN order[active].kindIndex - 1 ELSE order[active].kindIndex
              /\ order[active].kind = kind => order[active].kindIndex # k
<1> DEFINE t == TabOf(kind, k)
           rest == OrderWithout(t, kind, k)
<1>1. /\ t \in 1..(Len(order) + 1) /\ rest \in Seq(Tab)
      /\ t \in DOMAIN order => Len(rest) = Len(order) - 1
      /\ t \notin DOMAIN order => t = Len(order) + 1 /\ Len(rest) = Len(order)
      /\ \A p \in DOMAIN rest :
           /\ Origin(t, p) \in DOMAIN order \ {t}
           /\ rest[p].kind = order[Origin(t, p)].kind
           /\ rest[p].visibility = order[Origin(t, p)].visibility
           /\ rest[p].kindIndex =
                IF /\ order[Origin(t, p)].kind = kind
                   /\ order[Origin(t, p)].kindIndex > k
                THEN order[Origin(t, p)].kindIndex - 1
                ELSE order[Origin(t, p)].kindIndex
      /\ \A p \in DOMAIN order : order[p].kind = kind /\ order[p].kindIndex = k => p = t
  <2>1. Forgotten(t, rest, kind, k)
    BY ForgottenOrder, Zenon
  <2> QED
    BY ONLY <2>1 DEF Forgotten
<1>2. ForgetTab(t, kind, k)
  OBVIOUS
<1> HIDE DEF t
<1>3. /\ Len(order) \in Nat \ {0} /\ DOMAIN order = 1..Len(order)
      /\ active \in 1..Len(order)
      /\ Len(rest) \in Nat /\ DOMAIN rest = 1..Len(rest)
      /\ (Len(rest) = 0 <=> rest = <<>>)
  <2>1. order \in Seq(Tab) /\ active \in DOMAIN order
    BY DEF IInv, TypeOK
  <2>2. Len(order) \in Nat /\ DOMAIN order = 1..Len(order)
    BY <2>1, LengthOfSeq
  <2>3. \A l \in Nat : \A x \in 1..l : l \in Nat \ {0}
    OBVIOUS
  <2> QED
    BY <1>1, <2>1, <2>2, <2>3, LengthOfSeq
<1>4. order' = rest /\ (rest # <<>> => active' \in ActiveAfter(t, rest))
  BY <1>2 DEF ForgetTab
<1> HIDE DEF rest
<1>5. rest # <<>> /\ Len(rest) # 0
  <2>1. Len(order) # 1
    OBVIOUS
  <2>2. \A l, m \in Nat : l # 0 /\ l # 1 /\ (m = l - 1 \/ m = l) => m # 0
    OBVIOUS
  <2>3. /\ Len(rest) = Len(order) - 1 \/ Len(rest) = Len(order)
        /\ Len(order) \in Nat /\ Len(order) # 0 /\ Len(rest) \in Nat
    BY ONLY <1>1, <1>3
  <2>4. Len(rest) # 0
    BY ONLY <2>1, <2>2, <2>3
  <2> QED
    BY <2>4, <1>3
<1> DEFINE moved == IF active > t THEN active - 1
                    ELSE IF active = t /\ t > Len(rest) THEN Len(rest) ELSE active
<1>6. moved \in DOMAIN rest /\ (t # active => Origin(t, moved) = active)
  <2>1. /\ Len(order) \in Nat /\ Len(rest) \in Nat /\ Len(rest) # 0
        /\ t \in 1..(Len(order) + 1) /\ active \in 1..Len(order)
        /\ moved = IF active > t THEN active - 1
                   ELSE IF active = t /\ t > Len(rest) THEN Len(rest) ELSE active
    BY <1>1, <1>3, <1>5
  <2>2. (t \in 1..Len(order) /\ Len(rest) = Len(order) - 1)
          \/ (t = Len(order) + 1 /\ Len(rest) = Len(order))
    BY <1>1, <1>3
  <2>3. /\ moved \in 1..Len(rest)
        /\ t # active => (IF moved < t THEN moved ELSE moved + 1) = active
    <3> HIDE DEF moved
    <3> QED
      BY ONLY <2>1, <2>2, PlaceMoved
  <2> QED
    BY <2>3, <1>3 DEF Origin
<1>7. active' \in IF rest[moved].visibility = "visible" THEN {moved}
                  ELSE FirstVisible(rest)
  BY <1>4, <1>5, <1>6 DEF ActiveAfter
<1>8. order[active].visibility = "visible"
  BY DEF IInv, ActiveNeverHidden
<1> HIDE DEF moved
<1>9. active' \in VisibleTabs(rest) \/ VisibleTabs(rest) = {}
  BY <1>6, <1>7 DEF VisibleTabs, FirstVisible, FirstOf
<1>10. t # active => active' = moved
  BY <1>1, <1>6, <1>7, <1>8
<1>11. ASSUME t # active
       PROVE  /\ active' \in DOMAIN order'
              /\ order'[active'].kind = order[active].kind
              /\ order'[active'].kindIndex =
                   IF order[active].kind = kind /\ order[active].kindIndex > k
                   THEN order[active].kindIndex - 1 ELSE order[active].kindIndex
              /\ order[active].kind = kind => order[active].kindIndex # k
  BY <1>1, <1>4, <1>6, <1>10, <1>11
<1> QED
  BY <1>4, <1>9, <1>11 DEF t

\* Removing another worksheet: the active tab's index and number follow.
LEMMA RemoveWorksheetFollows ==
  ASSUME NEW K \in KindSets, IInv(K), active \in DOMAIN order, NEW i \in DOMAIN sheets, RemoveWorksheet(i)
  PROVE  /\ active' \in VisibleTabs(order') \/ VisibleTabs(order') = {}
         /\ TabOf("worksheet", i) # active => FollowsTab
<1> DEFINE t == TabOf("worksheet", i)
<1>1. "worksheet" \in Kinds /\ i \in 1..KindCount("worksheet")
  BY TypesOf DEF IInv, Kinds, KindCount
<1>2. /\ active' \in VisibleTabs(order') \/ VisibleTabs(order') = {}
      /\ t # active =>
           /\ active' \in DOMAIN order'
           /\ order'[active'].kind = order[active].kind
           /\ order'[active'].kindIndex =
                IF order[active].kind = "worksheet" /\ order[active].kindIndex > i
                THEN order[active].kindIndex - 1 ELSE order[active].kindIndex
           /\ order[active].kind = "worksheet" => order[active].kindIndex # i
  BY <1>1, ForgottenTab DEF RemoveWorksheet
<1> HIDE DEF t
<1>4. order \in Seq(Tab) /\ sheets \in Seq(Sheet) /\ Len(sheets) \in Nat
        /\ DOMAIN sheets = 1..Len(sheets)
  BY LenProperties DEF IInv, TypeOK
<1>5. /\ \A j \in 1..(Len(sheets) - 1) :
           sheets'[j] = IF j < i THEN sheets[j] ELSE sheets[j + 1]
      /\ UNCHANGED chartsheets
  BY <1>4, WithoutType DEF RemoveWorksheet
<1>6. ASSUME t # active PROVE FollowsTab
  <2>1. active' \in DOMAIN order'
    BY <1>2, <1>6
  <2>2. /\ order'[active'].kind = order[active].kind
        /\ order'[active'].kindIndex =
             IF order[active].kind = "worksheet" /\ order[active].kindIndex > i
             THEN order[active].kindIndex - 1 ELSE order[active].kindIndex
    BY <1>2, <1>6
  <2>3. order[active].kind = "worksheet" => order[active].kindIndex # i
    BY <1>2, <1>6
  <2>4. TabName(active)' = TabName(active)
    <3>1. CASE order[active].kind = "worksheet"
      <4>1. order[active].kindIndex \in 1..Len(sheets) /\ order[active].kindIndex # i
        BY <3>1, <2>3, <1>4, TabsNameSheets
      <4>2. sheets'[order'[active'].kindIndex] = sheets[order[active].kindIndex]
        <5> DEFINE k == order[active].kindIndex
        <5>1. /\ k \in 1..Len(sheets) /\ k # i /\ i \in 1..Len(sheets)
              /\ order'[active'].kindIndex = IF k > i THEN k - 1 ELSE k
          BY <4>1, <3>1, <2>2, <1>4
        <5> HIDE DEF k
        <5>2. CASE k > i
          BY <5>1, <5>2, <1>4, <1>5 DEF k
        <5>3. CASE ~(k > i)
          <6>1. k \in 1..(Len(sheets) - 1) /\ k < i
            BY <5>1, <5>3, <1>4
          <6> QED
            BY <5>1, <5>3, <6>1, <1>5 DEF k
        <5> QED
          BY <5>2, <5>3
      <4> QED
        BY <4>2, <3>1, <2>2 DEF TabName
    <3>2. CASE order[active].kind # "worksheet"
      BY <3>2, <2>2, <1>5 DEF TabName
    <3> QED
      BY <3>1, <3>2
  <2> QED
    BY <2>1, <2>4 DEF FollowsTab, ActiveName
<1> QED
  BY <1>2, <1>6 DEF t

\* Removing another chartsheet.
LEMMA RemoveChartsheetFollows ==
  ASSUME NEW K \in KindSets, IInv(K), active \in DOMAIN order, NEW i \in DOMAIN chartsheets,
         RemoveChartsheet(i)
  PROVE  /\ active' \in VisibleTabs(order') \/ VisibleTabs(order') = {}
         /\ TabOf("chartsheet", i) # active => FollowsTab
<1> DEFINE t == TabOf("chartsheet", i)
<1>1. "chartsheet" \in Kinds /\ i \in 1..KindCount("chartsheet")
  BY TypesOf DEF IInv, Kinds, KindCount
<1>2. /\ active' \in VisibleTabs(order') \/ VisibleTabs(order') = {}
      /\ t # active =>
           /\ active' \in DOMAIN order'
           /\ order'[active'].kind = order[active].kind
           /\ order'[active'].kindIndex =
                IF order[active].kind = "chartsheet" /\ order[active].kindIndex > i
                THEN order[active].kindIndex - 1 ELSE order[active].kindIndex
           /\ order[active].kind = "chartsheet" => order[active].kindIndex # i
  BY <1>1, ForgottenTab DEF RemoveChartsheet
<1> HIDE DEF t
<1>4. order \in Seq(Tab) /\ chartsheets \in Seq(SheetNames) /\ Len(chartsheets) \in Nat
        /\ DOMAIN chartsheets = 1..Len(chartsheets)
  BY LenProperties DEF IInv, TypeOK
<1>5. /\ \A j \in 1..(Len(chartsheets) - 1) :
           chartsheets'[j] = IF j < i THEN chartsheets[j] ELSE chartsheets[j + 1]
      /\ UNCHANGED sheets
  BY <1>4, WithoutType DEF RemoveChartsheet
<1>6. ASSUME t # active PROVE FollowsTab
  <2>1. active' \in DOMAIN order'
    BY <1>2, <1>6
  <2>2. /\ order'[active'].kind = order[active].kind
        /\ order'[active'].kindIndex =
             IF order[active].kind = "chartsheet" /\ order[active].kindIndex > i
             THEN order[active].kindIndex - 1 ELSE order[active].kindIndex
    BY <1>2, <1>6
  <2>3. order[active].kind = "chartsheet" => order[active].kindIndex # i
    BY <1>2, <1>6
  <2>4. TabName(active)' = TabName(active)
    <3>1. CASE order[active].kind = "chartsheet"
      <4>1. order[active].kindIndex \in 1..Len(chartsheets) /\ order[active].kindIndex # i
        BY <3>1, <2>3, <1>4, TabsNameSheets
      <4>2. chartsheets'[order'[active'].kindIndex] = chartsheets[order[active].kindIndex]
        <5> DEFINE k == order[active].kindIndex
        <5>1. /\ k \in 1..Len(chartsheets) /\ k # i /\ i \in 1..Len(chartsheets)
              /\ order'[active'].kindIndex = IF k > i THEN k - 1 ELSE k
          BY <4>1, <3>1, <2>2, <1>4
        <5> HIDE DEF k
        <5>2. CASE k > i
          BY <5>1, <5>2, <1>4, <1>5 DEF k
        <5>3. CASE ~(k > i)
          <6>1. k \in 1..(Len(chartsheets) - 1) /\ k < i
            BY <5>1, <5>3, <1>4
          <6> QED
            BY <5>1, <5>3, <6>1, <1>5 DEF k
        <5> QED
          BY <5>2, <5>3
      <4> QED
        BY <4>2, <3>1, <2>2 DEF TabName
    <3>2. CASE order[active].kind = "worksheet"
      BY <3>2, <2>2, <1>5 DEF TabName
    <3> QED
      BY <3>1, <3>2, TabsNameSheets DEF Kinds
  <2> QED
    BY <2>1, <2>4 DEF FollowsTab, ActiveName
<1> QED
  BY <1>2, <1>6 DEF t

\* A move takes the active index to the place the active tab went to.
LEMMA MoveSheetFollows ==
  ASSUME NEW K \in KindSets, IInv(K), active \in DOMAIN order, NEW from \in DOMAIN order,
         NEW to \in DOMAIN order, MoveSheet(from, to)
  PROVE  FollowsTab
<1>1. Len(order) \in Nat /\ DOMAIN order = 1..Len(order)
  BY TypesOf DEF IInv
<1>2. /\ DOMAIN order' = DOMAIN order
      /\ \A p \in DOMAIN order : order'[p] = order[CameFrom(from, to, p)]
      /\ UNCHANGED <<sheets, chartsheets>>
  BY DEF MoveSheet
<1>3. active' = IF active = from THEN to
                ELSE IF from < active /\ active <= to THEN active - 1
                ELSE IF to <= active /\ active < from THEN active + 1
                ELSE active
  BY DEF MoveSheet
<1>4. active' \in DOMAIN order /\ CameFrom(from, to, active') = active
  <2>1. active \in 1..Len(order) /\ from \in 1..Len(order) /\ to \in 1..Len(order)
    BY <1>1
  <2>2. active' \in 1..Len(order)
    BY <2>1, <1>1, <1>3
  <2>3. CameFrom(from, to, active') = active
    BY <2>1, <2>2, <1>1, <1>3 DEF CameFrom
  <2> QED
    BY <2>2, <2>3, <1>1
<1>5. order'[active'] = order[active]
  BY <1>2, <1>4
<1> QED
  BY <1>2, <1>4, <1>5 DEF FollowsTab, ActiveName, TabName

\* The active tab stays the active tab while others are added, moved and
\* removed, and when it is removed itself the index is left on a visible tab
\* whenever there is one.
THEOREM ActiveTabFollows == SpecLenient => ActiveFollowsTab
<1>1. Sound /\ active \in DOMAIN order /\ EditsOtherTabs => FollowsTab
  BY AlwaysIs, AddWorksheetFollows, RemoveWorksheetFollows, RemoveChartsheetFollows,
     MoveSheetFollows DEF Sound, EditsOtherTabs
<1>2. Sound /\ active \in DOMAIN order /\ RemovesTab =>
        active' \in VisibleTabs(order') \/ VisibleTabs(order') = {}
  BY AlwaysIs, RemoveWorksheetFollows, RemoveChartsheetFollows DEF Sound, RemovesTab
<1>3. Sound /\ [NextLenient]_vars =>
        [(active \in DOMAIN order) =>
           /\ \/ active' \in DOMAIN order' /\ ActiveName' = ActiveName
              \/ ~EditsOtherTabs
           /\ \/ active' \in VisibleTabs(order') \/ VisibleTabs(order') = {}
              \/ ~RemovesTab]_vars
  BY <1>1, <1>2 DEF FollowsTab
<1> QED
  BY <1>3, SpecSound, PTL DEF SpecLenient, ActiveFollowsTab

-----------------------------------------------------------------------------
(* Scopes and owners *)

IdsUnique ==
  \A i, j \in DOMAIN sheets : sheets[i].id = sheets[j].id => i = j

ScopesInv == ScopeDenotesOwner /\ IdsUnique

\* What a step other than a reload promises of the scoped names.
Survival == \A d \in definedNames : OwnerAlive(d)' => NameSurvives(d)

\* While the worksheets are the tabs in order, the tab of each is its index
\* and no chartsheet has one.
LEMMA InOrderTabs ==
  ASSUME NEW K \in KindSets, IInv(K), InOrder
  PROVE  /\ DOMAIN sheets = DOMAIN order
         /\ \A i \in DOMAIN sheets : TabOf("worksheet", i) = i
         /\ \A i : TabOf("chartsheet", i) = Len(order) + 1
<1>1. /\ Len(sheets) \in Nat /\ DOMAIN sheets = 1..Len(sheets)
      /\ Len(chartsheets) \in Nat /\ DOMAIN chartsheets = 1..Len(chartsheets)
      /\ Len(order) \in Nat /\ DOMAIN order = 1..Len(order)
  BY TypesOf DEF IInv
<1>2. "worksheet" \in K
  BY KindSetsType
<1>3. KindCount("worksheet") = Len(sheets) /\ KindCount("chartsheet") = Len(chartsheets)
  BY DEF KindCount
<1>4. \A i \in DOMAIN sheets : TabOf("worksheet", i) = i /\ i \in DOMAIN order
  <2> SUFFICES ASSUME NEW i \in DOMAIN sheets
               PROVE  TabOf("worksheet", i) = i /\ i \in DOMAIN order
    OBVIOUS
  <2>1. i \in 1..KindCount("worksheet")
    BY <1>1, <1>3
  <2>2. /\ TabOf("worksheet", i) \in DOMAIN order
        /\ order[TabOf("worksheet", i)].kindIndex = i
    BY <1>2, <2>1, TabOfIsListed
  <2> QED
    BY <2>2 DEF InOrder
<1>5. \A p \in DOMAIN order : p \in DOMAIN sheets
  <2> SUFFICES ASSUME NEW p \in DOMAIN order PROVE p \in DOMAIN sheets
    OBVIOUS
  <2>1. order[p].kind = "worksheet" /\ order[p].kindIndex = p
    BY DEF InOrder
  <2> QED
    BY <2>1, TabsNameSheets
<1>6. \A i : TabOf("chartsheet", i) = Len(order) + 1
  BY TabOfFound DEF InOrder
<1> QED
  BY <1>4, <1>5, <1>6

\* Steps that leave the identities and the defined names alone.
LEMMA SameScopesStep ==
  ASSUME ScopesInv, UNCHANGED definedNames, DOMAIN sheets' = DOMAIN sheets,
         \A i \in DOMAIN sheets : sheets'[i].id = sheets[i].id
  PROVE  ScopesInv' /\ Survival
BY DEF ScopesInv, ScopeDenotesOwner, IdsUnique, Survival, NameSurvives

\* A new worksheet has an identity of its own and comes last.
LEMMA NewSheetScopes ==
  ASSUME TypeOK, ScopesInv, NEW s \in Sheet, s.id \notin UsedIds,
         sheets' = Append(sheets, s), UNCHANGED definedNames
  PROVE  ScopesInv' /\ Survival
<1>1. /\ Len(sheets) \in Nat /\ DOMAIN sheets = 1..Len(sheets)
      /\ DOMAIN sheets' = 1..(Len(sheets) + 1) /\ sheets'[Len(sheets) + 1] = s
      /\ \A i \in 1..Len(sheets) : sheets'[i] = sheets[i]
  BY AppendProperties, LenProperties DEF TypeOK
<1>2. \A i \in DOMAIN sheets : sheets[i].id # s.id
  BY DEF UsedIds
<1>3. \A i \in DOMAIN sheets' : i \in DOMAIN sheets \/ i = Len(sheets) + 1
  BY <1>1
<1>4. IdsUnique'
  <2> SUFFICES ASSUME NEW i \in DOMAIN sheets', NEW j \in DOMAIN sheets',
                      sheets'[i].id = sheets'[j].id
               PROVE  i = j
    BY DEF IdsUnique
  <2>1. CASE i \in DOMAIN sheets /\ j \in DOMAIN sheets
    BY <2>1, <1>1 DEF ScopesInv, IdsUnique
  <2>2. CASE i = Len(sheets) + 1 /\ j \in DOMAIN sheets
    BY <2>2, <1>1, <1>2
  <2>3. CASE i \in DOMAIN sheets /\ j = Len(sheets) + 1
    BY <2>3, <1>1, <1>2
  <2> QED
    BY <2>1, <2>2, <2>3, <1>3
<1>5. ScopeDenotesOwner'
  <2> SUFFICES ASSUME NEW d \in definedNames, d.scope # 0
               PROVE  d.scope \in DOMAIN sheets' /\ sheets'[d.scope].id = d.owner
    BY DEF ScopeDenotesOwner
  <2>1. d.scope \in DOMAIN sheets /\ sheets[d.scope].id = d.owner
    BY DEF ScopesInv, ScopeDenotesOwner
  <2> QED
    BY <2>1, <1>1
<1> QED
  BY <1>4, <1>5 DEF ScopesInv, Survival, NameSurvives

LEMMA AddDefinedNameScopes ==
  ASSUME TypeOK, ScopesInv, NEW n \in DefNames, NEW scope \in 0..Len(sheets),
         AddDefinedName(n, scope)
  PROVE  ScopesInv' /\ Survival
<1> DEFINE new == [name |-> n, scope |-> scope,
                   owner |-> IF scope = 0 THEN None ELSE sheets[scope].id]
<1>1. definedNames' = definedNames \cup {new} /\ UNCHANGED sheets
  BY DEF AddDefinedName, tabs
<1>2. DOMAIN sheets = 1..Len(sheets) /\ Len(sheets) \in Nat
  BY TypesOf
<1>3. new.scope # 0 => new.scope \in DOMAIN sheets /\ sheets[new.scope].id = new.owner
  BY <1>2
<1> HIDE DEF new
<1> QED
  BY <1>1, <1>3 DEF ScopesInv, ScopeDenotesOwner, IdsUnique, Survival, NameSurvives

\* The removal of a worksheet takes its own names away and shifts the later
\* scopes along with the worksheets they denote.
LEMMA RemoveWorksheetScopes ==
  ASSUME NEW K \in KindSets, IInv(K), ScopesInv, ScopedInOrder, NEW i \in DOMAIN sheets, RemoveWorksheet(i)
  PROVE  ScopesInv' /\ Survival
<1>1. sheets \in Seq(Sheet) /\ Len(sheets) \in Nat /\ DOMAIN sheets = 1..Len(sheets)
  BY TypesOf DEF IInv, TypeOK
<1>2. /\ DOMAIN sheets' = 1..(Len(sheets) - 1)
      /\ \A j \in 1..(Len(sheets) - 1) :
           sheets'[j] = IF j < i THEN sheets[j] ELSE sheets[j + 1]
  BY <1>1, WithoutType DEF RemoveWorksheet
<1>3. /\ \A k \in DOMAIN sheets' : /\ Origin(i, k) \in DOMAIN sheets \ {i}
                                   /\ sheets'[k] = sheets[Origin(i, k)]
      /\ \A k, l \in DOMAIN sheets' : Origin(i, k) = Origin(i, l) => k = l
  <2>1. sheets' = Without(sheets, i)
    BY DEF RemoveWorksheet
  <2> QED
    BY <1>1, <2>1, WithoutLeaves
<1>4. IdsUnique'
  BY <1>3 DEF ScopesInv, IdsUnique
<1>5. \A k \in DOMAIN sheets' : sheets'[k].id # sheets[i].id
  BY <1>3 DEF ScopesInv, IdsUnique
<1> DEFINE Shifted(d) == [d EXCEPT !.scope = IF @ > i THEN @ - 1 ELSE @]
<1>6. \A d \in definedNames :
        /\ d.scope \in Nat /\ Shifted(d).name = d.name /\ Shifted(d).owner = d.owner
        /\ Shifted(d).scope = IF d.scope > i THEN d.scope - 1 ELSE d.scope
  BY DEF IInv, TypeOK, ScopedName
<1>7. definedNames' = {Shifted(d) : d \in {e \in definedNames : e.scope # i}}
  <2>1. CASE definedNames = {}
    BY <2>1 DEF RemoveWorksheet, ScopesWithout
  <2>2. CASE definedNames # {}
    <3>1. TabOf("worksheet", i) = i
      BY <2>2, InOrderTabs DEF ScopedInOrder
    <3> QED
      BY <3>1 DEF RemoveWorksheet, ScopesWithout
  <2> QED
    BY <2>1, <2>2
<1> HIDE DEF Shifted
<1>8. ScopeDenotesOwner'
  <2> SUFFICES ASSUME NEW d \in definedNames, d.scope # i, Shifted(d).scope # 0
               PROVE  /\ Shifted(d).scope \in DOMAIN sheets'
                      /\ sheets'[Shifted(d).scope].id = Shifted(d).owner
    BY <1>7 DEF ScopeDenotesOwner
  <2>1. d.scope # 0
    BY <1>1, <1>6
  <2>2. d.scope \in 1..Len(sheets) /\ sheets[d.scope].id = d.owner
    BY <2>1, <1>1 DEF ScopesInv, ScopeDenotesOwner
  <2> DEFINE s == Shifted(d).scope
  <2>3. s \in 1..(Len(sheets) - 1) /\ d.scope = IF s < i THEN s ELSE s + 1
    BY <2>2, <1>1, <1>6
  <2> HIDE DEF s
  <2>4. sheets'[s] = sheets[d.scope]
    BY <2>3, <1>2
  <2> QED
    BY <2>2, <2>3, <2>4, <1>2, <1>6 DEF s
<1>9. Survival
  <2> SUFFICES ASSUME NEW d \in definedNames, OwnerAlive(d)' PROVE NameSurvives(d)
    BY DEF Survival
  <2>1. d.scope # i
    <3> SUFFICES ASSUME d.scope = i PROVE FALSE
      OBVIOUS
    <3>1. d.owner = sheets[i].id /\ sheets[i].id \in Ids
      BY <1>1, TypesOf DEF ScopesInv, ScopeDenotesOwner, Sheet, IInv
    <3>2. d.owner # None
      BY <3>1, NoneAssumption
    <3> QED
      BY <3>1, <3>2, <1>5 DEF OwnerAlive
  <2>2. Shifted(d) \in definedNames'
    BY <2>1, <1>7
  <2> QED
    BY <2>2, <1>6 DEF NameSurvives
<1> QED
  BY <1>4, <1>8, <1>9 DEF ScopesInv

\* While scoped names exist only a chartsheet without a tab can be removed: all
\* scopes are tabs, and stay.
LEMMA RemoveChartsheetScopes ==
  ASSUME NEW K \in KindSets, IInv(K), ScopesInv, ScopedInOrder, NEW i \in DOMAIN chartsheets,
         RemoveChartsheet(i)
  PROVE  ScopesInv' /\ Survival
<1>1. UNCHANGED sheets /\ definedNames' = ScopesWithout(TabOf("chartsheet", i))
  BY DEF RemoveChartsheet
<1>2. CASE definedNames = {}
  <2>1. definedNames' = {}
    BY <1>1, <1>2 DEF ScopesWithout
  <2> QED
    BY <2>1, <1>1, <1>2 DEF ScopesInv, ScopeDenotesOwner, IdsUnique, Survival
<1>3. CASE definedNames # {}
  <2>1. /\ InOrder /\ TabOf("chartsheet", i) = Len(order) + 1
        /\ DOMAIN sheets = 1..Len(order) /\ Len(order) \in Nat
    BY <1>3, InOrderTabs, TypesOf DEF ScopedInOrder, IInv
  <2>2. \A d \in definedNames : /\ d \in ScopedName /\ d.scope \in Nat
                                /\ d.scope <= Len(order)
    BY <2>1 DEF ScopesInv, ScopeDenotesOwner, IInv, TypeOK, ScopedName
  <2>3. \A d \in definedNames : /\ d.scope # Len(order) + 1 /\ ~(d.scope > Len(order) + 1)
                                /\ [d EXCEPT !.scope = d.scope] = d
    BY <2>1, <2>2 DEF ScopedName
  <2>4. definedNames' = definedNames
    BY <2>1, <2>3, <1>1 DEF ScopesWithout
  <2> QED
    BY <2>4, <1>1, SameScopesStep
<1> QED
  BY <1>2, <1>3

\* A load, of all tabs or of some, gives no two worksheets one identity.
LEMMA ReadTabsIds ==
  ASSUME NEW K \in KindSets, IInv(K), IdsUnique, NEW a,
         NEW kept, NEW stateless, NEW orphans, Readable(kept, stateless, orphans),
         NEW tabAt \in Ascending(kept), NEW sheetAt \in Ascending(Worksheets(kept)),
         NEW sourceAt \in Ascending(Worksheets(kept) \ stateless),
         NEW chartAt \in Ascending(Chartsheets(kept, orphans)),
         LoadedAs(a, stateless, tabAt, sheetAt, sourceAt, chartAt)
  PROVE  /\ DOMAIN sheets' = DOMAIN sheetAt
         /\ \A k \in DOMAIN sheetAt : sheets'[k].id = sheets[order[sheetAt[k]].kindIndex].id
         /\ IdsUnique'
<1>2. /\ \A p \in Worksheets(kept) : p \in DOMAIN order /\ order[p].kind = "worksheet"
      /\ \A k \in DOMAIN sheetAt : sheetAt[k] \in Worksheets(kept)
      /\ \A k, l \in DOMAIN sheetAt : sheetAt[k] = sheetAt[l] => k = l
  <2>1. KindNumbers(kept, stateless, orphans, sheetAt, sourceAt, chartAt)
    BY KindsAreNumbered, Zenon
  <2> QED
    BY ONLY <2>1 DEF KindNumbers
<1>3. /\ DOMAIN sheets' = DOMAIN sheetAt
      /\ \A k \in DOMAIN sheetAt :
           sheets'[k].id = Package(a).tabs[sheetAt[k]].id
  BY DEF LoadedAs, ReadSheets
<1>4. \A k \in DOMAIN sheetAt :
        /\ order[sheetAt[k]].kind = "worksheet"
        /\ order[sheetAt[k]].kindIndex \in DOMAIN sheets
        /\ sheets'[k].id = sheets[order[sheetAt[k]].kindIndex].id
  <2> SUFFICES ASSUME NEW k \in DOMAIN sheetAt
               PROVE  /\ order[sheetAt[k]].kind = "worksheet"
                      /\ order[sheetAt[k]].kindIndex \in DOMAIN sheets
                      /\ sheets'[k].id = sheets[order[sheetAt[k]].kindIndex].id
    OBVIOUS
  <2>1. sheetAt[k] \in DOMAIN order /\ order[sheetAt[k]].kind = "worksheet"
    BY <1>2
  <2>2. Package(a).tabs[sheetAt[k]].id = sheets[order[sheetAt[k]].kindIndex].id
    BY <2>1 DEF Package, TabRecord
  <2> QED
    BY <2>1, <2>2, <1>3, TabsNameSheets
<1>5. IdsUnique'
  <2> SUFFICES ASSUME NEW k \in DOMAIN sheetAt, NEW l \in DOMAIN sheetAt,
                      sheets'[k].id = sheets'[l].id
               PROVE  k = l
    BY <1>3 DEF IdsUnique
  <2>1. order[sheetAt[k]].kindIndex = order[sheetAt[l]].kindIndex
    BY <1>4 DEF IdsUnique
  <2>2. sheetAt[k] = sheetAt[l]
    BY <2>1, <1>2, <1>4 DEF IInv, Ordered, OrderOnce
  <2> QED
    BY <2>2, <1>2
<1> QED
  BY <1>3, <1>4, <1>5

\* A reload numbers the worksheets as they were.
LEMMA ReloadScopes ==
  ASSUME NEW K \in KindSets, IInv(K), ScopesInv, ScopedInOrder, Reload
  PROVE  ScopesInv'
<1>1. PICK a \in EffectiveActive, tabAt \in Ascending(DOMAIN order),
           sheetAt \in Ascending(Worksheets(DOMAIN order)),
           sourceAt \in Ascending(Worksheets(DOMAIN order) \ {}),
           chartAt \in Ascending(Chartsheets(DOMAIN order, {})) :
        LoadedAs(a, {}, tabAt, sheetAt, sourceAt, chartAt)
  BY ReloadLoads
<1> DEFINE W == Worksheets(DOMAIN order)
<1>2. \A p : p \in W <=> p \in DOMAIN order /\ order[p].kind = "worksheet"
  BY DEF Worksheets, OfKind
<1>3. /\ DOMAIN sheets' = DOMAIN sheetAt
      /\ \A k \in DOMAIN sheetAt : sheets'[k].id = sheets[order[sheetAt[k]].kindIndex].id
      /\ IdsUnique'
  BY <1>1, ReloadLoads, ReadTabsIds DEF ScopesInv
<1>4. sheetAt \in Ascending(W)
  OBVIOUS
<1> HIDE DEF W
<1>6. definedNames' = definedNames
  BY DEF Reload, ReadTabs, Package
<1>7. ASSUME NEW d \in definedNames, d.scope # 0
      PROVE  d.scope \in DOMAIN sheets' /\ sheets'[d.scope].id = d.owner
  <2>1. InOrder
    BY <1>7 DEF ScopedInOrder
  <2>2. Len(order) \in Nat /\ DOMAIN order = 1..Len(order) /\ DOMAIN sheets = DOMAIN order
    BY <2>1, TypesOf, InOrderTabs DEF IInv
  <2>3. W = 1..Len(order)
    BY <2>1, <2>2, <1>2 DEF InOrder
  <2>4. DOMAIN sheetAt = DOMAIN order /\ \A i \in DOMAIN order : sheetAt[i] = i
    BY <2>2, <2>3, <1>4, AscendingInterval
  <2>5. d.scope \in DOMAIN order /\ sheets[d.scope].id = d.owner
    BY <2>2, <1>7 DEF ScopesInv, ScopeDenotesOwner
  <2>6. order[d.scope].kindIndex = d.scope
    BY <2>1, <2>5 DEF InOrder
  <2> QED
    BY <2>4, <2>5, <2>6, <1>3
<1> QED
  BY <1>3, <1>6, <1>7 DEF ScopesInv, ScopeDenotesOwner

\* A lenient load while there are no defined names.
LEMMA LoadLenientScopes ==
  ASSUME NEW K \in KindSets, IInv(K), ScopesInv, LoadLenient
  PROVE  ScopesInv' /\ Survival
<1>1. definedNames = {} /\ \E kept, stateless, orphans : Loads(kept, stateless, orphans)
  BY LenientReads
<1>2. PICK kept, stateless, orphans : Loads(kept, stateless, orphans)
  BY <1>1
<1>3. PICK a \in EffectiveActive, tabAt \in Ascending(kept),
           sheetAt \in Ascending(Worksheets(kept)),
           sourceAt \in Ascending(Worksheets(kept) \ stateless),
           chartAt \in Ascending(Chartsheets(kept, orphans)) :
        LoadedAs(a, stateless, tabAt, sheetAt, sourceAt, chartAt)
  BY <1>2, ReadTabsLoads DEF Loads
<1>4. IdsUnique'
  BY <1>2, <1>3, ReadTabsIds DEF Loads, ScopesInv
<1>5. definedNames' = {}
  BY <1>1, <1>3 DEF LoadedAs, Package
<1> QED
  BY <1>1, <1>4, <1>5 DEF ScopesInv, ScopeDenotesOwner, Survival

LEMMA StepScopes ==
  Sound /\ ScopesInv /\ ScopedInOrder /\ [NextLenient]_vars
    => ScopesInv' /\ [Survival \/ Reload]_vars
<1> SUFFICES ASSUME Sound, ScopesInv, ScopedInOrder, [NextLenient]_vars
             PROVE  ScopesInv' /\ (Survival \/ Reload)
  OBVIOUS
<1>1. TypeOK
  BY DEF Sound, IInv
<1> DEFINE K == Always
<1> K \in KindSets /\ IInv(K)
  BY AlwaysIs DEF Sound
<1> HIDE DEF K
<1>2. ASSUME NEW n \in SheetNames, AddWorksheet(n) PROVE ScopesInv' /\ Survival
  <2> DEFINE s == [name |-> n, id |-> FreshId, area |-> None, titles |-> None]
  <2>1. s \in Sheet /\ s.id \notin UsedIds
    BY <1>2, FreshIdIsFresh DEF AddWorksheet, Sheet
  <2>2. sheets' = Append(sheets, s) /\ UNCHANGED definedNames
    BY <1>2 DEF AddWorksheet
  <2> QED
    BY <1>1, <2>1, <2>2, NewSheetScopes
<1>3. ASSUME NEW i \in DOMAIN sheets, NEW n \in SheetNames, CopyWorksheet(i, n)
      PROVE  ScopesInv' /\ Survival
  <2> DEFINE s == [sheets[i] EXCEPT !.name = n, !.id = FreshId]
  <2>1. s \in Sheet /\ s.id \notin UsedIds
    BY <1>1, <1>3, FreshIdIsFresh, SheetTypes DEF CopyWorksheet, Sheet
  <2>2. sheets' = Append(sheets, s) /\ UNCHANGED definedNames
    BY <1>3 DEF CopyWorksheet
  <2> QED
    BY <1>1, <2>1, <2>2, NewSheetScopes
<1>4. ASSUME NEW i \in DOMAIN sheets, NEW n \in SheetNames, RenameWorksheet(i, n)
      PROVE  ScopesInv' /\ Survival
  <2>1. /\ DOMAIN sheets' = DOMAIN sheets /\ UNCHANGED definedNames
        /\ \A k \in DOMAIN sheets : sheets'[k].id = sheets[k].id
    BY <1>1, <1>4, SheetTypes DEF RenameWorksheet, Sheet
  <2> QED
    BY <2>1, SameScopesStep
<1>5. ASSUME NEW i \in DOMAIN sheets, NEW r \in Ranges \cup {None},
             SetPrintArea(i, r) \/ SetPrintTitles(i, r)
      PROVE  ScopesInv' /\ Survival
  <2>1. /\ DOMAIN sheets' = DOMAIN sheets /\ UNCHANGED definedNames
        /\ \A k \in DOMAIN sheets : sheets'[k].id = sheets[k].id
    BY <1>1, <1>5, SheetTypes DEF SetPrintArea, SetPrintTitles, Sheet
  <2> QED
    BY <2>1, SameScopesStep
<1>6. ASSUME NEW i \in DOMAIN sheets, RemoveWorksheet(i) PROVE ScopesInv' /\ Survival
  BY <1>6, RemoveWorksheetScopes
<1>7. ASSUME NEW i \in DOMAIN chartsheets, RemoveChartsheet(i)
      PROVE  ScopesInv' /\ Survival
  BY <1>7, RemoveChartsheetScopes
<1>8. ASSUME NEW n \in DefNames, NEW scope \in 0..Len(sheets), AddDefinedName(n, scope)
      PROVE  ScopesInv' /\ Survival
  BY <1>1, <1>8, AddDefinedNameScopes
<1>9. CASE Reload
  BY <1>9, ReloadScopes
<1>10. CASE UNCHANGED <<sheets, definedNames>>
  BY <1>10, SameScopesStep
<1>11. \/ \E n \in SheetNames : AddChartsheet(n) \/ AddSlicer(n)
       \/ \E n \in SheetNames, i \in DOMAIN chartsheets : RenameChartsheet(i, n)
       \/ \E p \in DOMAIN order, v \in Visibilities : SetVisibility(p, v)
       \/ \E p \in DOMAIN order : SetActive(p)
       \/ \E from, to \in DOMAIN order : MoveSheet(from, to)
       \/ UNCHANGED vars
       => UNCHANGED <<sheets, definedNames>>
  BY DEF AddChartsheet, AddSlicer, RenameChartsheet, SetVisibility, SetActive,
         MoveSheet, tabs, vars
<1>12. CASE LoadLenient
  BY <1>12, LoadLenientScopes
<1> QED
  BY <1>2, <1>3, <1>4, <1>5, <1>6, <1>7, <1>8, <1>9, <1>10, <1>11, <1>12
     DEF Next, NextLenient, Rename

\* While the worksheets are the tabs in order, a scoped defined name stays with
\* the worksheet it was given to: removals shift its localSheetId along, and
\* only the removal of that worksheet, or a reload, takes the name away.
THEOREM ScopesStayWithOwners == SpecLenient /\ []ScopedInOrder => ScopesFollowOwners
<1>1. Init => ScopesInv
  <2>1. DOMAIN << >> = {}
    BY EmptySeq
  <2> QED
    BY <2>1 DEF Init, ScopesInv, ScopeDenotesOwner, IdsUnique
<1>2. Sound /\ ScopesInv /\ ScopedInOrder /\ [NextLenient]_vars =>
        /\ ScopesInv'
        /\ [/\ ScopeDenotesOwner'
            /\ \A d \in definedNames : OwnerAlive(d)' => NameSurvives(d) \/ Reload]_vars
  BY StepScopes DEF ScopesInv, Survival
<1> QED
  BY <1>1, <1>2, SpecSound, PTL DEF SpecLenient, ScopesFollowOwners

=============================================================================
