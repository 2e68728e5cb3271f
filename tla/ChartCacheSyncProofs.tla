------------------------ MODULE ChartCacheSyncProofs ------------------------
(***************************************************************************)
(* For every sheet, every series and every sequence of calls:              *)
(* StalePointsAreTracked, to which what the search through the formulas    *)
(* finds does not matter (a cache it leaves alone has no tracked cell in   *)
(* its range), and RequestsExactlyForStale, which is about the search: a   *)
(* hit gives a chain of formulas no longer than the cells it had not seen, *)
(* and a miss a set of seen cells closed under precedents.                 *)
(***************************************************************************)
EXTENDS ChartCacheSync, TLAPS, FiniteSetTheorems, WellFoundedInduction

OnCells(f) == f = [c \in Cells |-> f[c]]

PointOK(k, c) ==
    \/ c \in tracked \cup forgotten
    \/ cache[k][c] = value[c]
    \/ value[c] = Blank /\ HasFormula(c)

(* The points of the caches that exist; a reference that cannot be parsed  *)
(* never gets a cache.                                                     *)
PointsOK ==
    \A k \in Kinds : cache[k] # NoCache =>
      /\ series[k] \in SUBSET Cells
      /\ \A c \in series[k] : PointOK(k, c)

IInv == OnCells(formula) /\ OnCells(value) /\ series \in Series /\ PointsOK

LEMMA PointsAreStalePoints == PointsOK => StalePointsAreTracked
BY DEF PointsOK, PointOK, StalePointsAreTracked

LEMMA SeriesReferences ==
    ASSUME series \in Series, NEW k \in Kinds
    PROVE  series[k] = Unsupported \/ series[k] \in SUBSET Cells
BY SeriesAssumption DEF Kinds, Unsupported

LEMMA InitPoints == Init => IInv
<1> SUFFICES ASSUME Init PROVE IInv
  OBVIOUS
<1>1. OnCells(formula) /\ OnCells(value) /\ series \in Series
  BY FormulasAssumption DEF Init, OnCells
<1>2. ASSUME NEW k \in Kinds, cache[k] # NoCache
      PROVE  /\ series[k] \in SUBSET Cells
             /\ \A c \in series[k] : cache[k][c] = value[c]
  <2>1. cache[k] = IF series[k] = Unsupported THEN NoCache
                   ELSE [c \in series[k] |-> value[c]]
    BY DEF Init
  <2> QED BY <1>1, <1>2, <2>1, SeriesReferences
<1>3. PointsOK
  BY <1>2 DEF PointsOK, PointOK
<1> QED BY <1>1, <1>3 DEF IInv

(* A step that changes only cells it tracks.                               *)
LEMMA TrackedChange ==
    ASSUME IInv, NEW S, tracked' = tracked \cup S,
           OnCells(formula)', OnCells(value)',
           \A c \in Cells \ S : value'[c] = value[c] /\ formula'[c] = formula[c],
           UNCHANGED <<series, cache, forgotten>>
    PROVE  IInv'
<1>1. ASSUME NEW k \in Kinds, cache'[k] # NoCache
      PROVE  /\ series'[k] \in SUBSET Cells
             /\ \A c \in series'[k] : PointOK(k, c)'
  <2>1. series[k] \in SUBSET Cells /\ \A c \in series[k] : PointOK(k, c)
    BY <1>1 DEF IInv, PointsOK
  <2>2. ASSUME NEW c \in series[k]
        PROVE  PointOK(k, c)'
    BY <2>1, <2>2 DEF PointOK, HasFormula
  <2> QED BY <2>1, <2>2
<1> QED BY <1>1 DEF IInv, PointsOK

(* What buildChartCache puts at a place is what the cell stores, unless    *)
(* the cell is a formula without a value.                                  *)
LEMMA BuiltShowsStored ==
    ASSUME NEW range, NEW old, NEW c \in range
    PROVE  \/ Built(range, old)[c] = value[c]
           \/ value[c] = Blank /\ HasFormula(c)
BY DEF Built

LEMMA SynchronizePoints ==
    ASSUME IInv, NEW o \in BOOLEAN, NEW d, NEW u \in BOOLEAN, NEW t \in BOOLEAN,
           Synchronize(o, d, u, t)
    PROVE  IInv'
<1>1. /\ UNCHANGED <<formula, value, series>>
      /\ tracked' = IF t THEN {} ELSE tracked
      /\ forgotten' = IF o THEN forgotten ELSE {}
  BY DEF Synchronize
<1>2. ASSUME NEW k \in Kinds, cache'[k] # NoCache
      PROVE  /\ series[k] \in SUBSET Cells
             /\ \A c \in series[k] : PointOK(k, c)'
  <2>1. cache'[k] = Rebuilt(o, d)[k]
    BY <1>2 DEF Synchronize
  <2>2. CASE Kind(o, d, k) = "direct"
    <3>1. cache'[k] = Built(series[k], cache[k])
      BY <2>1, <2>2 DEF Rebuilt
    <3>2. series[k] \in SUBSET Cells
      BY <2>2, SeriesReferences DEF Kind, IInv
    <3>3. ASSUME NEW c \in series[k]
          PROVE  PointOK(k, c)'
      <4>1. \/ cache'[k][c] = value[c]
            \/ value[c] = Blank /\ HasFormula(c)
        BY <3>1, <3>3, BuiltShowsStored
      <4> QED BY <1>1, <4>1 DEF PointOK, HasFormula
    <3> QED BY <3>2, <3>3
  <2>3. CASE Kind(o, d, k) # "direct"
    <3>1. cache'[k] = cache[k]
      BY <2>1, <2>3 DEF Rebuilt
    <3>2. series[k] \in SUBSET Cells /\ \A c \in series[k] : PointOK(k, c)
      BY <1>2, <3>1 DEF IInv, PointsOK
    <3>3. 0 \notin Cells
      BY CellsAssumption
    <3>4. series[k] # Unsupported
      BY <3>2, <3>3 DEF Unsupported
    <3>5. o /\ series[k] \cap tracked = {}
      BY <2>3, <3>4 DEF Kind, TouchKind, Touched
    <3>6. ASSUME NEW c \in series[k]
          PROVE  PointOK(k, c)'
      BY <1>1, <3>1, <3>2, <3>5, <3>6 DEF PointOK, HasFormula
    <3> QED BY <3>2, <3>6
  <2> QED BY <2>2, <2>3
<1>3. PointsOK'
  BY <1>1, <1>2 DEF PointsOK
<1> QED BY <1>1, <1>3 DEF IInv, OnCells

LEMMA StepPoints ==
    ASSUME IInv, Next
    PROVE  IInv'
<1> USE DEF OnCells
<1>1. ASSUME NEW c \in Cells, NEW v, Write(c, v)
      PROVE  IInv'
  <2>1. /\ OnCells(value)' /\ OnCells(formula)'
        /\ \A b \in Cells \ {c} : value'[b] = value[b] /\ formula'[b] = formula[b]
    BY <1>1 DEF Write, IInv
  <2>2. tracked' = tracked \cup {c} /\ UNCHANGED <<series, cache, forgotten>>
    BY <1>1 DEF Write
  <2> QED BY <2>1, <2>2, TrackedChange
<1>2. ASSUME NEW c \in Cells, NEW refs, SetFormula(c, refs)
      PROVE  IInv'
  <2>1. /\ OnCells(value)' /\ OnCells(formula)'
        /\ \A b \in Cells \ {c} : value'[b] = value[b] /\ formula'[b] = formula[b]
    BY <1>2 DEF SetFormula, IInv
  <2>2. tracked' = tracked \cup {c} /\ UNCHANGED <<series, cache, forgotten>>
    BY <1>2 DEF SetFormula
  <2> QED BY <2>1, <2>2, TrackedChange
<1>3. ASSUME NEW c \in Cells, Fetch(c)
      PROVE  IInv'
  <2>1. tracked' = tracked \cup {c} /\ UNCHANGED <<formula, value, series, cache, forgotten>>
    BY <1>3 DEF Fetch
  <2>2. OnCells(value)' /\ OnCells(formula)'
    BY <2>1 DEF IInv
  <2> QED BY <2>1, <2>2, TrackedChange
<1>4. CASE Calculate
  <2>1. /\ UNCHANGED <<formula, series, cache, forgotten>>
        /\ tracked' = tracked \cup {c \in Cells : HasFormula(c)}
    BY <1>4 DEF Calculate
  <2>2. /\ OnCells(value)'
        /\ \A b \in Cells : ~HasFormula(b) => value'[b] = value[b]
    BY <1>4 DEF Calculate, Calculated
  <2>3. OnCells(formula)'
    BY <2>1 DEF IInv
  <2> HIDE DEF OnCells
  <2> QED BY <2>1, <2>2, <2>3, TrackedChange
<1>5. CASE ClearTracking
  <2>1. /\ UNCHANGED <<formula, value, series, cache>>
        /\ tracked' = {} /\ forgotten' = forgotten \cup tracked
    BY <1>5 DEF ClearTracking
  <2>2. PointsOK'
    BY <2>1 DEF IInv, PointsOK, PointOK, HasFormula
  <2> QED BY <2>1, <2>2 DEF IInv
<1> QED BY <1>1, <1>2, <1>3, <1>4, <1>5, SynchronizePoints DEF Next

(* StalePointsAreTracked: whatever the sheet and the series, and however   *)
(* writes, calculations, synchronisations and saves follow each other, a   *)
(* cached point differs from its cell only while the cell is tracked, was  *)
(* untracked without a synchronisation, or is a formula without a value.   *)
THEOREM ChartCachesFollow == Spec => []StalePointsAreTracked
<1>1. Init => IInv
  BY InitPoints
<1>2. IInv /\ [Next]_vars => IInv'
  <2>1. IInv /\ UNCHANGED vars => IInv'
    BY DEF vars, IInv, OnCells, PointsOK, PointOK, HasFormula
  <2> QED BY <2>1, StepPoints
<1>3. IInv => StalePointsAreTracked
  BY PointsAreStalePoints DEF IInv
<1> QED BY <1>1, <1>2, <1>3, PTL DEF Spec
-----------------------------------------------------------------------------
(* Induction on the natural numbers, from their order being well founded.  *)
LEMMA LeastNatural ==
  ASSUME NEW T \in SUBSET Nat, T # {}
  PROVE  \E n \in T : \A m \in T : n <= m
<1> DEFINE R == OpToRel(<, Nat)
<1>1. IsWellFoundedOn(R, Nat)
  BY NatLessThanWellFounded
<1>2. \A x, y \in Nat : x < y => <<x, y>> \in R
  BY DEF OpToRel
<1> HIDE DEF R
<1>3. PICK x \in T : \A y \in T : ~ (<<y, x>> \in R)
  BY <1>1, WFMin
<1>4. ASSUME NEW m \in T PROVE x <= m
  <2>1. m \in Nat /\ x \in Nat
    OBVIOUS
  <2>2. ~ (m < x)
    BY ONLY <1>2, <1>3, <2>1, m \in T
  <2> QED BY ONLY <2>1, <2>2
<1> QED BY <1>4

LEMMA NatInd ==
  ASSUME NEW S, 0 \in S, \A n \in Nat : n \in S => n + 1 \in S
  PROVE  Nat \subseteq S
<1> DEFINE T == Nat \ S
<1>1. SUFFICES ASSUME T # {} PROVE FALSE
  OBVIOUS
<1>2. PICK n \in T : \A m \in T : n <= m
  BY <1>1, LeastNatural
<1>3. n \in Nat /\ n # 0
  BY <1>2
<1>4. n - 1 \in Nat /\ n - 1 \notin T
  BY <1>2, <1>3
<1>5. n - 1 \in S
  BY <1>4
<1>6. n - 1 + 1 \in S
  BY <1>4, <1>5
<1> QED BY <1>3, <1>6, <1>2

-----------------------------------------------------------------------------
(* The search through the formulas, as a function: every call it makes is  *)
(* lighter than the one that makes it.                                     *)
References == formula \in [Cells -> SUBSET Cells]

Weight(s) == s.left * (Cardinality(Cells) + 1) + Cardinality(s.cells)

LEMMA CellCount ==
    /\ Cardinality(Cells) \in Nat
    /\ \A S \in SUBSET Cells :
         IsFiniteSet(S) /\ Cardinality(S) \in Nat /\ Cardinality(S) <= Cardinality(Cells)
BY CellsAssumption, FS_Subset, FS_CardinalityType

LEMMA MinIsMember ==
    ASSUME NEW S \in SUBSET Cells, S # {}
    PROVE  Min(S) \in S
<1>1. S \in SUBSET Nat
  BY CellsAssumption
<1>2. \E n \in S : \A m \in S : n <= m
  BY <1>1, LeastNatural
<1> QED BY <1>2 DEF Min

LEMMA Deeper ==
    ASSUME References, NEW depth \in Nat, NEW s \in Searches(depth), NEW c \in s.cells,
           s.left # 0, NEW t, t = At(s.left - 1, formula[c], s.seen \cup {c})
    PROVE  /\ t \in Searches(depth)
           /\ Weight(t) \in Nat /\ Weight(s) \in Nat /\ Weight(t) < Weight(s)
           /\ t.left = s.left - 1 /\ t.cells = formula[c] /\ t.seen = s.seen \cup {c}
<1>1. /\ s.left \in 0 .. depth /\ s.cells \in SUBSET Cells /\ s.seen \in SUBSET Cells
      /\ c \in Cells /\ formula[c] \in SUBSET Cells
  BY DEF Searches, References
<1>2. t.left = s.left - 1 /\ t.cells = formula[c] /\ t.seen = s.seen \cup {c}
  BY DEF At
<1>3. t \in Searches(depth)
  BY <1>1 DEF Searches, At
<1>4. /\ Cardinality(Cells) \in Nat /\ Cardinality(formula[c]) \in Nat
      /\ Cardinality(formula[c]) <= Cardinality(Cells)
      /\ Cardinality(s.cells) \in Nat
  BY <1>1, CellCount
<1>5. ASSUME NEW n \in Nat, NEW k \in Nat, NEW a \in Nat, NEW b \in Nat, n # 0, a < k
      PROVE  (n - 1) * k + a \in Nat /\ n * k + b \in Nat /\ (n - 1) * k + a < n * k + b
  <2>1. (n - 1) * k = n * k - k /\ n * k \in Nat /\ n - 1 \in Nat
    BY <1>5
  <2>2. (n - 1) * k \in Nat
    BY <2>1
  <2> QED BY <1>5, <2>1, <2>2
<1>6. /\ Weight(t) = (s.left - 1) * (Cardinality(Cells) + 1) + Cardinality(formula[c])
      /\ Weight(s) = s.left * (Cardinality(Cells) + 1) + Cardinality(s.cells)
  BY <1>2 DEF Weight
<1>7. s.left \in Nat /\ Cardinality(Cells) + 1 \in Nat
      /\ Cardinality(formula[c]) < Cardinality(Cells) + 1
  BY <1>1, <1>4
<1>8. Weight(t) \in Nat /\ Weight(s) \in Nat /\ Weight(t) < Weight(s)
  BY ONLY <1>4, <1>5, <1>6, <1>7, s.left # 0
<1> QED BY <1>2, <1>3, <1>8

LEMMA Further ==
    ASSUME NEW depth \in Nat, NEW s \in Searches(depth), NEW c \in s.cells,
           NEW seen \in SUBSET Cells, NEW t, t = At(s.left, s.cells \ {c}, seen)
    PROVE  /\ t \in Searches(depth)
           /\ Weight(t) \in Nat /\ Weight(s) \in Nat /\ Weight(t) < Weight(s)
           /\ t.left = s.left /\ t.cells = s.cells \ {c} /\ t.seen = seen
<1>1. s.left \in 0 .. depth /\ s.cells \in SUBSET Cells
  BY DEF Searches
<1>2. t.left = s.left /\ t.cells = s.cells \ {c} /\ t.seen = seen
  BY DEF At
<1>3. t \in Searches(depth)
  BY <1>1 DEF Searches, At
<1>4. IsFiniteSet(s.cells) /\ Cardinality(s.cells) \in Nat /\ Cardinality(Cells) \in Nat
  BY <1>1, CellCount
<1>5. Cardinality(s.cells \ {c}) = Cardinality(s.cells) - 1
  BY <1>4, FS_RemoveElement
<1>6. Cardinality(s.cells \ {c}) \in Nat
  BY <1>1, CellCount
<1>7. s.left * (Cardinality(Cells) + 1) \in Nat
  BY <1>1, <1>4
<1>8. /\ Weight(t) = s.left * (Cardinality(Cells) + 1) + Cardinality(s.cells \ {c})
      /\ Weight(s) = s.left * (Cardinality(Cells) + 1) + Cardinality(s.cells)
  BY <1>2 DEF Weight
<1>9. ASSUME NEW n \in Nat, NEW a \in Nat, NEW b \in Nat, a = b - 1
      PROVE  n + a \in Nat /\ n + b \in Nat /\ n + a < n + b
  BY <1>9
<1>10. Weight(t) \in Nat /\ Weight(s) \in Nat /\ Weight(t) < Weight(s)
  BY ONLY <1>4, <1>5, <1>6, <1>7, <1>8, <1>9
<1> QED BY <1>2, <1>3, <1>10

LEMMA WeightBound ==
    ASSUME NEW depth \in Nat, NEW s \in Searches(depth)
    PROVE  /\ Weight(s) \in Nat
           /\ Weight(s) <= depth * (Cardinality(Cells) + 1) + Cardinality(Cells)
<1>1. /\ s.left \in 0 .. depth /\ s.cells \in SUBSET Cells
  BY DEF Searches
<1>2. /\ Cardinality(Cells) \in Nat /\ Cardinality(s.cells) \in Nat
      /\ Cardinality(s.cells) <= Cardinality(Cells)
  BY <1>1, CellCount
<1>3. ASSUME NEW n \in Nat, NEW m \in Nat, NEW k \in Nat, n <= m
      PROVE  n * k \in Nat /\ m * k \in Nat /\ n * k <= m * k
  <2>1. m * k - n * k = (m - n) * k /\ m - n \in Nat
    BY <1>3
  <2>2. (m - n) * k \in Nat /\ n * k \in Nat /\ m * k \in Nat
    BY <2>1
  <2> QED BY <2>1, <2>2
<1>4. /\ s.left * (Cardinality(Cells) + 1) \in Nat
      /\ depth * (Cardinality(Cells) + 1) \in Nat
      /\ s.left * (Cardinality(Cells) + 1) <= depth * (Cardinality(Cells) + 1)
  BY <1>1, <1>2, <1>3
<1> QED BY <1>2, <1>4 DEF Weight

(* What a search finds depends on the lighter ones alone.                  *)
LEMMA FoundDepends ==
    ASSUME References, NEW depth \in Nat, NEW s \in Searches(depth), NEW g, NEW h,
           \A t \in Searches(depth) :
             Weight(t) < Weight(s) => g[t] = h[t] /\ g[t].seen \in SUBSET Cells
    PROVE  Found(g, s) = Found(h, s) /\ Found(g, s).seen \in SUBSET Cells
<1>1. s.cells \in SUBSET Cells /\ s.seen \in SUBSET Cells
  BY DEF Searches
<1>2. CASE s.cells = {}
  BY <1>1, <1>2 DEF Found, Result
<1>3. CASE s.cells # {}
  <2> DEFINE c == Min(s.cells)
             t == At(s.left - 1, formula[c], s.seen \cup {c})
             skip == s.left = 0 \/ ~HasFormula(c) \/ c \in s.seen
             dg == IF skip THEN Result(FALSE, s.seen) ELSE g[t]
             dh == IF skip THEN Result(FALSE, s.seen) ELSE h[t]
             u == At(s.left, s.cells \ {c}, dg.seen)
  <2>1. c \in s.cells
    BY <1>1, <1>3, MinIsMember
  <2>2. dg = dh /\ dg.seen \in SUBSET Cells
    <3>1. CASE skip
      BY <1>1, <3>1 DEF Result
    <3>2. CASE ~skip
      <4>1. t \in Searches(depth) /\ Weight(t) < Weight(s)
        BY <2>1, <3>2, Deeper
      <4> QED BY <3>2, <4>1
    <3> QED BY <3>1, <3>2
  <2>3. u \in Searches(depth) /\ Weight(u) < Weight(s)
    <3> HIDE DEF dg, c
    <3> QED BY <2>1, <2>2, Further
  <2>4. g[u] = h[u] /\ g[u].seen \in SUBSET Cells
    BY <2>3
  <2>5. /\ Found(g, s) = IF c \in tracked THEN Result(TRUE, s.seen)
                         ELSE IF dg.hit THEN dg ELSE g[u]
        /\ Found(h, s) = IF c \in tracked THEN Result(TRUE, s.seen)
                         ELSE IF dh.hit THEN dh
                         ELSE h[At(s.left, s.cells \ {c}, dh.seen)]
    BY <1>3 DEF Found
  <2>6. Result(TRUE, s.seen).seen = s.seen
    BY DEF Result
  <2>7. h[At(s.left, s.cells \ {c}, dh.seen)] = h[u]
    BY <2>2
  <2> HIDE DEF c, t, skip, dg, dh, u
  <2>8. Found(h, s) = Found(g, s)
    BY <2>2, <2>4, <2>5, <2>7
  <2>9. \/ Found(g, s) = Result(TRUE, s.seen) \/ Found(g, s) = dg \/ Found(g, s) = g[u]
    BY <2>5
  <2> QED BY <1>1, <2>2, <2>4, <2>6, <2>8, <2>9
<1> QED BY <1>2, <1>3

(* g is the search, as far as the searches of a given weight.              *)
Solves(g, depth, w) ==
    \A s \in Searches(depth) :
      Weight(s) <= w => g[s] = Found(g, s) /\ g[s].seen \in SUBSET Cells

LEMMA SearchExtends ==
    ASSUME References, NEW depth \in Nat, NEW w \in Nat, NEW g, Solves(g, depth, w)
    PROVE  \E h : Solves(h, depth, w + 1)
<1> DEFINE h == [s \in Searches(depth) |-> IF Weight(s) <= w THEN g[s] ELSE Found(g, s)]
<1>1. ASSUME NEW s \in Searches(depth), Weight(s) <= w + 1
      PROVE  h[s] = Found(h, s) /\ h[s].seen \in SUBSET Cells
  <2>1. \A t \in Searches(depth) : Weight(t) \in Nat
    BY WeightBound
  <2>2. ASSUME NEW t \in Searches(depth), Weight(t) < Weight(s)
        PROVE  g[t] = h[t] /\ g[t].seen \in SUBSET Cells
    <3>1. Weight(t) <= w
      BY <1>1, <2>1, <2>2
    <3> QED BY <3>1 DEF Solves
  <2>3. Found(g, s) = Found(h, s) /\ Found(g, s).seen \in SUBSET Cells
    <3> HIDE DEF h
    <3> QED BY <2>2, FoundDepends
  <2>4. h[s] = Found(g, s)
    <3>1. CASE Weight(s) <= w
      <4>1. h[s] = g[s]
        BY <3>1
      <4>2. g[s] = Found(g, s)
        BY <3>1 DEF Solves
      <4> QED BY <4>1, <4>2
    <3>2. CASE ~(Weight(s) <= w)
      BY <3>2
    <3> QED BY <3>1, <3>2
  <2> HIDE DEF h
  <2> QED BY <2>3, <2>4
<1> HIDE DEF h
<1>2. Solves(h, depth, w + 1)
  BY <1>1 DEF Solves
<1> QED BY <1>2

LEMMA SearchExists ==
    ASSUME References, NEW depth \in Nat
    PROVE  \E g : g = [s \in Searches(depth) |-> Found(g, s)]
<1> DEFINE W == {w \in Nat : \E g : Solves(g, depth, w)}
           bound == depth * (Cardinality(Cells) + 1) + Cardinality(Cells)
<1>1. 0 \in W
  <2> DEFINE g == [s \in Searches(depth) |-> Result(FALSE, s.seen)]
  <2>1. ASSUME NEW s \in Searches(depth), Weight(s) <= 0
        PROVE  g[s] = Found(g, s) /\ g[s].seen \in SUBSET Cells
    <3>1. s.cells \in SUBSET Cells /\ s.seen \in SUBSET Cells /\ s.left \in Nat
      BY DEF Searches
    <3>2. s.cells = {}
      <4>1. /\ IsFiniteSet(s.cells) /\ Cardinality(s.cells) \in Nat
            /\ Cardinality(Cells) \in Nat
        BY <3>1, CellCount
      <4>2. s.left * (Cardinality(Cells) + 1) \in Nat
        BY <3>1, <4>1
      <4>3. Cardinality(s.cells) = 0
        BY <2>1, <4>1, <4>2 DEF Weight
      <4> QED BY <4>1, <4>3, FS_EmptySet
    <3>3. Found(g, s) = Result(FALSE, s.seen)
      BY <3>2 DEF Found
    <3>4. g[s] = Result(FALSE, s.seen)
      OBVIOUS
    <3>5. Result(FALSE, s.seen).seen = s.seen
      BY DEF Result
    <3> HIDE DEF g
    <3> QED BY <3>1, <3>3, <3>4, <3>5
  <2> HIDE DEF g
  <2>2. Solves(g, depth, 0)
    BY <2>1 DEF Solves
  <2> QED BY <2>2
<1>2. \A w \in Nat : w \in W => w + 1 \in W
  BY SearchExtends
<1>3. Cardinality(Cells) \in Nat
  BY CellCount
<1>4. bound \in Nat
  BY <1>3
<1> HIDE DEF bound
<1>5. Nat \subseteq W
  <2> HIDE DEF W
  <2> QED BY <1>1, <1>2, NatInd
<1>6. PICK g : Solves(g, depth, bound)
  BY <1>4, <1>5
<1>7. \A s \in Searches(depth) : g[s] = Found(g, s) /\ g[s].seen \in SUBSET Cells
  BY <1>6, WeightBound DEF Solves, bound
<1> DEFINE h == [s \in Searches(depth) |-> g[s]]
<1>8. ASSUME NEW s \in Searches(depth)
      PROVE  h[s] = Found(h, s)
  <2>1. \A t \in Searches(depth) : g[t] = h[t] /\ g[t].seen \in SUBSET Cells
    BY <1>7
  <2> HIDE DEF h
  <2>2. Found(g, s) = Found(h, s)
    BY <2>1, FoundDepends
  <2> QED BY <1>7, <2>1, <2>2
<1>9. h = [s \in Searches(depth) |-> h[s]]
  OBVIOUS
<1> HIDE DEF h
<1>10. h = [s \in Searches(depth) |-> Found(h, s)]
  BY <1>8, <1>9
<1> QED BY <1>10

LEMMA ReachesTrackedIs ==
    ASSUME References, NEW range, NEW d \in Nat
    PROVE  \E g : /\ ReachesTracked(range, d) = g[At(d + 1, range, {})].hit
                  /\ \A s \in Searches(d + 1) : g[s] = Found(g, s)
<1> DEFINE search == CHOOSE search : search = [s \in Searches(d + 1) |-> Found(search, s)]
<1>1. d + 1 \in Nat
  OBVIOUS
<1>2. PICK f : f = [s \in Searches(d + 1) |-> Found(f, s)]
  BY <1>1, SearchExists
<1>3. search = [s \in Searches(d + 1) |-> Found(search, s)]
  BY <1>2
<1>4. ReachesTracked(range, d) = search[At(d + 1, range, {})].hit
  BY DEF ReachesTracked
<1> HIDE DEF search
<1>5. \A s \in Searches(d + 1) : search[s] = Found(search, s)
  BY <1>3
<1> QED BY <1>4, <1>5

(* The cells whose formulas lead to a tracked cell, level by level.        *)
Direct  == {c \in Cells : Touched(formula[c])}
Onto(C) == {c \in Cells : formula[c] \cap C # {}}

Levels(above) ==
    /\ above[0] = Direct
    /\ \A k \in Nat : k < Cardinality(Cells) =>
         above[k + 1] = Onto(above[k])

LEMMA AboveIs ==
    \E above : /\ Levels(above)
               /\ Above(Cardinality(Cells)) = UNION {above[k] : k \in 0 .. Cardinality(Cells)}
<1> DEFINE K == Cardinality(Cells)
           L(n, g) == g = [k \in 0 .. n |-> IF k = 0 THEN Direct
                                            ELSE Onto(g[k - 1])]
           N == {n \in Nat : \E g : L(n, g)}
           above == CHOOSE above : above = [k \in 0 .. K |->
                      IF k = 0 THEN Direct
                      ELSE Onto(above[k - 1])]
<1>1. 0 \in N
  <2> DEFINE g == [k \in 0 .. 0 |-> Direct]
  <2>1. L(0, g)
    OBVIOUS
  <2> QED BY <2>1
<1>2. ASSUME NEW n \in Nat, n \in N PROVE n + 1 \in N
  <2>1. PICK g : L(n, g)
    BY <1>2
  <2> DEFINE h == [k \in 0 .. n + 1 |-> IF k = n + 1 THEN Onto(g[n])
                                        ELSE g[k]]
  <2>2. ASSUME NEW k \in 0 .. n + 1
        PROVE  h[k] = IF k = 0 THEN Direct
                      ELSE Onto(h[k - 1])
    <3>1. CASE k = n + 1
      <4>1. k # 0 /\ k - 1 = n /\ k - 1 \in 0 .. n + 1 /\ k - 1 # n + 1
        BY <3>1
      <4> QED BY <3>1, <4>1
    <3>2. CASE k # n + 1
      <4>1. k \in 0 .. n /\ k - 1 # n + 1 /\ (k # 0 => k - 1 \in 0 .. n + 1)
        BY <3>2
      <4>2. g[k] = IF k = 0 THEN Direct
                   ELSE Onto(g[k - 1])
        BY <2>1, <4>1
      <4>3. h[k] = g[k] /\ (k # 0 => h[k - 1] = g[k - 1])
        BY <3>2, <4>1
      <4> HIDE DEF h
      <4> QED BY <4>2, <4>3
    <3> QED BY <3>1, <3>2
  <2>3. h = [k \in 0 .. n + 1 |-> h[k]]
    OBVIOUS
  <2> HIDE DEF h
  <2>4. L(n + 1, h)
    BY <2>2, <2>3
  <2> QED BY <2>4
<1>3. K \in Nat
  BY CellCount
<1>4. Nat \subseteq N
  <2> HIDE DEF N
  <2> QED BY <1>1, <1>2, NatInd
<1>5. \E g : L(K, g)
  BY <1>3, <1>4
<1>6. L(K, above)
  BY <1>5
<1>7. Above(K) = UNION {above[k] : k \in 0 .. K}
  BY DEF Above, Direct, Onto
<1>8. \A k \in 0 .. K : above[k] = IF k = 0 THEN Direct ELSE Onto(above[k - 1])
  <2> HIDE DEF above, K
  <2> QED BY <1>6
<1> HIDE DEF above
<1>9. \A k \in Nat : k < K => above[k + 1] = Onto(above[k])
  <2>1. ASSUME NEW k \in Nat, k < K
        PROVE  k + 1 \in 0 .. K /\ k + 1 # 0 /\ k + 1 - 1 = k
    BY <1>3, <2>1
  <2> HIDE DEF K
  <2> QED BY <1>8, <2>1
<1>10. Levels(above)
  BY <1>3, <1>8, <1>9 DEF Levels
<1> QED BY <1>7, <1>10

(* What a search with result r shows.  A visited cell is not visited       *)
(* again: the formulas it is in were or will be searched by the caller.    *)
Grows(s, r) == r.seen \in SUBSET Cells /\ s.seen \subseteq r.seen

Sound(above, s, r) ==
    r.hit => \E c \in s.cells :
      \/ c \in tracked
      \/ \E j \in Nat : j + Cardinality(s.seen) < Cardinality(Cells) /\ c \in above[j]

Done(cells, seen) == \A c \in cells : c \notin tracked /\ (HasFormula(c) => c \in seen)

Thorough(s, r) ==
    ~r.hit /\ Cardinality(Cells) < s.left + Cardinality(s.seen) =>
      Done(s.cells, r.seen) /\ \A v \in r.seen \ s.seen : Done(formula[v], r.seen)

(* What has been seen after the search of one cell c that found nothing.   *)
Passed(s, c, seen) ==
    Cardinality(Cells) < s.left + Cardinality(s.seen) =>
      /\ HasFormula(c) => c \in seen
      /\ \A v \in seen \ s.seen : Done(formula[v], seen)

Right(above, s, r) == Grows(s, r) /\ Sound(above, s, r) /\ Thorough(s, r)

LEMMA SeenCounts ==
    ASSUME NEW S \in SUBSET Cells
    PROVE  /\ Cardinality(S) \in Nat /\ Cardinality(S) <= Cardinality(Cells)
           /\ \A T \in SUBSET Cells : S \subseteq T => Cardinality(S) <= Cardinality(T)
           /\ \A c \in Cells \ S : Cardinality(S \cup {c}) = Cardinality(S) + 1
<1>1. IsFiniteSet(S) /\ Cardinality(S) \in Nat /\ Cardinality(S) <= Cardinality(Cells)
  BY CellCount
<1>2. ASSUME NEW T \in SUBSET Cells, S \subseteq T
      PROVE  Cardinality(S) <= Cardinality(T)
  BY <1>2, CellCount, FS_Subset
<1>3. ASSUME NEW c \in Cells \ S
      PROVE  Cardinality(S \cup {c}) = Cardinality(S) + 1
  BY <1>1, <1>3, FS_AddElement
<1> QED BY <1>1, <1>2, <1>3

(* The cell c of a search, its formula searched first.                     *)
LEMMA DeepRight ==
    ASSUME References, NEW depth \in Nat, NEW s \in Searches(depth), NEW c \in s.cells,
           NEW above, Levels(above), NEW t,
           t = At(s.left - 1, formula[c], s.seen \cup {c}),
           s.left # 0, c \notin s.seen, HasFormula(c), NEW r, Right(above, t, r)
    PROVE  Grows(s, r) /\ Sound(above, s, r) /\ (~r.hit => Passed(s, c, r.seen))
<1>1. t.left = s.left - 1 /\ t.cells = formula[c] /\ t.seen = s.seen \cup {c}
  BY Deeper
<1>2. /\ s.left \in Nat /\ s.seen \in SUBSET Cells /\ c \in Cells
      /\ formula[c] \in SUBSET Cells
  BY DEF Searches, References
<1>3. /\ Cardinality(s.seen) \in Nat /\ Cardinality(Cells) \in Nat
      /\ Cardinality(t.seen) = Cardinality(s.seen) + 1
      /\ Cardinality(t.seen) <= Cardinality(Cells)
  BY <1>1, <1>2, SeenCounts, CellCount
<1>4. Grows(s, r) /\ c \in r.seen
  BY <1>1 DEF Right, Grows
<1>5. ASSUME r.hit
      PROVE  \E j \in Nat : j + Cardinality(s.seen) < Cardinality(Cells) /\ c \in above[j]
  <2>1. PICK q \in formula[c] :
          \/ q \in tracked
          \/ \E j \in Nat : j + Cardinality(t.seen) < Cardinality(Cells) /\ q \in above[j]
    BY <1>1, <1>5 DEF Right, Sound
  <2>2. CASE q \in tracked
    <3>1. c \in above[0]
      BY <1>2, <2>2 DEF Levels, Direct, Touched
    <3>2. 0 + Cardinality(s.seen) < Cardinality(Cells)
      BY <1>3
    <3> QED BY <3>1, <3>2
  <2>3. ASSUME NEW j \in Nat, j + Cardinality(t.seen) < Cardinality(Cells), q \in above[j]
        PROVE  j + 1 + Cardinality(s.seen) < Cardinality(Cells) /\ c \in above[j + 1]
    <3>1. j + 1 + Cardinality(s.seen) < Cardinality(Cells) /\ j < Cardinality(Cells)
      BY <1>3, <2>3
    <3>2. above[j + 1] = Onto(above[j])
      BY <3>1 DEF Levels
    <3> QED BY <1>2, <2>3, <3>1, <3>2 DEF Onto
  <2>4. CASE \E j \in Nat : j + Cardinality(t.seen) < Cardinality(Cells) /\ q \in above[j]
    <3>1. PICK j \in Nat : j + Cardinality(t.seen) < Cardinality(Cells) /\ q \in above[j]
      BY <2>4
    <3>2. j + 1 \in Nat
      OBVIOUS
    <3> QED BY <2>3, <3>1, <3>2
  <2> QED BY <2>1, <2>2, <2>4
<1>6. Sound(above, s, r)
  BY <1>5 DEF Sound
<1>7. ASSUME ~r.hit, Cardinality(Cells) < s.left + Cardinality(s.seen),
             NEW v \in r.seen \ s.seen
      PROVE  Done(formula[v], r.seen)
  <2>1. Cardinality(Cells) < t.left + Cardinality(t.seen)
    BY <1>1, <1>2, <1>3, <1>7
  <2>2. /\ Done(formula[c], r.seen)
        /\ \A w \in r.seen \ (s.seen \cup {c}) : Done(formula[w], r.seen)
    BY <1>1, <1>7, <2>1 DEF Right, Thorough
  <2> QED BY <1>7, <2>2
<1> QED BY <1>4, <1>6, <1>7 DEF Passed

(* The rest of the cells after c, from what the search of c left.          *)
LEMMA RestRight ==
    ASSUME NEW s, s.left \in Nat, s.seen \in SUBSET Cells, NEW c, c \in s.cells,
           NEW d, Grows(s, d), c \notin tracked, Passed(s, c, d.seen), NEW above, NEW r,
           Right(above, At(s.left, s.cells \ {c}, d.seen), r)
    PROVE  Right(above, s, r)
<1> DEFINE seen == d.seen
           u == At(s.left, s.cells \ {c}, d.seen)
<1>0. seen \in SUBSET Cells /\ s.seen \subseteq seen
  BY DEF Grows
<1> HIDE DEF seen
<1>1. u.left = s.left /\ u.cells = s.cells \ {c} /\ u.seen = seen
  BY DEF At, seen
<1>2. s.left \in Nat /\ s.seen \in SUBSET Cells
  OBVIOUS
<1> HIDE DEF u
<1>3. Right(above, u, r)
  BY DEF u
<1>4. /\ Cardinality(s.seen) \in Nat /\ Cardinality(seen) \in Nat
      /\ Cardinality(s.seen) <= Cardinality(seen) /\ Cardinality(Cells) \in Nat
  BY <1>0, <1>2, SeenCounts, CellCount
<1>5. Grows(s, r) /\ seen \subseteq r.seen
  BY <1>0, <1>1, <1>3 DEF Right, Grows
<1>6. ASSUME r.hit
      PROVE  \E e \in s.cells :
               \/ e \in tracked
               \/ \E j \in Nat : j + Cardinality(s.seen) < Cardinality(Cells) /\ e \in above[j]
  <2>1. PICK e \in s.cells \ {c} :
          \/ e \in tracked
          \/ \E j \in Nat : j + Cardinality(seen) < Cardinality(Cells) /\ e \in above[j]
    BY <1>1, <1>6, <1>3 DEF Right, Sound
  <2>2. ASSUME NEW j \in Nat, j + Cardinality(seen) < Cardinality(Cells)
        PROVE  j + Cardinality(s.seen) < Cardinality(Cells)
    BY <1>4, <2>2
  <2> QED BY <2>1, <2>2
<1>7. Sound(above, s, r)
  BY <1>6 DEF Sound
<1>8. ASSUME ~r.hit, Cardinality(Cells) < s.left + Cardinality(s.seen)
      PROVE  Done(s.cells, r.seen) /\ \A v \in r.seen \ s.seen : Done(formula[v], r.seen)
  <2>1. Cardinality(Cells) < u.left + Cardinality(u.seen)
    BY <1>1, <1>2, <1>4, <1>8
  <2>2. /\ Done(s.cells \ {c}, r.seen)
        /\ \A v \in r.seen \ seen : Done(formula[v], r.seen)
    BY <1>1, <1>8, <1>3, <2>1 DEF Right, Thorough
  <2>3. Done(s.cells, r.seen)
    BY <1>5, <1>8, <2>2 DEF Done, Passed, seen
  <2>4. ASSUME NEW v \in seen \ s.seen
        PROVE  Done(formula[v], r.seen)
    <3>1. Done(formula[v], seen)
      BY <1>8 DEF Passed, seen
    <3> QED BY <1>5, <3>1 DEF Done
  <2> QED BY <2>2, <2>3, <2>4
<1>9. Thorough(s, r)
  BY <1>8 DEF Thorough
<1> QED BY <1>5, <1>7, <1>9 DEF Right

LEMMA FoundRight ==
    ASSUME References, NEW depth \in Nat, NEW s \in Searches(depth), NEW above, Levels(above),
           NEW g, \A t \in Searches(depth) : Weight(t) < Weight(s) => Right(above, t, g[t])
    PROVE  Right(above, s, Found(g, s))
<1>1. s.cells \in SUBSET Cells /\ s.seen \in SUBSET Cells /\ s.left \in Nat
  BY DEF Searches
<1> DEFINE c == Min(s.cells)
           t == At(s.left - 1, formula[c], s.seen \cup {c})
           skip == s.left = 0 \/ ~HasFormula(c) \/ c \in s.seen
           deep == IF skip THEN Result(FALSE, s.seen) ELSE g[t]
           u == At(s.left, s.cells \ {c}, deep.seen)
<1>2. /\ \A seen : Result(TRUE, seen).seen = seen /\ Result(TRUE, seen).hit
      /\ \A seen : Result(FALSE, seen).seen = seen /\ ~Result(FALSE, seen).hit
  BY DEF Result
<1>3. CASE s.cells = {}
  <2>1. Found(g, s) = Result(FALSE, s.seen)
    BY <1>3 DEF Found
  <2> DEFINE r == Found(g, s)
  <2>2. r.seen = s.seen /\ ~r.hit
    BY <1>2, <2>1
  <2> HIDE DEF r
  <2>3. Grows(s, r) /\ Sound(above, s, r)
    BY <1>1, <2>2 DEF Grows, Sound
  <2>4. Thorough(s, r)
    BY <1>3, <2>2 DEF Thorough, Done
  <2>5. Right(above, s, r)
    BY <2>3, <2>4 DEF Right
  <2> QED BY <2>5 DEF r
<1>4. CASE s.cells # {} /\ c \in tracked
  <2>1. Found(g, s) = Result(TRUE, s.seen)
    BY <1>4 DEF Found
  <2>2. c \in s.cells
    BY <1>1, <1>4, MinIsMember
  <2> DEFINE r == Found(g, s)
  <2>3. r.seen = s.seen /\ r.hit
    BY <1>2, <2>1
  <2> HIDE DEF c, r
  <2>4. Grows(s, r) /\ Thorough(s, r)
    BY <1>1, <2>3 DEF Grows, Thorough
  <2>5. Sound(above, s, r)
    BY <1>4, <2>2 DEF Sound
  <2>6. Right(above, s, r)
    BY <2>4, <2>5 DEF Right
  <2> QED BY <2>6 DEF r
<1>5. CASE s.cells # {} /\ c \notin tracked
  <2>1. c \in s.cells
    BY <1>1, <1>5, MinIsMember
  <2>2. Found(g, s) = IF deep.hit THEN deep ELSE g[u]
    BY <1>5 DEF Found
  <2>3. /\ Grows(s, deep) /\ Sound(above, s, deep)
        /\ ~deep.hit => Passed(s, c, deep.seen)
    <3>1. CASE skip
      <4>1. deep.seen = s.seen /\ ~deep.hit
        BY <1>2, <3>1
      <4>2. Cardinality(s.seen) \in Nat /\ Cardinality(s.seen) <= Cardinality(Cells)
            /\ Cardinality(Cells) \in Nat
        BY <1>1, CellCount
      <4>3. Cardinality(Cells) < s.left + Cardinality(s.seen) => s.left # 0
        BY <4>2
      <4> HIDE DEF deep, c
      <4> QED BY <1>1, <3>1, <4>1, <4>3 DEF Grows, Sound, Passed
    <3>2. CASE ~skip
      <4>1. deep = g[t] /\ s.left # 0 /\ HasFormula(c) /\ c \notin s.seen
        BY <3>2
      <4> HIDE DEF c, deep
      <4>2. Right(above, t, g[t])
        BY <2>1, <4>1, Deeper
      <4> HIDE DEF t
      <4>3. t = At(s.left - 1, formula[c], s.seen \cup {c})
        BY DEF t
      <4> QED BY <2>1, <4>1, <4>2, <4>3, DeepRight
    <3> QED BY <3>1, <3>2
  <2> HIDE DEF deep, c
  <2>4. CASE deep.hit
    BY <2>2, <2>3, <2>4 DEF Right, Thorough
  <2>5. CASE ~deep.hit
    <3>1. deep.seen \in SUBSET Cells /\ s.seen \subseteq deep.seen
      BY <2>3 DEF Grows
    <3>2. Right(above, u, g[u])
      BY <2>1, <3>1, Further
    <3> HIDE DEF u
    <3>3. u = At(s.left, s.cells \ {c}, deep.seen)
      BY DEF u
    <3>4. Passed(s, c, deep.seen)
      BY <2>3, <2>5
    <3>5. Right(above, s, g[u])
      <4>1. Right(above, At(s.left, s.cells \ {c}, deep.seen), g[u])
        BY <3>2, <3>3
      <4> QED BY <1>1, <1>5, <2>1, <2>3, <3>4, <4>1, RestRight
    <3> QED BY <2>2, <2>5, <3>5
  <2> QED BY <2>4, <2>5
<1> QED BY <1>3, <1>4, <1>5

LEMMA SearchRight ==
    ASSUME References, NEW depth \in Nat, NEW above, Levels(above),
           NEW g, \A s \in Searches(depth) : g[s] = Found(g, s)
    PROVE  \A s \in Searches(depth) : Right(above, s, g[s])
<1> DEFINE W == {Weight(s) : s \in {t \in Searches(depth) : ~Right(above, t, g[t])}}
<1>1. SUFFICES ASSUME NEW s \in Searches(depth), ~Right(above, s, g[s])
               PROVE  FALSE
  OBVIOUS
<1>2. W \in SUBSET Nat /\ W # {}
  BY <1>1, WeightBound
<1>3. PICK w \in W : \A m \in W : w <= m
  BY <1>2, LeastNatural
<1>4. PICK t \in Searches(depth) : ~Right(above, t, g[t]) /\ Weight(t) = w
  BY <1>3
<1>5. ASSUME NEW v \in Searches(depth), Weight(v) < Weight(t)
      PROVE  Right(above, v, g[v])
  <2>1. Weight(v) \in Nat /\ Weight(t) \in Nat
    BY WeightBound
  <2>2. Weight(v) \notin W
    BY <1>3, <1>4, <1>5, <2>1
  <2> QED BY <2>2
<1>6. Right(above, t, Found(g, t))
  BY <1>5, FoundRight
<1> QED BY <1>4, <1>6

LEMMA AboveHasFormula ==
    ASSUME NEW above, Levels(above), NEW k \in Nat, k <= Cardinality(Cells), NEW c \in above[k]
    PROVE  c \in Cells /\ HasFormula(c)
<1>1. CASE k = 0
  BY <1>1 DEF Levels, Direct, Touched, HasFormula
<1>2. CASE k # 0
  <2>1. k - 1 \in Nat /\ k - 1 < Cardinality(Cells) /\ k - 1 + 1 = k
    BY <1>2, CellCount
  <2>2. above[k] = Onto(above[k - 1])
    BY <2>1 DEF Levels
  <2> QED BY <2>2 DEF Onto, HasFormula
<1> QED BY <1>1, <1>2

(* A search that found nothing has seen no cell above a tracked one.       *)
LEMMA SeenIsBelow ==
    ASSUME NEW above, Levels(above), NEW seen, seen \in SUBSET Cells,
           \A v \in seen : Done(formula[v], seen)
    PROVE  \A k \in Nat : k <= Cardinality(Cells) => seen \cap above[k] = {}
<1> DEFINE N == {k \in Nat : k <= Cardinality(Cells) => seen \cap above[k] = {}}
<1>1. 0 \in N
  BY DEF Levels, Direct, Touched, Done
<1>2. ASSUME NEW k \in Nat, k \in N
      PROVE  k + 1 \in N
  <2>1. SUFFICES ASSUME k + 1 <= Cardinality(Cells), NEW v \in seen, v \in above[k + 1]
                 PROVE  FALSE
    OBVIOUS
  <2>2. k < Cardinality(Cells) /\ k <= Cardinality(Cells)
    BY <2>1, CellCount
  <2>3. above[k + 1] = Onto(above[k])
    BY <2>2 DEF Levels
  <2>4. PICK q \in formula[v] : q \in above[k]
    BY <2>1, <2>3 DEF Onto
  <2>5. HasFormula(q)
    BY <2>2, <2>4, AboveHasFormula
  <2>6. q \in seen
    BY <2>1, <2>4, <2>5 DEF Done
  <2> QED BY <1>2, <2>2, <2>4, <2>6
<1>3. Nat \subseteq N
  <2> HIDE DEF N
  <2> QED BY <1>1, <1>2, NatInd
<1> QED BY <1>3

(* With a depth of all cells the search of a range without tracked cells   *)
(* is exact.                                                               *)
LEMMA ReachesExactly ==
    ASSUME References, NEW range \in SUBSET Cells, NEW d \in Nat, Cardinality(Cells) <= d,
           ~Touched(range)
    PROVE  ReachesTracked(range, d) <=> Stale(range)
<1> DEFINE K == Cardinality(Cells)
           s == At(d + 1, range, {})
<1>1. PICK above : Levels(above) /\ Above(K) = UNION {above[k] : k \in 0 .. K}
  BY AboveIs
<1>2. PICK g : /\ ReachesTracked(range, d) = g[s].hit
               /\ \A v \in Searches(d + 1) : g[v] = Found(g, v)
  BY ReachesTrackedIs
<1>3. s \in Searches(d + 1) /\ s.cells = range /\ s.seen = {} /\ s.left = d + 1
  BY DEF At, Searches
<1>4. Right(above, s, g[s])
  <2>1. d + 1 \in Nat
    OBVIOUS
  <2> HIDE DEF s
  <2> QED BY <1>1, <1>2, <1>3, <2>1, SearchRight
<1>5. K \in Nat /\ Cardinality(s.seen) = 0
  BY <1>3, CellCount, FS_EmptySet
<1> HIDE DEF s
<1>6. ASSUME g[s].hit
      PROVE  Stale(range)
  <2>1. PICK c \in range :
          \/ c \in tracked
          \/ \E j \in Nat : j + Cardinality(s.seen) < K /\ c \in above[j]
    BY <1>3, <1>4, <1>6 DEF Right, Sound
  <2>2. c \notin tracked
    BY DEF Touched
  <2>3. PICK j \in Nat : j + Cardinality(s.seen) < K /\ c \in above[j]
    BY <2>1, <2>2
  <2>4. j \in 0 .. K
    BY <1>5, <2>3
  <2> QED BY <1>1, <2>3, <2>4 DEF Stale
<1>7. ASSUME ~g[s].hit
      PROVE  ~Stale(range)
  <2>1. K < s.left + Cardinality(s.seen)
    BY <1>3, <1>5
  <2>2. /\ Done(range, g[s].seen)
        /\ \A v \in g[s].seen : Done(formula[v], g[s].seen)
    BY <1>3, <1>4, <1>7, <2>1 DEF Right, Thorough
  <2>3. g[s].seen \in SUBSET Cells
    BY <1>4 DEF Right, Grows
  <2>4. \A k \in Nat : k <= K => g[s].seen \cap above[k] = {}
    BY <1>1, <2>2, <2>3, SeenIsBelow
  <2>5. ASSUME NEW c \in range, NEW k \in 0 .. K, c \in above[k]
        PROVE  FALSE
    <3>1. k \in Nat /\ k <= K
      BY <1>5
    <3>2. HasFormula(c)
      BY <1>1, <2>5, <3>1, AboveHasFormula
    <3>3. c \in g[s].seen
      BY <2>2, <3>2 DEF Done
    <3> QED BY <2>4, <2>5, <3>1, <3>3
  <2> QED BY <1>1, <2>5 DEF Stale
<1> QED BY <1>2, <1>6, <1>7

-----------------------------------------------------------------------------
LEMMA StepReferences ==
    ASSUME References, Next
    PROVE  References'
<1>1. ASSUME NEW c \in Cells, NEW refs \in Formulas \cup {{}}, SetFormula(c, refs)
      PROVE  References'
  <2>1. refs \in SUBSET Cells /\ formula' = [formula EXCEPT ![c] = refs]
    BY <1>1, FormulasAssumption DEF SetFormula
  <2> QED BY <2>1 DEF References
<1>2. CASE formula' = formula
  BY <1>2 DEF References
<1> QED BY <1>1, <1>2 DEF Next, Write, Fetch, Calculate, ClearTracking, Synchronize

(* A request is made for the formulas of the references it leaves alone.   *)
LEMMA RequestIsExact ==
    ASSUME References, series \in Series,
           NEW d \in MaxDepths, NEW u \in BOOLEAN, NEW t \in BOOLEAN,
           Synchronize(TRUE, d, u, t), d >= Cardinality(Cells)
    PROVE  recalculate' <=> recalculate \/ \E k \in Kinds :
             series[k] # Unsupported /\ ~Touched(series[k]) /\ Stale(series[k])
<1>1. d \in Nat /\ Cardinality(Cells) \in Nat /\ Cardinality(Cells) <= d
  BY DepthsAssumption, CellCount
<1>2. ASSUME NEW k \in Kinds
      PROVE  Kind(TRUE, d, k) = "formula" <=>
               series[k] # Unsupported /\ ~Touched(series[k]) /\ Stale(series[k])
  <2>1. CASE series[k] = Unsupported \/ Touched(series[k])
    BY <2>1 DEF Kind, TouchKind
  <2>2. CASE series[k] # Unsupported /\ ~Touched(series[k])
    <3>1. series[k] \in SUBSET Cells
      BY <2>2, SeriesReferences
    <3>2. ReachesTracked(series[k], d) <=> Stale(series[k])
      BY <1>1, <2>2, <3>1, ReachesExactly
    <3>3. Stale(series[k]) => d > 0
      <4>1. SUFFICES ASSUME Cardinality(Cells) = 0 PROVE ~Stale(series[k])
        BY <1>1
      <4>2. Cells = {}
        BY <4>1, CellsAssumption, FS_EmptySet
      <4> QED BY <3>1, <4>2 DEF Stale
    <3>4. Kind(TRUE, d, k) = "formula" <=> d > 0 /\ ReachesTracked(series[k], d)
      BY <2>2 DEF Kind, TouchKind
    <3> QED BY <2>2, <3>2, <3>3, <3>4
  <2> QED BY <2>1, <2>2
<1>3. recalculate' = (recalculate \/ \E k \in Kinds : Kind(TRUE, d, k) = "formula")
  BY DEF Synchronize
<1> QED BY <1>2, <1>3

(* RequestsExactlyForStale: on every sheet, whatever its formulas and      *)
(* cycles, with every depth limit of at least its cells, an incremental    *)
(* synchronisation asks the host to recalculate if and only if a cache it  *)
(* leaves alone shows a formula that depends on a tracked cell.            *)
THEOREM RequestsAreExact == Spec => RequestsExactlyForStale
<1> DEFINE Inv == References /\ series \in Series
           Exact == \A d \in MaxDepths, u, t \in BOOLEAN :
                      Synchronize(TRUE, d, u, t) /\ d >= Cardinality(Cells)
                      => (recalculate' <=> recalculate \/ \E k \in Kinds :
                            series[k] # Unsupported /\ ~Touched(series[k]) /\ Stale(series[k]))
<1>1. Init => Inv
  BY FormulasAssumption DEF Init, References
<1>2. Inv /\ [Next]_vars => Inv'
  <2>1. CASE UNCHANGED vars
    BY <2>1 DEF vars, References
  <2>2. Next => series' = series
    BY DEF Next, Write, SetFormula, Fetch, Calculate, ClearTracking, Synchronize
  <2> QED BY <2>1, <2>2, StepReferences
<1>3. Inv /\ [Next]_vars => [Exact]_vars
  BY RequestIsExact
<1> HIDE DEF Inv, Exact
<1>4. Spec => [][Exact]_vars
  BY <1>1, <1>2, <1>3, PTL DEF Spec
<1> QED BY <1>4 DEF RequestsExactlyForStale, Exact
=============================================================================
