------------------------- MODULE CalculationProofs -------------------------
(***************************************************************************)
(* The evaluator for every workbook, every depth limit and every number of *)
(* calls.  RecursionBounded holds whatever the formulas and their cycles   *)
(* are.  MemoCorrect and ReportTruthful hold when every reference names    *)
(* its worksheet or there is only one: otherwise a cell is evaluated in    *)
(* the context of whoever asked for it first.                              *)
(***************************************************************************)
EXTENDS Calculation, FiniteSetTheorems, WellFoundedInduction, TLAPS

(* Between two calls nothing is under evaluation, so that a new depth      *)
(* limit meets an empty stack.                                             *)
IInv ==
    /\ options.maxDepth \in Nat \ {0}
    /\ ~running => calling = <<>>
    /\ calling # <<>> => calling[1] \in Addresses
    /\ RecursionBounded

(* Keys and the cells they lead to.                                        *)
LEMMA KeyFacts ==
    /\ \A k \in FormulaKeys : Cell(k) \in FormulaCells
    /\ \A a \in Addresses : a \in Keys /\ Cell(a) = a
    /\ FormulaCells \subseteq FormulaKeys
    /\ \A a, ref : Key(a, ref) \in FormulaKeys <=> Intended(a, ref) \in FormulaCells
<1>1. ASSUME NEW k \in Keys
      PROVE  Cell(k) \in Addresses
  <2>1. PICK n \in DOMAIN Names : k \in {n} \X (1 .. Grid[Names[n]])
    BY DEF Keys
  <2>2. Names[n] \in Sheets
    BY NamesAssumption DEF Sheets
  <2>3. k[1] = n /\ k[2] \in 1 .. Grid[Names[n]]
    BY <2>1
  <2>4. Cell(k) = <<Names[n], k[2]>>
    BY <2>3 DEF Cell
  <2>5. Cell(k) \in {Names[n]} \X (1 .. Grid[Names[n]])
    BY <2>3, <2>4
  <2> QED BY <2>2, <2>5 DEF Addresses
<1>2. ASSUME NEW a \in Addresses
      PROVE  a \in Keys /\ Cell(a) = a
  <2>1. PICK s \in Sheets : a \in {s} \X (1 .. Grid[s])
    BY DEF Addresses
  <2>2. s \in DOMAIN Names /\ Names[s] = s
    BY NamesAssumption DEF Sheets
  <2>3. a = <<s, a[2]>> /\ a[1] = s
    BY <2>1
  <2>4. a \in {s} \X (1 .. Grid[Names[s]])
    BY <2>1, <2>2
  <2> QED BY <2>2, <2>3, <2>4 DEF Keys, Cell
<1>3. ASSUME NEW n, NEW c, Cell(<<n, c>>) \in Addresses
      PROVE  <<n, c>> \in Keys
  <2>1. PICK s \in Sheets : Cell(<<n, c>>) \in {s} \X (1 .. Grid[s])
    BY <1>3 DEF Addresses
  <2>2. Cell(<<n, c>>) = <<IF n \in DOMAIN Names THEN Names[n] ELSE NoSheet, c>>
    BY DEF Cell
  <2>3. c \in 1 .. Grid[s] /\ s = IF n \in DOMAIN Names THEN Names[n] ELSE NoSheet
    BY <2>1, <2>2
  <2>4. s # NoSheet
    BY GridAssumption DEF Sheets, NoSheet
  <2>5. n \in DOMAIN Names /\ s = Names[n]
    BY <2>3, <2>4
  <2>6. <<n, c>> \in {n} \X (1 .. Grid[Names[n]])
    BY <2>3, <2>5
  <2> QED BY <2>5, <2>6 DEF Keys
<1>4. ASSUME NEW a, NEW ref
      PROVE  Key(a, ref) \in FormulaKeys <=> Intended(a, ref) \in FormulaCells
  <2>1. Cell(Key(a, ref)) \in Addresses => Key(a, ref) \in Keys
    BY <1>3 DEF Key
  <2> QED BY <1>1, <2>1 DEF FormulaKeys, FormulaCells, Intended
<1> QED BY <1>1, <1>2, <1>4 DEF FormulaKeys, FormulaCells

LEMMA KeysStay ==
    ASSUME UNCHANGED formula
    PROVE  FormulaCells' = FormulaCells /\ FormulaKeys' = FormulaKeys
BY DEF FormulaCells, FormulaKeys, HasFormula

(* What Append and Front do to the cells under evaluation.                 *)
LEMMA PushCell ==
    ASSUME NEW S, NEW s \in Seq(S), NEW a \in S
    PROVE  /\ Append(s, a) \in Seq(S)
           /\ Len(Append(s, a)) = Len(s) + 1
           /\ \A i \in 1 .. Len(s) : Append(s, a)[i] = s[i]
           /\ Append(s, a)[Len(s) + 1] = a
OBVIOUS

LEMMA PopCell ==
    ASSUME NEW S, NEW s \in Seq(S), Len(s) > 1
    PROVE  /\ Front(s) \in Seq(S)
           /\ Len(Front(s)) = Len(s) - 1
           /\ \A i \in 1 .. Len(s) - 1 : Front(s)[i] = s[i]
           /\ Last(s) = s[Len(s)] /\ Last(s) \in S
BY DEF Front, Last

LEMMA InitBounded == Init => IInv
<1> SUFFICES ASSUME Init PROVE IInv
  OBVIOUS
<1>1. options.maxDepth \in MaxDepths
  BY DepthAssumption DEF Init
<1>2. calling = <<>> /\ memo = <<>>
  BY DEF Init
<1>3. calling \in Seq(FormulaKeys) /\ Len(calling) = 0 /\ DOMAIN memo = {}
  BY <1>2
<1>4. options.maxDepth \in Nat \ {0}
  BY <1>1, DepthAssumption
<1>5. RecursionBounded
  BY <1>3, <1>4 DEF RecursionBounded
<1> QED BY <1>2, <1>4, <1>5 DEF IInv

(* The formulas do not change during a call.                               *)
LEMMA FormulasStay == Next => UNCHANGED formula
BY DEF Next, Step, ReadValue, ReadCircular, ReadMemo, ReadTooDeep, Descend,
       Receive, Return, ReturnTo, VisitCell, Store, Finish, Calculate, model

(* A step that leaves the stack alone may only memoise a key off it.       *)
LEMMA SameStack ==
    ASSUME IInv, UNCHANGED <<formula, calling, options, running>>,
           DOMAIN memo' \subseteq DOMAIN memo \cup (FormulaKeys \ OnStack)
    PROVE  IInv'
<1>1. FormulaKeys' = FormulaKeys
  BY KeysStay
<1>2. OnStack' = OnStack
  BY DEF OnStack
<1> QED BY <1>1, <1>2 DEF IInv, RecursionBounded

LEMMA DescendBounded ==
    ASSUME IInv, NEW a, Descend(a)
    PROVE  IInv'
<1>1. FormulaKeys' = FormulaKeys
  BY KeysStay DEF Descend, model
<1>2. /\ a \in FormulaKeys /\ a \notin OnStack /\ a \notin DOMAIN memo
      /\ ~(Len(calling) >= options.maxDepth)
      /\ calling' = Append(calling, a) /\ calling # <<>>
      /\ memo' = memo /\ options' = options /\ running' = running
  BY DEF Descend, AtLimit, Reading
<1>3. calling \in Seq(FormulaKeys)
  BY DEF IInv, RecursionBounded
<1>4. /\ calling' \in Seq(FormulaKeys)
      /\ Len(calling') = Len(calling) + 1
      /\ \A i \in 1 .. Len(calling) : calling'[i] = calling[i]
      /\ calling'[Len(calling) + 1] = a
  BY <1>2, <1>3, PushCell
<1>5. Len(calling) \in Nat
  BY <1>3
<1>6. Len(calling') <= options.maxDepth
  BY <1>2, <1>4, <1>5 DEF IInv
<1>7. \A i \in 2 .. Len(calling) : calling[i] # a
  BY <1>2 DEF OnStack
<1>8. \A i, j \in 2 .. Len(calling') : calling'[i] = calling'[j] => i = j
  <2> SUFFICES ASSUME NEW i \in 2 .. Len(calling'), NEW j \in 2 .. Len(calling'),
                      calling'[i] = calling'[j]
               PROVE  i = j
    OBVIOUS
  <2>1. \A k \in 2 .. Len(calling') :
           k \in 2 .. Len(calling) \/ k = Len(calling) + 1
    BY <1>4, <1>5
  <2>2. \A k, l \in 2 .. Len(calling) : calling[k] = calling[l] => k = l
    BY DEF IInv, RecursionBounded
  <2>3. \A k \in 2 .. Len(calling) : calling'[k] = calling[k]
    BY <1>4, <1>5
  <2> QED BY <2>1, <2>2, <2>3, <1>4, <1>7
<1>9. OnStack' \subseteq OnStack \cup {a}
  <2> SUFFICES ASSUME NEW i \in 2 .. Len(calling') PROVE calling'[i] \in OnStack \cup {a}
    BY DEF OnStack
  <2>1. i \in 2 .. Len(calling) \/ i = Len(calling) + 1
    BY <1>4, <1>5
  <2>2. CASE i = Len(calling) + 1
    BY <2>2, <1>4
  <2>3. CASE i \in 2 .. Len(calling)
    <3>1. calling'[i] = calling[i]
      BY <2>3, <1>4, <1>5
    <3> QED BY <2>3, <3>1 DEF OnStack
  <2> QED BY <2>1, <2>2, <2>3
<1>10. DOMAIN memo' \subseteq FormulaKeys \ OnStack'
  BY <1>2, <1>9 DEF IInv, RecursionBounded
<1>11. running
  BY <1>2 DEF IInv
<1>12. calling'[1] \in Addresses
  <2>1. 1 \in 1 .. Len(calling)
    BY <1>2, <1>3
  <2> QED BY <1>2, <1>4, <2>1 DEF IInv
<1> QED BY <1>1, <1>2, <1>4, <1>6, <1>8, <1>10, <1>11, <1>12 DEF IInv, RecursionBounded

LEMMA ReturnBounded ==
    ASSUME IInv, Return
    PROVE  IInv'
<1>1. FormulaKeys' = FormulaKeys
  BY KeysStay DEF Return, ReturnTo, model
<1>2. /\ Len(calling) > 1 /\ calling' = Front(calling)
      /\ DOMAIN memo' = DOMAIN memo \cup {Top}
      /\ options' = options /\ running' = running
  BY DEF Return, ReturnTo, Memoised
<1>3. calling \in Seq(FormulaKeys)
  BY DEF IInv, RecursionBounded
<1>4. /\ calling' \in Seq(FormulaKeys)
      /\ Len(calling') = Len(calling) - 1
      /\ \A i \in 1 .. Len(calling) - 1 : calling'[i] = calling[i]
      /\ Top = calling[Len(calling)] /\ Top \in FormulaKeys
  BY <1>2, <1>3, PopCell DEF Top
<1>5. Len(calling) \in Nat
  BY <1>3
<1>6. \A i \in 2 .. Len(calling') : /\ i \in 2 .. Len(calling) /\ i # Len(calling)
                                    /\ calling'[i] = calling[i]
  <2>1. Len(calling') = Len(calling) - 1
    BY <1>4
  <2>2. \A i \in 2 .. Len(calling') : /\ i \in 2 .. Len(calling) /\ i # Len(calling)
                                      /\ i \in 1 .. Len(calling) - 1
    BY ONLY <1>5, <2>1
  <2> QED BY <1>4, <2>2
<1>7. \A i, j \in 2 .. Len(calling) : calling[i] = calling[j] => i = j
  BY DEF IInv, RecursionBounded
<1>8. \A i, j \in 2 .. Len(calling') : calling'[i] = calling'[j] => i = j
  BY <1>6, <1>7
<1>9. OnStack' \subseteq OnStack
  BY <1>6 DEF OnStack
<1>10. Top \notin OnStack'
  <2>1. Len(calling) \in 2 .. Len(calling)
    BY <1>2, <1>5
  <2>2. \A i \in 2 .. Len(calling') : calling'[i] # Top
    BY <1>4, <1>6, <1>7, <2>1
  <2> QED BY <2>2 DEF OnStack
<1>11. DOMAIN memo' \subseteq FormulaKeys \ OnStack'
  BY <1>2, <1>4, <1>9, <1>10 DEF IInv, RecursionBounded
<1>12. Len(calling') <= options.maxDepth
  BY <1>4, <1>5 DEF IInv, RecursionBounded
<1>13. running
  BY <1>2 DEF IInv
<1>14. calling'[1] \in Addresses
  <2>1. 1 \in 1 .. Len(calling) - 1 /\ calling # <<>>
    BY <1>2, <1>5
  <2> QED BY <1>4, <2>1 DEF IInv
<1> QED BY <1>1, <1>2, <1>4, <1>8, <1>11, <1>12, <1>13, <1>14 DEF IInv, RecursionBounded

LEMMA VisitBounded ==
    ASSUME IInv, NEW a \in Addresses, VisitCell(a)
    PROVE  IInv'
<1>1. FormulaKeys' = FormulaKeys
  BY KeysStay DEF VisitCell
<1>2. /\ calling' = <<a>> /\ a \in FormulaKeys /\ running /\ running' = running
      /\ memo' = memo /\ options' = options
  BY KeyFacts DEF VisitCell
<1>3. /\ calling' \in Seq(FormulaKeys) /\ Len(calling') = 1
  BY <1>2
<1>4. OnStack' = {}
  BY <1>3 DEF OnStack
<1>5. DOMAIN memo' \subseteq FormulaKeys \ OnStack'
  BY <1>2, <1>4 DEF IInv, RecursionBounded
<1>6. Len(calling') <= options.maxDepth
  BY <1>3 DEF IInv
<1> QED BY <1>1, <1>2, <1>3, <1>5, <1>6 DEF IInv, RecursionBounded

LEMMA EmptyStackBounded ==
    ASSUME options'.maxDepth \in Nat \ {0}, calling' = <<>>,
           DOMAIN memo' \subseteq FormulaKeys'
    PROVE  IInv'
<1>1. OnStack' = {}
  BY DEF OnStack
<1> QED BY <1>1 DEF IInv, RecursionBounded

LEMMA StepBounded ==
    ASSUME IInv, Next
    PROVE  IInv'
<1>0. FormulaKeys' = FormulaKeys
  BY FormulasStay, KeysStay
<1>1. ASSUME NEW a, ReadValue(a) \/ ReadCircular(a) \/ ReadMemo(a)
      PROVE  IInv'
  BY <1>1, SameStack DEF ReadValue, ReadCircular, ReadMemo, Receive, model
<1>2. ASSUME NEW a, ReadTooDeep(a)
      PROVE  IInv'
  BY <1>2, SameStack DEF ReadTooDeep, Receive, Memoised, model
<1>3. CASE Store
  <2>1. calling' = <<>> /\ memo' = memo /\ options' = options
    BY <1>3 DEF Store
  <2> QED BY <2>1, <1>0, EmptyStackBounded DEF IInv, RecursionBounded
<1>4. CASE Finish
  <2>1. calling' = <<>> /\ memo' = memo /\ options' = options
    BY <1>4 DEF Finish
  <2> QED BY <2>1, <1>0, EmptyStackBounded DEF IInv, RecursionBounded
<1>5. ASSUME NEW update \in BOOLEAN, NEW d \in MaxDepths, Calculate(update, d)
      PROVE  IInv'
  <2>1. calling' = <<>>
    BY <1>5 DEF Calculate, IInv
  <2>2. DOMAIN memo' = {} /\ options'.maxDepth = d
    BY <1>5 DEF Calculate
  <2> QED BY <2>1, <2>2, DepthAssumption, EmptyStackBounded
<1> QED BY <1>1, <1>2, <1>3, <1>4, <1>5, DescendBounded, ReturnBounded, VisitBounded
        DEF Next, Step

(* RecursionBounded: on any workbook the recursion of the evaluator is     *)
(* never deeper than maxDepth, never has a key (a cell under one spelling  *)
(* of its worksheet) twice on the stack and never memoises a key that is   *)
(* still on it (CalculationEngine.cpp, evaluateFormula, resolveReference). *)
THEOREM RecursionIsBounded == Spec => []RecursionBounded
<1>1. Init => IInv
  BY InitBounded
<1>2. IInv /\ [Next]_vars => IInv'
  <2>1. IInv /\ UNCHANGED vars => IInv'
    <3> SUFFICES ASSUME IInv, UNCHANGED vars PROVE IInv'
      OBVIOUS
    <3> QED BY SameStack DEF vars, model
  <2> QED BY <2>1, StepBounded
<1>3. IInv => RecursionBounded
  BY DEF IInv
<1> QED BY <1>1, <1>2, <1>3, PTL DEF Spec

-----------------------------------------------------------------------------
(* Induction on the natural numbers, from their order being well founded.  *)
LEMMA LeastNatural ==
  ASSUME NEW T \in SUBSET Nat, T # {}
  PROVE  \E n \in T : \A m \in T : n <= m
<1> DEFINE R == OpToRel(<, Nat)
<1>1. IsWellFoundedOn(R, Nat)
  BY NatLessThanWellFounded
<1>2. \A x, y \in Nat : x < y => <<x, y>> \in R
  BY DEF OpToRel
<1> HIDE DEF R
<1>3. PICK x \in T : \A y \in T : ~ (<<y, x>> \in R)
  BY <1>1, WFMin
<1>4. ASSUME NEW m \in T PROVE x <= m
  <2>1. m \in Nat /\ x \in Nat
    OBVIOUS
  <2>2. ~ (m < x)
    BY ONLY <1>2, <1>3, <2>1, m \in T
  <2> QED BY ONLY <2>1, <2>2
<1> QED BY <1>4

LEMMA NatInd ==
  ASSUME NEW S, 0 \in S, \A n \in Nat : n \in S => n + 1 \in S
  PROVE  Nat \subseteq S
<1> DEFINE T == Nat \ S
<1>1. SUFFICES ASSUME T # {} PROVE FALSE
  OBVIOUS
<1>2. PICK n \in T : \A m \in T : n <= m
  BY <1>1, LeastNatural
<1>3. n \in Nat /\ n # 0
  BY <1>2
<1>4. n - 1 \in Nat /\ n - 1 \notin T
  BY <1>2, <1>3
<1>5. n - 1 \in S
  BY <1>4
<1>6. n - 1 + 1 \in S
  BY <1>4, <1>5
<1> QED BY <1>3, <1>6, <1>2

-----------------------------------------------------------------------------
\* The two iterations, by name: of the sets Chain and of the values Meaning goes through.
Below(C) == {a \in FormulaCells : Precedents(a) \cap C # {}}
Above(v) == [a \in Addresses |-> IF HasFormula(a) THEN Apply(formula[a], Seen(a, v)) ELSE value[a]]

Start(kind)   == IF kind = "chain" THEN FormulaCells ELSE value
Then(kind, x) == IF kind = "chain" THEN Below(x) ELSE Above(x)

Prefix(kind, n, p) == p[0] = Start(kind) /\ \A k \in Nat : k < n => p[k + 1] = Then(kind, p[k])

LEMMA PrefixExists ==
  ASSUME NEW kind, NEW n \in Nat
  PROVE  \E p : Prefix(kind, n, p)
<1> DEFINE S == {m \in Nat : \E p : Prefix(kind, m, p)}
<1>1. 0 \in S
  <2> DEFINE p == [k \in {0} |-> Start(kind)]
  <2>1. Prefix(kind, 0, p)
    BY DEF Prefix
  <2> QED BY <2>1
<1>2. ASSUME NEW m \in Nat, m \in S PROVE m + 1 \in S
  <2>1. PICK p : Prefix(kind, m, p)
    BY <1>2
  <2> DEFINE q == [k \in 0 .. m + 1 |-> IF k = m + 1 THEN Then(kind, p[m]) ELSE p[k]]
  <2>2. Prefix(kind, m + 1, q)
    <3>1. q[0] = p[0]
      OBVIOUS
    <3>2. ASSUME NEW k \in Nat, k < m + 1 PROVE q[k + 1] = Then(kind, q[k])
      <4>1. q[k] = p[k]
        BY <3>2
      <4>2. CASE k = m
        <5>1. q[k + 1] = Then(kind, p[m])
          BY <4>2
        <5> QED BY <4>1, <4>2, <5>1
      <4>3. CASE k < m
        <5>1. q[k + 1] = p[k + 1]
          BY <4>3
        <5> QED BY <2>1, <4>1, <4>3, <5>1 DEF Prefix
      <4> QED BY <3>2, <4>2, <4>3
    <3> HIDE DEF q
    <3> QED BY <2>1, <3>1, <3>2 DEF Prefix
  <2> HIDE DEF q
  <2> QED BY <2>2
<1>3. Nat \subseteq S
  <2> HIDE DEF S
  <2> QED BY <1>1, <1>2, NatInd
<1> QED BY <1>3

LEMMA PrefixesAgree ==
  ASSUME NEW kind, NEW m \in Nat, NEW n \in Nat, NEW p, NEW q,
         Prefix(kind, m, p), Prefix(kind, n, q)
  PROVE  \A k \in Nat : k <= m /\ k <= n => p[k] = q[k]
<1> DEFINE S == {k \in Nat : k <= m /\ k <= n => p[k] = q[k]}
<1>1. 0 \in S
  BY DEF Prefix
<1>2. ASSUME NEW k \in Nat, k \in S PROVE k + 1 \in S
  <2>1. CASE ~(k + 1 <= m /\ k + 1 <= n)
    BY <2>1
  <2>2. CASE k + 1 <= m /\ k + 1 <= n
    <3>1. p[k] = q[k] /\ k < m /\ k < n
      BY <1>2, <2>2
    <3>2. p[k + 1] = Then(kind, p[k]) /\ q[k + 1] = Then(kind, q[k])
      BY <3>1 DEF Prefix
    <3>3. p[k + 1] = q[k + 1]
      BY <3>1, <3>2
    <3> QED BY <3>3
  <2> QED BY <2>1, <2>2
<1>3. Nat \subseteq S
  <2> HIDE DEF S
  <2> QED BY <1>1, <1>2, NatInd
<1> QED BY <1>3

LEMMA Iterated ==
  ASSUME NEW kind
  PROVE  \E g : /\ g = [k \in Nat |-> IF k = 0 THEN Start(kind) ELSE Then(kind, g[k - 1])]
<1> DEFINE P(n) == CHOOSE p : Prefix(kind, n, p)
           g == [n \in Nat |-> P(n)[n]]
<1>1. ASSUME NEW n \in Nat PROVE Prefix(kind, n, P(n))
  BY PrefixExists
<1> HIDE DEF P
<1>2. ASSUME NEW n \in Nat
      PROVE  g[n] = IF n = 0 THEN Start(kind) ELSE Then(kind, g[n - 1])
  <2>1. CASE n = 0
    BY <1>1, <2>1 DEF Prefix
  <2>2. CASE n # 0
    <3>1. n - 1 \in Nat /\ n - 1 < n /\ n - 1 + 1 = n
      BY <2>2
    <3>2. P(n)[n] = Then(kind, P(n)[n - 1])
      <4>1. \A k \in Nat : k < n => P(n)[k + 1] = Then(kind, P(n)[k])
        BY <1>1 DEF Prefix
      <4>2. P(n)[n - 1 + 1] = Then(kind, P(n)[n - 1])
        BY <3>1, <4>1
      <4> QED BY <3>1, <4>2
    <3>3. P(n)[n - 1] = P(n - 1)[n - 1]
      BY <1>1, <3>1, PrefixesAgree
    <3>4. g[n] = P(n)[n] /\ g[n - 1] = P(n - 1)[n - 1]
      BY <3>1
    <3> QED BY <2>2, <3>2, <3>3, <3>4
  <2> QED BY <2>1, <2>2
<1>3. g = [k \in Nat |-> g[k]]
  OBVIOUS
<1> HIDE DEF g
<1>4. g = [k \in Nat |-> IF k = 0 THEN Start(kind) ELSE Then(kind, g[k - 1])]
  BY <1>2, <1>3
<1> QED BY <1>4

LEMMA ChainIs ==
  /\ Chain(0) = FormulaCells
  /\ \A n \in Nat : Chain(n + 1) = Below(Chain(n))
<1> DEFINE chain == CHOOSE chain : chain = [k \in Nat |-> IF k = 0 THEN FormulaCells ELSE {a \in FormulaCells : Precedents(a) \cap chain[k - 1] # {}}]
<1>1. \E g : g = [k \in Nat |-> IF k = 0 THEN FormulaCells ELSE {a \in FormulaCells : Precedents(a) \cap g[k - 1] # {}}]
  <2>1. PICK g : g = [k \in Nat |-> IF k = 0 THEN Start("chain") ELSE Then("chain", g[k - 1])]
    BY Iterated
  <2>2. g = [k \in Nat |-> IF k = 0 THEN FormulaCells ELSE {a \in FormulaCells : Precedents(a) \cap g[k - 1] # {}}]
    BY <2>1 DEF Start, Then, Below
  <2> QED BY <2>2
<1>2. chain = [k \in Nat |-> IF k = 0 THEN FormulaCells ELSE {a \in FormulaCells : Precedents(a) \cap chain[k - 1] # {}}]
  BY <1>1
<1>3. \A n : Chain(n) = chain[n]
  BY DEF Chain
<1> HIDE DEF chain
<1>4. \A n \in Nat : chain[n] = IF n = 0 THEN FormulaCells ELSE Below(chain[n - 1])
  BY <1>2 DEF Below
<1>5. \A n \in Nat : n + 1 \in Nat /\ n + 1 # 0 /\ n + 1 - 1 = n
  OBVIOUS
<1> QED BY <1>3, <1>4, <1>5

Level(n) ==
    LET level[k \in Nat] ==
          IF k = 0 THEN value
          ELSE [a \in Addresses |-> IF HasFormula(a)
                                    THEN Apply(formula[a], Seen(a, level[k - 1]))
                                    ELSE value[a]]
    IN  level[n]

LEMMA LevelIs ==
  /\ Level(0) = value
  /\ \A n \in Nat : Level(n + 1) = Above(Level(n))
  /\ Meaning = Level(Cardinality(FormulaCells))
<1> DEFINE level == CHOOSE level : level = [k \in Nat |-> IF k = 0 THEN value ELSE [a \in Addresses |-> IF HasFormula(a) THEN Apply(formula[a], Seen(a, level[k - 1])) ELSE value[a]]]
<1>1. \E g : g = [k \in Nat |-> IF k = 0 THEN value ELSE [a \in Addresses |-> IF HasFormula(a) THEN Apply(formula[a], Seen(a, g[k - 1])) ELSE value[a]]]
  <2>1. PICK g : g = [k \in Nat |-> IF k = 0 THEN Start("level") ELSE Then("level", g[k - 1])]
    BY Iterated
  <2>2. g = [k \in Nat |-> IF k = 0 THEN value ELSE [a \in Addresses |-> IF HasFormula(a) THEN Apply(formula[a], Seen(a, g[k - 1])) ELSE value[a]]]
    BY <2>1 DEF Start, Then, Above
  <2> QED BY <2>2
<1>2. level = [k \in Nat |-> IF k = 0 THEN value ELSE [a \in Addresses |-> IF HasFormula(a) THEN Apply(formula[a], Seen(a, level[k - 1])) ELSE value[a]]]
  BY <1>1
<1>3. \A n : Level(n) = level[n]
  BY DEF Level
<1>6. Meaning = level[Cardinality(FormulaCells)]
  BY DEF Meaning
<1> HIDE DEF level
<1>4. \A n \in Nat : level[n] = IF n = 0 THEN value ELSE Above(level[n - 1])
  BY <1>2 DEF Above
<1>5. \A n \in Nat : n + 1 \in Nat /\ n + 1 # 0 /\ n + 1 - 1 = n
  OBVIOUS
<1> QED BY <1>3, <1>4, <1>5, <1>6

-----------------------------------------------------------------------------
(* Chains of formulas, and what acyclic formulas mean.                     *)
LEMMA FiniteCells == IsFiniteSet(FormulaCells) /\ Cardinality(FormulaCells) \in Nat
<1> DEFINE row == [s \in Sheets |-> {s} \X (1 .. Grid[s])]
           rows == {{s} \X (1 .. Grid[s]) : s \in Sheets}
<1>1. Len(Grid) \in Nat /\ \A s \in Sheets : Grid[s] \in Nat
  BY GridAssumption DEF Sheets
<1>2. IsFiniteSet(Sheets)
  BY <1>1, FS_Interval DEF Sheets
<1>3. row \in Surjection(Sheets, rows)
  BY DEF Surjection
<1>4. IsFiniteSet(rows)
  <2> HIDE DEF row, rows
  <2> QED BY <1>2, <1>3, FS_Surjection
<1>5. ASSUME NEW s \in Sheets PROVE IsFiniteSet({s} \X (1 .. Grid[s]))
  <2>1. IsFiniteSet(1 .. Grid[s])
    BY <1>1, FS_Interval, SMTT(30)
  <2> QED BY <2>1, FS_Singleton, FS_Product
<1>6. \A r \in rows : IsFiniteSet(r)
  BY <1>5
<1>7. Addresses = UNION rows
  BY DEF Addresses
<1> HIDE DEF rows
<1>8. IsFiniteSet(Addresses)
  BY <1>4, <1>6, <1>7, FS_UNION
<1>9. FormulaCells \in SUBSET Addresses
  BY DEF FormulaCells
<1>10. IsFiniteSet(FormulaCells)
  BY <1>8, <1>9, FS_Subset
<1> QED BY <1>10, FS_CardinalityType

LEMMA FiniteKeys == IsFiniteSet(FormulaKeys) /\ Cardinality(FormulaKeys) \in Nat
<1> DEFINE row == [n \in DOMAIN Names |-> {n} \X (1 .. Grid[Names[n]])]
           rows == {{n} \X (1 .. Grid[Names[n]]) : n \in DOMAIN Names}
<1>1. IsFiniteSet(DOMAIN Names) /\ \A n \in DOMAIN Names : Grid[Names[n]] \in Nat
  BY GridAssumption, NamesAssumption
<1>2. row \in Surjection(DOMAIN Names, rows)
  BY DEF Surjection
<1>3. IsFiniteSet(rows)
  <2> HIDE DEF row, rows
  <2> QED BY <1>1, <1>2, FS_Surjection
<1>4. ASSUME NEW n \in DOMAIN Names PROVE IsFiniteSet({n} \X (1 .. Grid[Names[n]]))
  <2>1. IsFiniteSet(1 .. Grid[Names[n]])
    BY <1>1, FS_Interval, SMTT(30)
  <2> QED BY <2>1, FS_Singleton, FS_Product
<1>5. \A x \in rows : IsFiniteSet(x)
  BY <1>4
<1>6. Keys = UNION rows
  BY DEF Keys
<1> HIDE DEF rows
<1>7. IsFiniteSet(Keys)
  BY <1>3, <1>5, <1>6, FS_UNION
<1>8. FormulaKeys \in SUBSET Keys
  BY DEF FormulaKeys
<1>9. IsFiniteSet(FormulaKeys)
  BY <1>7, <1>8, FS_Subset
<1> QED BY <1>9, FS_CardinalityType

LEMMA ChainShrinks ==
  ASSUME NEW n \in Nat
  PROVE  Chain(n + 1) \subseteq Chain(n) /\ Chain(n) \subseteq FormulaCells
<1> DEFINE S == {k \in Nat : Chain(k + 1) \subseteq Chain(k) /\ Chain(k) \subseteq FormulaCells}
<1>1. 0 \in S
  <2>1. Chain(0 + 1) = Below(Chain(0))
    BY ChainIs
  <2>2. Chain(0) = FormulaCells
    BY ChainIs
  <2> QED BY <2>1, <2>2 DEF Below
<1>2. ASSUME NEW k \in Nat, k \in S PROVE k + 1 \in S
  <2>1. Chain(k + 1 + 1) = Below(Chain(k + 1)) /\ Chain(k + 1) = Below(Chain(k))
    BY ChainIs
  <2>2. Chain(k + 1) \subseteq Chain(k)
    BY <1>2
  <2> QED BY <2>1, <2>2 DEF Below
<1> HIDE DEF S
<1>3. Nat \subseteq S
  BY <1>1, <1>2, NatInd
<1> QED BY <1>3 DEF S

\* A chain longer than there are formula cells can be continued for ever.
LEMMA CyclicIsFixed ==
  /\ Cyclic = Below(Cyclic)
  /\ Cyclic \subseteq FormulaCells
<1> DEFINE N == Cardinality(FormulaCells)
           S == {k \in Nat : \/ Chain(k + 1) = Chain(k)
                             \/ Cardinality(Chain(k)) + k <= N}
<1>0. N \in Nat
  BY FiniteCells
<1>c. ASSUME NEW k \in Nat
      PROVE  IsFiniteSet(Chain(k)) /\ Cardinality(Chain(k)) \in Nat
  <2>1. Chain(k) \in SUBSET FormulaCells
    BY ChainShrinks
  <2>2. IsFiniteSet(Chain(k))
    BY <2>1, FiniteCells, FS_Subset
  <2> QED BY <2>2, FS_CardinalityType
<1>1. 0 \in S
  BY <1>0, ChainIs
<1>2. ASSUME NEW k \in Nat, k \in S PROVE k + 1 \in S
  <2>1. Chain(k + 1 + 1) = Below(Chain(k + 1)) /\ Chain(k + 1) = Below(Chain(k))
    BY ChainIs
  <2>2. CASE Chain(k + 1) = Chain(k)
    BY <2>1, <2>2
  <2>3. CASE Chain(k + 1) # Chain(k)
    <3>1. Cardinality(Chain(k)) + k <= N
      BY <1>2, <2>3
    <3>2. Chain(k + 1) \in SUBSET Chain(k)
      BY ChainShrinks
    <3>3. /\ Cardinality(Chain(k + 1)) <= Cardinality(Chain(k))
          /\ Cardinality(Chain(k + 1)) # Cardinality(Chain(k))
      BY <1>c, <2>3, <3>2, FS_Subset
    <3>4. Cardinality(Chain(k + 1)) \in Nat /\ Cardinality(Chain(k)) \in Nat
      BY <1>c
    <3> HIDE DEF N
    <3>5. Cardinality(Chain(k + 1)) + (k + 1) <= N
      BY <1>0, <3>1, <3>3, <3>4
    <3> QED BY <3>5
  <2> QED BY <2>2, <2>3
<1>3. N \in S
  <2>1. Nat \subseteq S
    <3> HIDE DEF S
    <3> QED BY <1>1, <1>2, NatInd
  <2> HIDE DEF S
  <2> QED BY <1>0, <2>1
<1>4. Chain(N + 1) = Chain(N)
  <2>1. CASE Cardinality(Chain(N)) + N <= N
    <3>1. Cardinality(Chain(N)) \in Nat
      BY <1>0, <1>c
    <3>2. Cardinality(Chain(N)) = 0
      <4> HIDE DEF N
      <4> QED BY <1>0, <2>1, <3>1
    <3>3. Chain(N) = {}
      BY <1>0, <1>c, <3>2, FS_EmptySet
    <3> QED BY <1>0, <3>3, ChainShrinks
  <2> QED BY <1>3, <2>1
<1>5. Chain(N + 1) = Below(Chain(N)) /\ Chain(N) \subseteq FormulaCells
  BY <1>0, ChainIs, ChainShrinks
<1> QED BY <1>4, <1>5 DEF Cyclic

\* Cells each of which is above another of them are on a chain of any length.
LEMMA LoopStays ==
  ASSUME NEW C \in SUBSET FormulaCells,
         \A c \in C : Precedents(c) \cap C # {},
         NEW n \in Nat
  PROVE  C \subseteq Chain(n)
<1> DEFINE S == {k \in Nat : C \subseteq Chain(k)}
<1>1. 0 \in S
  BY ChainIs
<1>2. ASSUME NEW k \in Nat, k \in S PROVE k + 1 \in S
  <2>1. Chain(k + 1) = Below(Chain(k))
    BY ChainIs
  <2>2. C \subseteq Chain(k)
    BY <1>2
  <2> QED BY <2>1, <2>2 DEF Below
<1> HIDE DEF S
<1>3. Nat \subseteq S
  BY <1>1, <1>2, NatInd
<1> QED BY <1>3 DEF S

LEMMA LoopIsCyclic ==
  ASSUME NEW C \in SUBSET FormulaCells,
         \A c \in C : Precedents(c) \cap C # {}
  PROVE  C \subseteq Cyclic
BY LoopStays, FiniteCells DEF Cyclic

\* Values that agree under an acyclic formula, from the cells without formulas upwards.
Climbs(g, v) ==
  /\ g[0] = v
  /\ \A n \in Nat : g[n + 1] = [a \in Addresses |-> IF HasFormula(a) THEN Apply(formula[a], Seen(a, g[n])) ELSE v[a]]

LEMMA SeenAlike ==
  ASSUME NEW a \in Addresses, NEW u, NEW w,
         \A i \in DOMAIN formula[a].refs :
            LET b == Intended(a, formula[a].refs[i]) IN b \in Addresses => u[b] = w[b]
  PROVE  Seen(a, u) = Seen(a, w)
BY DEF Seen, ValueAt

LEMMA SeenAgree ==
  ASSUME NEW a \in Addresses, NEW C, NEW u, NEW w, C \subseteq FormulaCells,
         Precedents(a) \cap C = {},
         \A b \in Addresses \ C : u[b] = w[b]
  PROVE  Seen(a, u) = Seen(a, w)
<1>1. ASSUME NEW i \in DOMAIN formula[a].refs, Intended(a, formula[a].refs[i]) \in Addresses
      PROVE  u[Intended(a, formula[a].refs[i])] = w[Intended(a, formula[a].refs[i])]
  <2> DEFINE b == Intended(a, formula[a].refs[i])
  <2>1. b \in FormulaCells => b \in Precedents(a)
    BY DEF Precedents
  <2>2. b \notin C
    BY <2>1
  <2> QED BY <1>1, <2>2
<1> QED BY <1>1, SeenAlike

LEMMA LevelsAgree ==
  ASSUME NEW g, NEW h, NEW v, NEW w, Climbs(g, v), Climbs(h, w),
         \A a \in Addresses \ FormulaCells : v[a] = w[a],
         NEW k \in Nat
  PROVE  \A m, n \in Nat : m >= k /\ n >= k =>
            \A a \in Addresses \ Chain(k) : g[m][a] = h[n][a]
<1> DEFINE Agree(j) == \A m, n \in Nat : m >= j /\ n >= j => \A a \in Addresses \ Chain(j) : g[m][a] = h[n][a]
           S == {j \in Nat : Agree(j)}
<1>0. ASSUME NEW m \in Nat, NEW a \in Addresses \ FormulaCells
      PROVE  g[m][a] = v[a] /\ h[m][a] = w[a]
  <2>1. ~HasFormula(a)
    BY DEF FormulaCells
  <2>2. CASE m = 0
    BY <2>2 DEF Climbs
  <2>3. CASE m # 0
    <3>1. m - 1 \in Nat /\ m - 1 + 1 = m
      BY <2>3
    <3>2. /\ g[m] = [b \in Addresses |-> IF HasFormula(b) THEN Apply(formula[b], Seen(b, g[m - 1])) ELSE v[b]]
          /\ h[m] = [b \in Addresses |-> IF HasFormula(b) THEN Apply(formula[b], Seen(b, h[m - 1])) ELSE w[b]]
      BY <3>1 DEF Climbs
    <3> QED BY <2>1, <3>2
  <2> QED BY <2>2, <2>3
<1>1. 0 \in S
  BY <1>0, ChainIs
<1>2. ASSUME NEW j \in Nat, j \in S PROVE j + 1 \in S
  <2>1. SUFFICES ASSUME NEW m \in Nat, NEW n \in Nat, m >= j + 1, n >= j + 1,
                        NEW a \in Addresses \ Chain(j + 1)
                 PROVE  g[m][a] = h[n][a]
    OBVIOUS
  <2>2. CASE a \notin FormulaCells
    BY <1>0, <2>2
  <2>3. CASE a \in FormulaCells
    <3>1. /\ m - 1 \in Nat /\ m - 1 + 1 = m /\ m - 1 >= j
          /\ n - 1 \in Nat /\ n - 1 + 1 = n /\ n - 1 >= j
      BY <2>1
    <3>2. /\ g[m] = [b \in Addresses |-> IF HasFormula(b) THEN Apply(formula[b], Seen(b, g[m - 1])) ELSE v[b]]
          /\ h[n] = [b \in Addresses |-> IF HasFormula(b) THEN Apply(formula[b], Seen(b, h[n - 1])) ELSE w[b]]
      BY <3>1 DEF Climbs
    <3>3. HasFormula(a)
      BY <2>3 DEF FormulaCells
    <3>4. g[m][a] = Apply(formula[a], Seen(a, g[m - 1])) /\ h[n][a] = Apply(formula[a], Seen(a, h[n - 1]))
      BY <3>2, <3>3
    <3>5. Precedents(a) \cap Chain(j) = {}
      <4>1. Chain(j + 1) = Below(Chain(j))
        BY ChainIs
      <4> QED BY <2>3, <4>1 DEF Below
    <3>6. \A b \in Addresses \ Chain(j) : g[m - 1][b] = h[n - 1][b]
      BY <1>2, <3>1
    <3>7. Chain(j) \subseteq FormulaCells
      BY ChainShrinks
    <3>8. Seen(a, g[m - 1]) = Seen(a, h[n - 1])
      BY <3>5, <3>6, <3>7, SeenAgree
    <3> QED BY <3>4, <3>8
  <2> QED BY <2>2, <2>3
<1>3. Nat \subseteq S
  <2> HIDE DEF S
  <2> QED BY <1>1, <1>2, NatInd
<1> QED BY <1>3

LEMMA LevelClimbs == Climbs([n \in Nat |-> Level(n)], value)
<1>1. \A n \in Nat : n + 1 \in Nat
  OBVIOUS
<1> QED BY <1>1, LevelIs DEF Climbs, Above

\* Meaning solves the equations of the acyclic formulas.
LEMMA MeaningSolves ==
  /\ \A a \in Addresses \ FormulaCells : Meaning[a] = value[a]
  /\ \A a \in FormulaCells \ Cyclic : Meaning[a] = Apply(formula[a], Seen(a, Meaning))
<1> DEFINE N == Cardinality(FormulaCells)
           g == [n \in Nat |-> Level(n)]
<1>1. N \in Nat /\ N + 1 \in Nat /\ N >= 0 /\ N + 1 >= N /\ N >= N
  BY FiniteCells
<1>2. Climbs(g, value)
  BY LevelClimbs
<1>3. Meaning = g[N] /\ Cyclic = Chain(N)
  BY <1>1, LevelIs DEF Cyclic
<1> HIDE DEF g, N
<1>4. ASSUME NEW a \in Addresses \ FormulaCells PROVE Meaning[a] = value[a]
  <2>1. Chain(0) = FormulaCells /\ g[0] = value
    BY <1>2, ChainIs DEF Climbs
  <2>2. g[N][a] = g[0][a]
    BY <1>1, <1>2, <2>1, LevelsAgree
  <2> QED BY <1>3, <2>1, <2>2
<1>5. ASSUME NEW a \in FormulaCells \ Cyclic PROVE Meaning[a] = Apply(formula[a], Seen(a, Meaning))
  <2>0. a \in Addresses /\ HasFormula(a)
    BY DEF FormulaCells
  <2>1. g[N][a] = g[N + 1][a]
    BY <1>1, <1>2, <1>3, <2>0, LevelsAgree
  <2>2. g[N + 1] = [b \in Addresses |-> IF HasFormula(b) THEN Apply(formula[b], Seen(b, g[N])) ELSE value[b]]
    BY <1>1, <1>2 DEF Climbs
  <2>3. g[N + 1][a] = Apply(formula[a], Seen(a, g[N]))
    BY <2>0, <2>2
  <2> QED BY <1>3, <2>1, <2>3
<1> QED BY <1>4, <1>5

-----------------------------------------------------------------------------
(* The inductive invariant.                                                *)

\* Every formula is evaluated in its own context.
Qualified ==
    \/ Len(Grid) = 1
    \/ \A f \in Formulas : \A i \in DOMAIN f.refs : f.refs[i].sheet # Here

\* Of values of any kind.
IsSequence(s) == \E S : s \in Seq(S)

\* The cell of the i-th activation.
At(i) == Cell(calling[i])

\* It has an operand left to read.
Asks(i) ==
    /\ Len(operands[i]) < Len(formula[At(i)].refs)
    /\ formula[At(i)].shape = "plus" => \A j \in DOMAIN operands[i] : ~IsError(operands[i][j])

\* It has read no more than it has references, and nothing after an error that ends it.
Frame(i) ==
    /\ Len(operands[i]) <= Len(formula[At(i)].refs)
    /\ formula[At(i)].shape = "plus" =>
         \A j \in 1 .. Len(operands[i]) - 1 : ~IsError(operands[i][j])

\* It waits for the next one.
Path(i) ==
    /\ Asks(i)
    /\ calling[i + 1] = Key(At(i), formula[At(i)].refs[Len(operands[i]) + 1])

Shape ==
    /\ formula \in [Addresses -> Formulas \cup {NoFormula}]
    /\ DOMAIN value = Addresses
    /\ Len(operands) = Len(calling)

Stack ==
    /\ Shape
    /\ \A i \in 1 .. Len(calling) : Frame(i)
    /\ \A i \in 1 .. Len(calling) - 1 : Path(i)

Sequences == IsSequence(operands) /\ \A i \in 1 .. Len(operands) : IsSequence(operands[i])

\* What an acyclic formula has read, and what is memoised of it, is what it means.
MemoRight == \A k \in DOMAIN memo : Cell(k) \notin Cyclic => memo[k] = Meaning[Cell(k)]

OperandsRight ==
    \A c \in FormulaCells \ Cyclic : \A i \in 1 .. Len(calling) :
      c = At(i) => \A j \in 1 .. Len(operands[i]) : operands[i][j] = Seen(c, Meaning)[j]

MemoInv == DeepEnough => MemoRight /\ OperandsRight

\* What a reference with the key k gives once the cell has been evaluated under it.
Found(k) == IF Cell(k) \in FormulaCells THEN memo[k] ELSE ValueAt(Cell(k), value)

FoundAll(a) == [i \in DOMAIN formula[a].refs |-> Found(Key(a, formula[a].refs[i]))]

Known(k) == Cell(k) \in FormulaCells => k \in DOMAIN memo

\* A memoised key was cut off by the depth limit, or stopped at an error, or has read
\* everything; Plain are those that are certainly of the last kind.
Cut(k) == ~DeepEnough /\ IsError(memo[k])
References(a) == {Key(a, formula[a].refs[i]) : i \in DOMAIN formula[a].refs}
Reached(a)    == {k \in References(a) : Cell(k) \in FormulaCells}

Stuck(a) == formula[a].shape = "plus" /\ \E k \in References(a) : Known(k) /\ IsError(Found(k))

Full(k) == Reached(Cell(k)) \subseteq DOMAIN memo /\ memo[k] = Apply(formula[Cell(k)], FoundAll(Cell(k)))
Plain == {k \in DOMAIN memo : ~Cut(k) /\ ~Stuck(Cell(k))}

\* A visited cell, if nothing was reported: its value is its formula over the memo.
Settled(a) == /\ Reached(a) \subseteq DOMAIN memo
              /\ ~IsError(Apply(formula[a], FoundAll(a)))
              /\ options.update => value[a] = Apply(formula[a], FoundAll(a))

\* Without a circular reference every operand came from the memo or a cell without formula.
OperandsKnown ==
    \A i \in 1 .. Len(calling) : \A j \in 1 .. Len(operands[i]) :
      \A k \in {Key(At(i), formula[At(i)].refs[j])} :
        Known(k) /\ operands[i][j] = Found(k)

PlainFull == \A k \in Plain : Full(k)

\* No key that read everything is on a cycle: the memo is filled from below.
Grounded == \A C \in SUBSET Plain : C # {} => \E k \in C : Reached(Cell(k)) \cap C = {}

VisitedSettled == ~report.errors => \A a \in visited : Settled(a)

Sound == OperandsKnown /\ PlainFull /\ Grounded /\ VisitedSettled

ReportInv ==
    /\ report \in [circular : BOOLEAN, errors : BOOLEAN]
    /\ report.circular => Cyclic # {}
    /\ ~report.circular => Sound
    /\ visited \subseteq FormulaCells
    /\ runs > 0 /\ ~running => FormulaCells \subseteq visited

-----------------------------------------------------------------------------
(* Sequences, and values of formulas.                                      *)
LEMMA AppendTo ==
  ASSUME NEW s, IsSequence(s), NEW v
  PROVE  /\ IsSequence(Append(s, v)) /\ Len(s) \in Nat /\ DOMAIN s = 1 .. Len(s)
         /\ Len(Append(s, v)) = Len(s) + 1
         /\ \A j \in 1 .. Len(s) : Append(s, v)[j] = s[j]
         /\ Append(s, v)[Len(s) + 1] = v
<1>1. PICK S : s \in Seq(S)
  BY DEF IsSequence
<1> DEFINE T == S \cup {v}
<1>2. s \in Seq(T) /\ v \in T
  BY <1>1
<1> HIDE DEF T
<1>3. Append(s, v) \in Seq(T)
  BY <1>2
<1>4. /\ Len(s) \in Nat /\ DOMAIN s = 1 .. Len(s)
      /\ Len(Append(s, v)) = Len(s) + 1
      /\ \A j \in 1 .. Len(s) : Append(s, v)[j] = s[j]
      /\ Append(s, v)[Len(s) + 1] = v
  BY <1>2
<1> QED BY <1>3, <1>4 DEF IsSequence

LEMMA FrontOf ==
  ASSUME NEW s, IsSequence(s), Len(s) > 1
  PROVE  /\ IsSequence(Front(s)) /\ Len(Front(s)) = Len(s) - 1
         /\ \A j \in 1 .. Len(s) - 1 : Front(s)[j] = s[j]
<1>1. PICK S : s \in Seq(S)
  BY DEF IsSequence
<1>2. Front(s) \in Seq(S) /\ Len(Front(s)) = Len(s) - 1 /\ \A i \in 1 .. Len(s) - 1 : Front(s)[i] = s[i]
  BY <1>1, PopCell
<1> QED BY <1>2 DEF IsSequence

LEMMA SetLast ==
  ASSUME NEW s, IsSequence(s), Len(s) >= 1, NEW v
  PROVE  LET t == [s EXCEPT ![Len(s)] = v] IN
         /\ IsSequence(t) /\ Len(t) = Len(s)
         /\ \A j \in 1 .. Len(s) - 1 : t[j] = s[j]
         /\ t[Len(s)] = v
<1>1. PICK S : s \in Seq(S)
  BY DEF IsSequence
<1> DEFINE T == S \cup {v}
           t == [s EXCEPT ![Len(s)] = v]
<1>2. s \in Seq(T) /\ v \in T /\ Len(s) \in Nat /\ Len(s) \in DOMAIN s /\ DOMAIN s = 1 .. Len(s)
  BY <1>1
<1> HIDE DEF T
<1>3. t \in Seq(T) /\ Len(t) = Len(s)
  BY <1>2
<1>4. t[Len(s)] = v /\ \A j \in 1 .. Len(s) - 1 : t[j] = s[j]
  BY <1>2
<1> QED BY <1>3, <1>4 DEF IsSequence

LEMMA EmptySequence == IsSequence(<<>>) /\ Len(<<>>) = 0
<1>1. <<>> \in Seq({})
  OBVIOUS
<1> QED BY <1>1 DEF IsSequence

-----------------------------------------------------------------------------
\* SelectInSeq(s, IsError) is the place of the first error, or 0.
LEMMA FirstError ==
  ASSUME NEW s, IsSequence(s)
  PROVE  LET k == SelectInSeq(s, IsError) IN
         \/ k = 0 /\ \A i \in 1 .. Len(s) : ~IsError(s[i])
         \/ /\ k \in 1 .. Len(s) /\ IsError(s[k])
            /\ \A i \in 1 .. Len(s) : IsError(s[i]) => k <= i
<1> DEFINE I == {i \in 1 .. Len(s) : IsError(s[i])}
           k == SelectInSeq(s, IsError)
<1>1. k = IF I # {} THEN Min(I) ELSE 0
  BY DEF SelectInSeq
<1>2. Len(s) \in Nat
  BY DEF IsSequence
<1>3. CASE I = {}
  BY <1>1, <1>3
<1>4. CASE I # {}
  <2>1. I \in SUBSET Nat
    BY <1>2
  <2>2. \E n \in I : \A m \in I : n <= m
    BY <1>4, <2>1, LeastNatural
  <2>3. Min(I) \in I /\ \A m \in I : Min(I) <= m
    BY <2>2 DEF Min
  <2> QED BY <1>1, <1>4, <2>3
<1> QED BY <1>3, <1>4

LEMMA ErrorShows ==
  ASSUME NEW f, f.shape # "iferror", NEW s, IsSequence(s),
         NEW i \in 1 .. Len(s), IsError(s[i])
  PROVE  IsError(Apply(f, s))
<1> DEFINE bad == SelectInSeq(s, IsError)
<1>1. /\ bad \in 1 .. Len(s) /\ IsError(s[bad])
      /\ bad # 0
  <2>1. Len(s) \in Nat
    BY DEF IsSequence
  <2>2. \/ bad = 0 /\ \A j \in 1 .. Len(s) : ~IsError(s[j])
        \/ bad \in 1 .. Len(s) /\ IsError(s[bad])
    BY FirstError
  <2> HIDE DEF bad
  <2>3. bad \in 1 .. Len(s) /\ IsError(s[bad])
    BY <2>2
  <2> QED BY <2>1, <2>3
<1>2. Apply(f, s) = s[bad] \/ Apply(f, s) = Error("#VALUE!")
  <2> HIDE DEF bad
  <2>1. CASE f.shape = "sum"
    <3>1. Apply(f, s) = IF bad # 0 THEN s[bad] ELSE Number(Total(0, s))
      BY <2>1 DEF Apply, bad
    <3> QED BY <1>1, <3>1
  <2>2. CASE f.shape # "sum"
    <3>1. Apply(f, s) = IF bad = 0 THEN Number(Total(1, s))
                        ELSE IF bad < Len(f.refs) THEN Error("#VALUE!") ELSE s[bad]
      BY <2>2 DEF Apply, bad
    <3> QED BY <1>1, <3>1
  <2> QED BY <2>1, <2>2
<1> QED BY <1>1, <1>2 DEF IsError, Error

LEMMA SameSequence ==
  ASSUME NEW s, NEW t, IsSequence(s), IsSequence(t), Len(s) = Len(t),
         \A j \in 1 .. Len(s) : s[j] = t[j]
  PROVE  s = t
<1>1. PICK S : s \in Seq(S)
  BY DEF IsSequence
<1>2. PICK T : t \in Seq(T)
  BY DEF IsSequence
<1>3. s = [j \in 1 .. Len(s) |-> s[j]] /\ t = [j \in 1 .. Len(t) |-> t[j]]
  BY <1>1, <1>2
<1> QED BY <1>3

\* An evaluation that stopped early has the value of the whole formula.
Complete(f, s) == \/ Len(s) = Len(f.refs)
                  \/ f.shape = "plus" /\ \E j \in 1 .. Len(s) : IsError(s[j])

LEMMA ApplyPrefix ==
  ASSUME NEW f, Len(f.refs) \in Nat, NEW s, NEW t, IsSequence(s), IsSequence(t),
         Len(t) = Len(f.refs), Len(s) <= Len(t),
         \A j \in 1 .. Len(s) : s[j] = t[j],
         Complete(f, s)
  PROVE  Apply(f, s) = Apply(f, t)
<1>0. Len(s) \in Nat /\ Len(t) \in Nat
  BY DEF IsSequence
<1>1. CASE Len(s) = Len(f.refs)
  <2>1. s = t
    BY <1>1, SameSequence
  <2> QED BY <2>1
<1>2. CASE f.shape = "plus" /\ \E j \in 1 .. Len(s) : IsError(s[j])
  <2> DEFINE bad == SelectInSeq(s, IsError)
             worse == SelectInSeq(t, IsError)
  <2>1. /\ bad \in 1 .. Len(s) /\ IsError(s[bad])
        /\ \A i \in 1 .. Len(s) : IsError(s[i]) => bad <= i
    BY <1>0, <1>2, FirstError
  <2>2. bad \in 1 .. Len(t) /\ IsError(t[bad])
    <3> HIDE DEF bad
    <3> QED BY <1>0, <2>1
  <2>3. /\ worse \in 1 .. Len(t) /\ IsError(t[worse])
        /\ \A i \in 1 .. Len(t) : IsError(t[i]) => worse <= i
    BY <1>0, <2>2, FirstError
  <2>4. /\ Apply(f, s) = IF bad = 0 THEN Number(Total(1, s))
                         ELSE IF bad < Len(f.refs) THEN Error("#VALUE!") ELSE s[bad]
        /\ Apply(f, t) = IF worse = 0 THEN Number(Total(1, t))
                         ELSE IF worse < Len(f.refs) THEN Error("#VALUE!") ELSE t[worse]
    BY <1>2 DEF Apply
  <2> HIDE DEF bad, worse
  <2>5. worse <= bad /\ worse \in 1 .. Len(s)
    BY <1>0, <2>1, <2>2, <2>3
  <2>6. bad <= worse
    BY <2>1, <2>3, <2>5
  <2>7. bad = worse /\ bad # 0
    BY <2>1, <2>5, <2>6, <1>0
  <2> QED BY <2>1, <2>4, <2>7
<1> QED BY <1>1, <1>2 DEF Complete

-----------------------------------------------------------------------------
\* What is known of each activation.
LEMMA FrameIs ==
  ASSUME IInv, Stack, Sequences, NEW i \in 1 .. Len(calling)
  PROVE  /\ Len(calling) \in Nat /\ i \in Nat
         /\ calling[i] \in FormulaKeys /\ At(i) \in FormulaCells /\ At(i) \in Addresses
         /\ formula[At(i)] \in Formulas
         /\ Len(formula[At(i)].refs) \in Nat
         /\ DOMAIN formula[At(i)].refs = 1 .. Len(formula[At(i)].refs)
         /\ IsSequence(operands[i]) /\ Len(operands[i]) \in Nat
         /\ DOMAIN operands[i] = 1 .. Len(operands[i])
         /\ Len(operands[i]) <= Len(formula[At(i)].refs)
<1>1. calling \in Seq(FormulaKeys)
  BY DEF IInv, RecursionBounded
<1>2. Len(calling) \in Nat /\ i \in Nat /\ calling[i] \in FormulaKeys
  BY <1>1
<1>3. At(i) \in FormulaCells
  BY <1>2, KeyFacts DEF At
<1>4. At(i) \in Addresses /\ formula[At(i)] \in Formulas
  BY <1>3 DEF FormulaCells, HasFormula, Stack, Shape
<1>5. formula[At(i)].refs \in Seq([sheet : Nat, cell : Nat])
  BY <1>4, FormulaAssumption
<1>6. IsSequence(operands[i])
  BY DEF Stack, Shape, Sequences
<1>7. Len(operands[i]) \in Nat /\ DOMAIN operands[i] = 1 .. Len(operands[i])
  BY <1>6 DEF IsSequence
<1>8. Len(operands[i]) <= Len(formula[At(i)].refs)
  BY DEF Stack, Frame
<1> QED BY <1>2, <1>3, <1>4, <1>5, <1>6, <1>7, <1>8

\* The innermost activation.
LEMMA TopIs ==
  ASSUME IInv, Stack, Sequences, calling # <<>>
  PROVE  /\ Len(calling) \in Nat /\ Len(calling) >= 1 /\ Len(operands) = Len(calling)
         /\ Len(calling) \in 1 .. Len(calling)
         /\ Top = calling[Len(calling)] /\ Args = operands[Len(calling)]
         /\ Top \in FormulaKeys /\ Cell(Top) = At(Len(calling))
         /\ Cell(Top) \in FormulaCells /\ Cell(Top) \in Addresses
         /\ TopFormula = formula[At(Len(calling))] /\ TopFormula \in Formulas
         /\ Len(TopFormula.refs) \in Nat /\ DOMAIN TopFormula.refs = 1 .. Len(TopFormula.refs)
         /\ IsSequence(Args) /\ Len(Args) \in Nat /\ DOMAIN Args = 1 .. Len(Args)
         /\ WantsOperand <=> Asks(Len(calling))
         /\ Frame(Len(calling))
<1> DEFINE L == Len(calling)
<1>1. calling \in Seq(FormulaKeys)
  BY DEF IInv, RecursionBounded
<1>2. L \in Nat /\ L >= 1 /\ L \in 1 .. Len(calling)
  BY <1>1
<1>3. Len(operands) = L
  BY DEF Stack, Shape
<1>4. Top = calling[L] /\ Args = operands[L]
  BY <1>3 DEF Top, Args, Last
<1>5. Cell(Top) = At(L) /\ TopFormula = formula[At(L)]
  BY <1>4 DEF At, TopFormula
<1>6. WantsOperand <=> Asks(L)
  BY <1>4, <1>5 DEF WantsOperand, Asks
<1>7. Frame(L)
  BY <1>2 DEF Stack
<1> HIDE DEF L
<1>8. /\ calling[L] \in FormulaKeys /\ At(L) \in FormulaCells /\ At(L) \in Addresses
      /\ formula[At(L)] \in Formulas
      /\ Len(formula[At(L)].refs) \in Nat
      /\ DOMAIN formula[At(L)].refs = 1 .. Len(formula[At(L)].refs)
      /\ IsSequence(operands[L]) /\ Len(operands[L]) \in Nat
      /\ DOMAIN operands[L] = 1 .. Len(operands[L])
  BY <1>2, FrameIs
<1> QED BY <1>2, <1>3, <1>4, <1>5, <1>6, <1>7, <1>8 DEF L

\* On a workbook whose references name their sheets the context of a reader is its own.
LEMMA TargetIs ==
  ASSUME Qualified, IInv, Stack, Sequences, calling # <<>>, WantsOperand
  PROVE  LET n == Len(Args) + 1 IN
         /\ n \in 1 .. Len(TopFormula.refs) /\ n \in DOMAIN TopFormula.refs
         /\ Target(TopFormula.refs[n]) = Key(Cell(Top), TopFormula.refs[n])
<1> DEFINE n == Len(Args) + 1
           ref == TopFormula.refs[n]
<1>1. n \in 1 .. Len(TopFormula.refs) /\ n \in DOMAIN TopFormula.refs
  <2>1. Len(Args) < Len(TopFormula.refs)
    BY DEF WantsOperand
  <2> QED BY <2>1, TopIs
<1>2. CASE \A f \in Formulas : \A i \in DOMAIN f.refs : f.refs[i].sheet # Here
  <2>1. ref.sheet # Here
    BY <1>1, <1>2, TopIs
  <2> QED BY <1>1, <2>1 DEF Target, Key
<1>3. CASE Len(Grid) = 1
  <2>1. calling \in Seq(FormulaKeys) /\ calling[1] \in Addresses
    BY DEF IInv, RecursionBounded
  <2>2. Head(calling) \in Addresses /\ Cell(Top) \in Addresses
    BY <2>1, TopIs
  <2>3. \A a \in Addresses : a[1] = 1
    BY <1>3 DEF Addresses, Sheets
  <2>4. Head(calling)[1] = Cell(Top)[1]
    BY <2>2, <2>3
  <2> QED BY <1>1, <2>4 DEF Target, Key
<1> QED BY <1>2, <1>3 DEF Qualified

LEMMA ReachedIs ==
  ASSUME NEW a \in FormulaCells, NEW n \in DOMAIN formula[a].refs,
         NEW k, k = Key(a, formula[a].refs[n])
  PROVE  /\ k \in References(a) /\ Cell(k) = Intended(a, formula[a].refs[n])
         /\ k \in FormulaKeys <=> Cell(k) \in FormulaCells
         /\ k \in FormulaKeys => k \in Reached(a) /\ Cell(k) \in Precedents(a)
<1>1. k \in References(a) /\ Cell(k) = Intended(a, formula[a].refs[n])
  BY DEF References, Intended
<1>2. k \in FormulaKeys <=> Cell(k) \in FormulaCells
  BY <1>1, KeyFacts
<1>3. Cell(k) \in FormulaCells => Cell(k) \in Precedents(a)
  BY <1>1 DEF Precedents
<1> QED BY <1>1, <1>2, <1>3 DEF Reached

\* The keys a formula reaches and its precedents are each other's.
LEMMA ReachedPrecedes ==
  ASSUME NEW a \in FormulaCells
  PROVE  /\ \A k \in Reached(a) : Cell(k) \in Precedents(a)
         /\ \A b \in Precedents(a) : \E k \in Reached(a) : Cell(k) = b
<1>1. ASSUME NEW k \in Reached(a) PROVE Cell(k) \in Precedents(a)
  <2>1. PICK n \in DOMAIN formula[a].refs : k = Key(a, formula[a].refs[n])
    BY DEF Reached, References
  <2> QED BY <2>1, ReachedIs DEF Reached
<1>2. ASSUME NEW b \in Precedents(a) PROVE \E k \in Reached(a) : Cell(k) = b
  <2>1. PICK n \in DOMAIN formula[a].refs : b = Intended(a, formula[a].refs[n])
    BY DEF Precedents
  <2>2. b \in FormulaCells
    BY DEF Precedents
  <2>3. PICK k : k = Key(a, formula[a].refs[n])
    OBVIOUS
  <2> QED BY <2>1, <2>2, <2>3, ReachedIs
<1> QED BY <1>1, <1>2

LEMMA ReadingIs ==
  ASSUME Qualified, IInv, Stack, Sequences, NEW k, Reading(k)
  PROVE  LET n == Len(Args) + 1 IN
         /\ calling # <<>> /\ WantsOperand
         /\ n \in 1 .. Len(TopFormula.refs) /\ n \in DOMAIN TopFormula.refs
         /\ k = Key(Cell(Top), TopFormula.refs[n])
         /\ Cell(k) = Intended(Cell(Top), TopFormula.refs[n])
         /\ k \in FormulaKeys <=> Cell(k) \in FormulaCells
         /\ k \in FormulaKeys => Cell(k) \in Precedents(Cell(Top))
<1>1. calling # <<>> /\ WantsOperand /\ k = Target(TopFormula.refs[Len(Args) + 1])
  BY DEF Reading
<1>2. /\ Len(Args) + 1 \in 1 .. Len(TopFormula.refs) /\ Len(Args) + 1 \in DOMAIN TopFormula.refs
      /\ k = Key(Cell(Top), TopFormula.refs[Len(Args) + 1])
  BY <1>1, TargetIs
<1>3. Cell(Top) \in FormulaCells /\ TopFormula = formula[Cell(Top)]
  BY <1>1, TopIs DEF TopFormula
<1>4. PICK a : a = Cell(Top)
  OBVIOUS
<1>5. PICK n : n = Len(Args) + 1
  OBVIOUS
<1>6. a \in FormulaCells /\ n \in DOMAIN formula[a].refs /\ k = Key(a, formula[a].refs[n])
  BY <1>2, <1>3, <1>4, <1>5
<1>7. /\ Cell(k) = Intended(a, formula[a].refs[n])
      /\ k \in FormulaKeys <=> Cell(k) \in FormulaCells
      /\ k \in FormulaKeys => Cell(k) \in Precedents(a)
  BY ONLY <1>6, ReachedIs
<1> QED BY <1>1, <1>2, <1>3, <1>4, <1>5, <1>7

\* Each cell under evaluation was asked for by the one before it.
LEMMA CallersAreAbove ==
  ASSUME IInv, Stack, Sequences, NEW i \in 1 .. Len(calling) - 1
  PROVE  /\ At(i) \in FormulaCells /\ At(i + 1) \in FormulaCells
         /\ Len(operands[i]) + 1 \in 1 .. Len(formula[At(i)].refs)
         /\ Len(operands[i]) + 1 \in DOMAIN formula[At(i)].refs
         /\ calling[i + 1] = Key(At(i), formula[At(i)].refs[Len(operands[i]) + 1])
         /\ calling[i + 1] \in Reached(At(i)) /\ At(i + 1) \in Precedents(At(i))
<1>1. Len(calling) \in Nat
  BY DEF IInv, RecursionBounded
<1>2. i \in 1 .. Len(calling) /\ i + 1 \in 1 .. Len(calling)
  BY <1>1
<1>3. At(i) \in FormulaCells /\ At(i + 1) \in FormulaCells /\ calling[i + 1] \in FormulaKeys
  BY <1>2, FrameIs
<1>4. /\ Len(formula[At(i)].refs) \in Nat /\ Len(operands[i]) \in Nat
      /\ DOMAIN formula[At(i)].refs = 1 .. Len(formula[At(i)].refs)
  BY <1>2, FrameIs
<1>5. /\ Len(operands[i]) < Len(formula[At(i)].refs)
      /\ calling[i + 1] = Key(At(i), formula[At(i)].refs[Len(operands[i]) + 1])
  BY DEF Stack, Path, Asks
<1>6. /\ Len(operands[i]) + 1 \in 1 .. Len(formula[At(i)].refs)
      /\ Len(operands[i]) + 1 \in DOMAIN formula[At(i)].refs
  <2>1. \A n, m \in Nat : n < m => n + 1 \in 1 .. m
    OBVIOUS
  <2> QED BY <1>4, <1>5, <2>1
<1>7. calling[i + 1] \in Reached(At(i)) /\ Cell(calling[i + 1]) \in Precedents(At(i))
  <2> DEFINE a == At(i)
             n == Len(operands[i]) + 1
             k == calling[i + 1]
  <2>1. a \in FormulaCells /\ n \in DOMAIN formula[a].refs /\ k = Key(a, formula[a].refs[n]) /\ k \in FormulaKeys
    BY <1>3, <1>5, <1>6
  <2> HIDE DEF a, n, k
  <2>2. k \in Reached(a) /\ Cell(k) \in Precedents(a)
    BY <2>1, ReachedIs
  <2> QED BY <2>2 DEF a, k
<1> QED BY <1>3, <1>5, <1>6, <1>7 DEF At

\* A reference back onto the stack is on a cycle.
LEMMA LoopFound ==
  ASSUME Qualified, IInv, Stack, Sequences, NEW k, Reading(k), k \in FormulaKeys, k \in OnStack
  PROVE  Cell(Top) \in Cyclic
<1>1. PICK i \in 2 .. Len(calling) : calling[i] = k
  BY DEF OnStack
<1> DEFINE C == {At(j) : j \in i .. Len(calling)}
<1>2. calling # <<>> /\ Cell(k) \in Precedents(Cell(Top))
  BY ReadingIs
<1>3. Len(calling) \in Nat /\ Cell(Top) = At(Len(calling))
  BY <1>2, TopIs
<1>4. C \in SUBSET FormulaCells
  <2>1. \A j \in i .. Len(calling) : j \in 1 .. Len(calling)
    BY <1>1, <1>3
  <2> QED BY <2>1, FrameIs
<1>5. Cell(k) \in C /\ Cell(Top) \in C
  <2>1. i \in i .. Len(calling) /\ Len(calling) \in i .. Len(calling)
    BY <1>1, <1>3
  <2>2. At(i) = Cell(k)
    BY <1>1 DEF At
  <2> QED BY <1>3, <2>1, <2>2
<1>6. ASSUME NEW c \in C PROVE Precedents(c) \cap C # {}
  <2>1. PICK j \in i .. Len(calling) : c = At(j)
    BY <1>6
  <2>2. CASE j = Len(calling)
    BY <1>2, <1>3, <1>5, <2>1, <2>2
  <2>3. CASE j # Len(calling)
    <3>0. i \in Nat /\ i >= 2 /\ j \in Nat /\ i <= j /\ j <= Len(calling)
      BY <1>3
    <3>1. j \in 1 .. Len(calling) - 1 /\ j + 1 \in i .. Len(calling)
      BY ONLY <1>3, <2>3, <3>0
    <3>2. At(j + 1) \in Precedents(c)
      BY <2>1, <3>1, CallersAreAbove
    <3> QED BY <3>1, <3>2
  <2> QED BY <2>2, <2>3
<1> HIDE DEF C
<1>7. C \subseteq Cyclic
  BY <1>4, <1>6, LoopIsCyclic
<1> QED BY <1>5, <1>7

\* With a limit deep enough nothing is cut.
LEMMA LimitUnreached ==
  ASSUME Qualified, IInv, Stack, Sequences, NEW k, ReadTooDeep(k)
  PROVE  ~DeepEnough
<1> DEFINE L == Len(calling)
           N == Cardinality(FormulaKeys)
           p(i) == IF i = L + 1 THEN k ELSE calling[i]
<1>1. Reading(k) /\ k \in FormulaKeys /\ k \notin OnStack /\ L >= options.maxDepth
  BY DEF ReadTooDeep, AtLimit
<1>2. /\ calling # <<>> /\ Cell(k) \in Precedents(Cell(Top)) /\ Cell(k) \in FormulaCells
  BY <1>1, ReadingIs
<1>3. /\ L \in Nat /\ L >= 1 /\ Top = calling[L] /\ calling \in Seq(FormulaKeys)
      /\ L = options.maxDepth /\ options.maxDepth \in Nat
  BY <1>1, <1>2, TopIs DEF IInv, RecursionBounded
<1>4. N \in Nat /\ IsFiniteSet(FormulaKeys)
  BY FiniteKeys
<1>5. L <= N
  <2> SUFFICES ASSUME N < L PROVE FALSE
    <3> HIDE DEF N, L
    <3> QED BY <1>3, <1>4
  <2> DEFINE S == 2 .. L + 1
             f == [i \in S |-> p(i)]
  <2>1. f \in [S -> FormulaKeys]
    BY <1>1, <1>3
  <2>2. IsFiniteSet(S) /\ Cardinality(S) = L
    <3>1. 2 \in Int /\ L + 1 \in Int /\ ~(2 > L + 1) /\ L + 1 - 2 + 1 = L
      BY <1>3
    <3> QED BY <3>1, FS_Interval
  <2>3. N < Cardinality(S)
    BY <2>2
  <2>4. \A i, j \in S : f[i] = f[j] => i = j
    <3>1. \A i, j \in 2 .. L : calling[i] = calling[j] => i = j
      BY DEF IInv, RecursionBounded
    <3>2. \A i \in 2 .. L : calling[i] # k
      BY <1>1 DEF OnStack
    <3>3. \A i \in S : i \in 2 .. L \/ i = L + 1
      BY <1>3
    <3>4. \A i \in 2 .. L : i \in S /\ i # L + 1 /\ f[i] = calling[i]
      BY <1>3
    <3>5. L + 1 \in S /\ f[L + 1] = k
      BY <1>3
    <3> HIDE DEF f, S
    <3> QED BY <3>1, <3>2, <3>3, <3>4, <3>5
  <2> HIDE DEF f, S
  <2>5. \E x, y \in S : x # y /\ f[x] = f[y]
    BY <1>4, <2>1, <2>2, <2>3, FS_PigeonHole
  <2> QED BY <2>4, <2>5
<1>6. Chain(L) # {}
  <2>a. \A l, m \in Nat : m + 1 <= l =>
            /\ l - m \in 1 .. l /\ l - m # l + 1 /\ l + 1 - (m + 1) = l - m
            /\ l + 1 - m = l - m + 1 /\ m <= l
    OBVIOUS
  <2>b. \A l \in Nat : \A m \in 1 .. l : m # l => m \in 1 .. l - 1 /\ m + 1 # l + 1
    OBVIOUS
  <2> DEFINE S == {n \in Nat : n <= L => Cell(p(L + 1 - n)) \in Chain(n)}
  <2>1. 0 \in S
    <3>1. p(L + 1 - 0) = k /\ Chain(0) = FormulaCells
      BY <1>3, ChainIs
    <3> QED BY <1>2, <3>1
  <2>2. ASSUME NEW n \in Nat, n \in S PROVE n + 1 \in S
    <3>1. SUFFICES ASSUME n + 1 <= L PROVE Cell(p(L + 1 - (n + 1))) \in Chain(n + 1)
      OBVIOUS
    <3> DEFINE i == L - n
    <3>2. /\ i \in 1 .. L /\ i # L + 1 /\ L + 1 - (n + 1) = i /\ L + 1 - n = i + 1 /\ n <= L
      BY <1>3, <3>1, <2>a
    <3>3. Cell(p(i + 1)) \in Chain(n)
      BY <2>2, <3>2
    <3>4. p(i) = calling[i] /\ Cell(p(i)) = At(i) /\ At(i) \in FormulaCells
      <4>1. p(i) = calling[i]
        BY <3>2
      <4>2. At(i) \in FormulaCells
        BY <3>2, FrameIs
      <4> QED BY <4>1, <4>2 DEF At
    <3>5. Cell(p(i + 1)) \in Precedents(At(i))
      <4>1. CASE i = L
        <5>1. Cell(Top) = At(L)
          BY <1>2, TopIs
        <5> QED BY <1>2, <1>3, <4>1, <5>1
      <4>2. CASE i # L
        <5>1. i \in 1 .. L - 1 /\ i + 1 # L + 1
          BY <1>3, <3>2, <4>2, <2>b
        <5>2. Cell(p(i + 1)) = At(i + 1)
          BY <5>1 DEF At
        <5> HIDE DEF p, i
        <5> QED BY <5>1, <5>2, CallersAreAbove
      <4> QED BY <4>1, <4>2
    <3>6. Chain(n + 1) = Below(Chain(n))
      BY ChainIs
    <3> HIDE DEF p, i
    <3> QED BY <3>2, <3>3, <3>4, <3>5, <3>6 DEF Below
  <2>3. Nat \subseteq S
    <3> HIDE DEF S
    <3> QED BY <2>1, <2>2, NatInd
  <2>4. Cell(p(L + 1 - L)) \in Chain(L)
    <3>1. L \in S
      <4> HIDE DEF S, L
      <4> QED BY <1>3, <2>3
    <3>2. L <= L
      <4> HIDE DEF L
      <4> QED BY <1>3
    <3> QED BY <3>1, <3>2
  <2> QED BY <2>4
<1> HIDE DEF L, N
<1>7. ~(options.maxDepth > N)
  BY <1>3, <1>4, <1>5
<1> QED BY <1>3, <1>6, <1>7 DEF DeepEnough, N

-----------------------------------------------------------------------------
(* From a state to the next.                                               *)
LEMMA ChainIsNext ==
  /\ Chain(0)' = FormulaCells'
  /\ \A n \in Nat : Chain(n + 1)' = Below(Chain(n))'
<1>1. (/\ Chain(0) = FormulaCells
       /\ \A n \in Nat : Chain(n + 1) = Below(Chain(n)))'
  BY ChainIs, PTL
<1> QED BY <1>1

LEMMA LevelIsNext ==
  /\ Level(0)' = value'
  /\ \A n \in Nat : Level(n + 1)' = Above(Level(n))'
  /\ Meaning' = Level(Cardinality(FormulaCells))'
<1>1. (/\ Level(0) = value
       /\ \A n \in Nat : Level(n + 1) = Above(Level(n))
       /\ Meaning = Level(Cardinality(FormulaCells)))'
  BY LevelIs, PTL
<1> QED BY <1>1

\* What does not change while formulas do not.
LEMMA GraphStays ==
  ASSUME UNCHANGED formula
  PROVE  /\ FormulaCells' = FormulaCells
         /\ FormulaKeys' = FormulaKeys
         /\ \A a : Precedents(a)' = Precedents(a)
         /\ \A a : Reached(a)' = Reached(a) /\ References(a)' = References(a)
         /\ \A n \in Nat : Chain(n)' = Chain(n)
         /\ Cyclic' = Cyclic
<1>1. FormulaCells' = FormulaCells /\ FormulaKeys' = FormulaKeys
  BY KeysStay
<1>a. \A a : Reached(a)' = Reached(a) /\ References(a)' = References(a)
  BY <1>1 DEF Reached, References
<1>2. \A a : Precedents(a)' = Precedents(a)
  BY <1>1 DEF Precedents
<1>3. \A C : Below(C)' = Below(C)
  BY <1>1, <1>2 DEF Below
<1> DEFINE S == {n \in Nat : Chain(n)' = Chain(n)}
<1>4. Chain(0)' = FormulaCells' /\ \A n \in Nat : Chain(n + 1)' = Below(Chain(n))'
  BY ChainIsNext
<1>5. 0 \in S
  BY <1>1, <1>4, ChainIs
<1>6. ASSUME NEW n \in Nat, n \in S PROVE n + 1 \in S
  <2>1. Chain(n + 1)' = Below(Chain(n))' /\ Chain(n + 1) = Below(Chain(n)) /\ Chain(n)' = Chain(n)
    BY <1>4, <1>6, ChainIs
  <2> QED BY <1>1, <1>2, <2>1 DEF Below
<1>7. Nat \subseteq S
  <2> HIDE DEF S
  <2> QED BY <1>5, <1>6, NatInd
<1>8. Cyclic' = Cyclic
  BY <1>1, <1>7, FiniteCells DEF Cyclic
<1> QED BY <1>1, <1>2, <1>7, <1>8, <1>a

\* Storing results in formula cells does not change what acyclic formulas mean.
LEMMA MeaningStays ==
  ASSUME UNCHANGED formula, \A a \in Addresses \ FormulaCells : value'[a] = value[a]
  PROVE  /\ \A a \in Addresses \ Cyclic : Meaning'[a] = Meaning[a]
         /\ \A c \in FormulaCells \ Cyclic : Seen(c, Meaning)' = Seen(c, Meaning)
<1> DEFINE N == Cardinality(FormulaCells)
           g == [n \in Nat |-> Level(n)]
           h == [n \in Nat |-> Level(n)']
<1>1. N \in Nat /\ N >= N /\ Cardinality(FormulaCells)' = N
  BY FiniteCells, GraphStays
<1>2. Climbs(g, value)
  BY LevelClimbs
<1>3. Climbs(h, value')
  <2>1. Level(0)' = value' /\ \A n \in Nat : Level(n + 1)' = Above(Level(n))'
    BY LevelIsNext
  <2>2. ASSUME NEW n \in Nat
        PROVE  h[n + 1] = [a \in Addresses |-> IF HasFormula(a) THEN Apply(formula[a], Seen(a, h[n])) ELSE value'[a]]
    <3>1. h[n + 1] = Level(n + 1)' /\ h[n] = Level(n)' /\ Level(n + 1)' = Above(Level(n))'
      BY <2>1
    <3>2. Above(Level(n))' = [a \in Addresses |-> IF HasFormula(a) THEN Apply(formula[a], Seen(a, Level(n)')) ELSE value'[a]]
      BY DEF Above, HasFormula, Seen
    <3> HIDE DEF h
    <3> QED BY <3>1, <3>2
  <2> QED BY <2>1, <2>2 DEF Climbs
<1>4. Meaning = g[N] /\ Meaning' = h[N] /\ Cyclic = Chain(N)
  <2>1. Meaning' = Level(Cardinality(FormulaCells))'
    BY LevelIsNext
  <2>2. Level(Cardinality(FormulaCells))' = Level(N)'
    BY <1>1
  <2> QED BY <1>1, <2>1, <2>2, LevelIs DEF Cyclic
<1> HIDE DEF g, h, N
<1>5. \A a \in Addresses \ Cyclic : Meaning'[a] = Meaning[a]
  BY <1>1, <1>2, <1>3, <1>4, LevelsAgree
<1>6. ASSUME NEW c \in FormulaCells \ Cyclic
      PROVE  Seen(c, Meaning)' = Seen(c, Meaning)
  <2>1. Seen(c, Meaning)' = Seen(c, Meaning')
    BY DEF Seen
  <2>2. c \in Addresses /\ Precedents(c) \cap Cyclic = {} /\ Cyclic \subseteq FormulaCells
    BY CyclicIsFixed DEF Below, FormulaCells
  <2>3. Seen(c, Meaning') = Seen(c, Meaning)
    BY <1>5, <2>2, SeenAgree
  <2> QED BY <2>1, <2>3
<1> QED BY <1>5, <1>6

\* The M-th activation gets the value v, those above it are gone.
Gains(M, v) ==
    /\ UNCHANGED <<formula, value>>
    /\ Sequences'
    /\ M \in 1 .. Len(calling) /\ Len(calling') = M /\ Len(operands') = M
    /\ \A i \in 1 .. M : calling'[i] = calling[i]
    /\ \A i \in 1 .. M - 1 : operands'[i] = operands[i]
    /\ Len(operands'[M]) = Len(operands[M]) + 1
    /\ \A j \in 1 .. Len(operands[M]) : operands'[M][j] = operands[M][j]
    /\ operands'[M][Len(operands[M]) + 1] = v
    /\ Asks(M)

Wanted(M) == Key(At(M), formula[At(M)].refs[Len(operands[M]) + 1])

LEMMA GainKeepsStack ==
  ASSUME IInv, Stack, Sequences, NEW M, NEW v, Gains(M, v)
  PROVE  Stack'
<1>0. /\ M \in 1 .. Len(calling) /\ Len(calling) \in Nat /\ M \in Nat
      /\ Len(operands[M]) \in Nat /\ DOMAIN operands[M] = 1 .. Len(operands[M])
      /\ Len(formula[At(M)].refs) \in Nat
  <2>1. M \in 1 .. Len(calling)
    BY DEF Gains
  <2> QED BY <2>1, FrameIs
<1>1. Shape'
  BY DEF Gains, Stack, Shape
<1>a. \A i \in 1 .. M : At(i)' = At(i)
  BY DEF Gains, At
<1>2. ASSUME NEW i \in 1 .. M - 1
      PROVE  Frame(i)' /\ Path(i)'
  <2>1. i \in 1 .. Len(calling) /\ i \in 1 .. Len(calling) - 1 /\ i \in 1 .. M /\ i + 1 \in 1 .. M
    BY <1>0
  <2>2. /\ calling'[i] = calling[i] /\ calling'[i + 1] = calling[i + 1]
        /\ operands'[i] = operands[i] /\ formula' = formula
    BY <2>1 DEF Gains
  <2>3. Frame(i) /\ Path(i)
    BY <2>1 DEF Stack
  <2>4. At(i)' = At(i)
    BY <2>1, <1>a
  <2> QED BY <2>2, <2>3, <2>4 DEF Frame, Path, Asks
<1>3. Frame(M)'
  <2>1. /\ At(M)' = At(M) /\ formula' = formula
        /\ Len(operands'[M]) = Len(operands[M]) + 1
        /\ \A j \in 1 .. Len(operands[M]) : operands'[M][j] = operands[M][j]
    BY <1>0, <1>a DEF Gains
  <2>2. /\ Len(operands[M]) < Len(formula[At(M)].refs)
        /\ formula[At(M)].shape = "plus" => \A j \in 1 .. Len(operands[M]) : ~IsError(operands[M][j])
    BY <1>0 DEF Gains, Asks
  <2>3. Len(operands'[M]) <= Len(formula'[At(M)'].refs)
    BY <1>0, <2>1, <2>2
  <2>4. ASSUME formula[At(M)].shape = "plus"
        PROVE  \A j \in 1 .. Len(operands'[M]) - 1 : ~IsError(operands'[M][j])
    BY <1>0, <2>1, <2>2, <2>4
  <2> QED BY <2>1, <2>3, <2>4 DEF Frame
<1>4. Len(calling') = M
  BY DEF Gains
<1>5. \A i \in 1 .. M : i \in 1 .. M - 1 \/ i = M
  BY <1>0
<1> QED BY <1>1, <1>2, <1>3, <1>4, <1>5 DEF Stack

\* If the M-th activation was right and is told the truth, all of them are right.
LEMMA GainKeepsRight ==
  ASSUME IInv, Stack, Sequences, NEW M, NEW v, Gains(M, v), OperandsRight,
         At(M) \notin Cyclic => v = Seen(At(M), Meaning)[Len(operands[M]) + 1]
  PROVE  OperandsRight'
<1>0. /\ M \in 1 .. Len(calling) /\ Len(calling) \in Nat /\ M \in Nat
      /\ Len(operands[M]) \in Nat
  <2>1. M \in 1 .. Len(calling)
    BY DEF Gains
  <2> QED BY <2>1, FrameIs
<1>1. /\ Cyclic' = Cyclic
      /\ \A c \in FormulaCells \ Cyclic : Seen(c, Meaning)' = Seen(c, Meaning)
  BY GraphStays, MeaningStays DEF Gains
<1>2. Len(calling') = M /\ \A i \in 1 .. M : At(i)' = At(i)
  BY DEF Gains, At
<1>3. SUFFICES ASSUME NEW c \in FormulaCells \ Cyclic, NEW i \in 1 .. M, c = At(i),
                      NEW j \in 1 .. Len(operands'[i])
               PROVE  operands'[i][j] = Seen(c, Meaning)[j]
  <2>1. FormulaCells' = FormulaCells
    BY GraphStays DEF Gains
  <2> QED BY <1>1, <1>2, <2>1 DEF OperandsRight
<1>4. CASE i # M
  <2>1. i \in 1 .. M - 1 /\ i \in 1 .. Len(calling)
    BY <1>0, <1>4
  <2>2. operands'[i] = operands[i]
    BY <2>1 DEF Gains
  <2> QED BY <1>3, <2>1, <2>2 DEF OperandsRight
<1>5. CASE i = M
  <2>1. /\ Len(operands'[M]) = Len(operands[M]) + 1
        /\ \A k \in 1 .. Len(operands[M]) : operands'[M][k] = operands[M][k]
        /\ operands'[M][Len(operands[M]) + 1] = v
    BY DEF Gains
  <2>2. CASE j = Len(operands[M]) + 1
    BY <1>3, <1>5, <2>1, <2>2
  <2>3. CASE j # Len(operands[M]) + 1
    <3>1. j \in 1 .. Len(operands[M])
      BY <1>0, <1>5, <2>1, <2>3
    <3> QED BY <1>0, <1>3, <1>5, <2>1, <3>1 DEF OperandsRight
  <2> QED BY <2>2, <2>3
<1> QED BY <1>4, <1>5

MemoGrows ==
    /\ UNCHANGED <<formula, options>>
    /\ \A a \in Addresses \ FormulaCells : value'[a] = value[a]
    /\ DOMAIN memo \subseteq DOMAIN memo'
    /\ \A b \in DOMAIN memo : memo'[b] = memo[b]

LEMMA DeepStays ==
  ASSUME UNCHANGED <<formula, options>>, options.maxDepth \in Nat
  PROVE  DeepEnough' <=> DeepEnough
<1>1. FormulaKeys' = FormulaKeys /\ Chain(options.maxDepth)' = Chain(options.maxDepth)
  <2>1. \A n \in Nat : Chain(n)' = Chain(n)
    BY GraphStays
  <2>2. \A n \in Nat : n = options.maxDepth => Chain(options.maxDepth)' = Chain(n)'
    OBVIOUS
  <2> QED BY <2>1, <2>2, GraphStays
<1> QED BY <1>1 DEF DeepEnough

LEMMA FoundStays ==
  ASSUME MemoGrows
  PROVE  /\ \A k : Known(k) => Known(k)' /\ Found(k)' = Found(k)
         /\ \A a : References(a)' = References(a) /\ Reached(a)' = Reached(a)
         /\ \A a : Stuck(a) => Stuck(a)'
         /\ \A a : Reached(a) \subseteq DOMAIN memo => FoundAll(a)' = FoundAll(a)
<1>1. FormulaCells' = FormulaCells /\ formula' = formula
  BY GraphStays DEF MemoGrows
<1>2. \A a : References(a)' = References(a) /\ Reached(a)' = Reached(a)
  BY GraphStays DEF MemoGrows
<1>3. ASSUME NEW k, Known(k)
      PROVE  Known(k)' /\ Found(k)' = Found(k)
  BY <1>1, <1>3 DEF MemoGrows, Known, Found, ValueAt
<1>4. \A a : Stuck(a) => Stuck(a)'
  BY <1>1, <1>2, <1>3 DEF Stuck
<1>5. ASSUME NEW a, Reached(a) \subseteq DOMAIN memo
      PROVE  FoundAll(a)' = FoundAll(a)
  <2>1. ASSUME NEW n \in DOMAIN formula[a].refs, NEW k, k = Key(a, formula[a].refs[n])
        PROVE  (IF Cell(k) \in FormulaCells THEN memo'[k] ELSE ValueAt(Cell(k), value')) = Found(k)
    <3>1. Known(k)
      BY <1>5, <2>1 DEF Known, Reached, References
    <3>2. Found(k)' = Found(k)
      BY <1>3, <3>1
    <3>3. Found(k)' = IF Cell(k) \in FormulaCells THEN memo'[k] ELSE ValueAt(Cell(k), value')
      BY <1>1 DEF Found, ValueAt
    <3> QED BY <3>2, <3>3
  <2>2. FoundAll(a)' = [n \in DOMAIN formula[a].refs |->
                          IF Cell(Key(a, formula[a].refs[n])) \in FormulaCells THEN memo'[Key(a, formula[a].refs[n])]
                          ELSE ValueAt(Cell(Key(a, formula[a].refs[n])), value')]
    BY <1>1 DEF FoundAll, Found, ValueAt
  <2> QED BY <2>1, <2>2 DEF FoundAll
<1> QED BY <1>2, <1>3, <1>4, <1>5

\* A step that adds at most one key to the memo, below which all is known.
LEMMA PlainStays ==
  ASSUME MemoGrows, options.maxDepth \in Nat, PlainFull, Grounded,
         \A k \in DOMAIN memo' \ DOMAIN memo :
            k \in Plain' => /\ Reached(Cell(k)) \subseteq DOMAIN memo
                            /\ memo'[k] = Apply(formula[Cell(k)], FoundAll(Cell(k))),
         \A k, l \in DOMAIN memo' \ DOMAIN memo : k = l
  PROVE  PlainFull' /\ Grounded'
<1> DEFINE New == DOMAIN memo' \ DOMAIN memo
<1>0. /\ formula' = formula /\ \A a : Reached(a)' = Reached(a)
      /\ DOMAIN memo \subseteq DOMAIN memo' /\ \A k \in DOMAIN memo : memo'[k] = memo[k]
  BY FoundStays DEF MemoGrows
<1>1. \A k \in Plain' : k \in Plain \/ k \in New
  <2> SUFFICES ASSUME NEW k \in Plain', k \in DOMAIN memo PROVE k \in Plain
    BY DEF Plain
  <2>1. ~Cut(k)' /\ ~Stuck(Cell(k))'
    BY DEF Plain
  <2>2. ~Stuck(Cell(k))
    BY <2>1, FoundStays
  <2>3. ~Cut(k)
    BY <2>1, <1>0, DeepStays DEF Cut, MemoGrows
  <2> QED BY <2>2, <2>3 DEF Plain
<1>2. ASSUME NEW k \in Plain'
      PROVE  /\ Reached(Cell(k)) \subseteq DOMAIN memo
             /\ memo'[k] = Apply(formula[Cell(k)], FoundAll(Cell(k)))
  <2>1. CASE k \in New
    BY <1>2, <2>1
  <2>2. CASE k \in Plain
    <3>1. k \in DOMAIN memo
      BY <2>2 DEF Plain
    <3>2. Full(k)
      BY <2>2 DEF PlainFull
    <3> QED BY <1>0, <3>1, <3>2 DEF Full
  <2> QED BY <1>1, <2>1, <2>2
<1>3. ASSUME NEW k \in Plain' PROVE Full(k)'
  <2>1. FoundAll(Cell(k))' = FoundAll(Cell(k)) /\ Reached(Cell(k))' \subseteq DOMAIN memo'
    BY <1>0, <1>2, FoundStays
  <2> QED BY <1>0, <1>2, <2>1 DEF Full
<1>4. ASSUME NEW C \in SUBSET Plain', C # {}
      PROVE  \E k \in C : Reached(Cell(k)) \cap C = {}
  <2> DEFINE D == C \ New
  <2>1. D \in SUBSET Plain
    BY <1>1
  <2>2. CASE D = {}
    <3>1. PICK k \in C : TRUE
      BY <1>4
    <3>2. k \in New
      BY <2>2
    <3>3. Reached(Cell(k)) \subseteq DOMAIN memo
      BY <1>2
    <3>4. C \subseteq New
      BY <2>2
    <3> QED BY <3>3, <3>4
  <2>3. CASE D # {}
    <3>1. PICK k \in D : Reached(Cell(k)) \cap D = {}
      BY <2>1, <2>3 DEF Grounded
    <3>2. Reached(Cell(k)) \subseteq DOMAIN memo
      BY <1>2, <3>1
    <3> QED BY <3>1, <3>2
  <2> QED BY <2>2, <2>3
<1> QED BY <1>0, <1>3, <1>4 DEF PlainFull, Grounded

LEMMA SettledStays ==
  ASSUME MemoGrows, NEW a, Settled(a), value'[a] = value[a]
  PROVE  Settled(a)'
<1>1. Reached(a) \subseteq DOMAIN memo
  BY DEF Settled
<1>2. /\ Reached(a)' = Reached(a) /\ FoundAll(a)' = FoundAll(a)
      /\ DOMAIN memo \subseteq DOMAIN memo' /\ formula' = formula /\ options' = options
  BY <1>1, FoundStays DEF MemoGrows
<1> QED BY <1>1, <1>2 DEF Settled

LEMMA GainKeepsKnown ==
  ASSUME IInv, Stack, Sequences, MemoGrows, NEW M, NEW v, Gains(M, v), OperandsKnown,
         \A k \in {Wanted(M)} : Known(k)' /\ v = Found(k)'
  PROVE  OperandsKnown'
<1>0. /\ M \in 1 .. Len(calling) /\ Len(calling) \in Nat /\ M \in Nat
      /\ Len(operands[M]) \in Nat
  <2>1. M \in 1 .. Len(calling)
    BY DEF Gains
  <2> QED BY <2>1, FrameIs
<1>1. /\ Len(calling') = M /\ \A i \in 1 .. M : At(i)' = At(i)
      /\ formula' = formula
  BY DEF Gains, At
<1>2. SUFFICES ASSUME NEW i \in 1 .. M, NEW j \in 1 .. Len(operands'[i]),
                      NEW k, k = Key(At(i), formula[At(i)].refs[j])
               PROVE  Known(k)' /\ operands'[i][j] = Found(k)'
  BY <1>1 DEF OperandsKnown
<1>3. ASSUME j \in 1 .. Len(operands[i]), operands'[i][j] = operands[i][j]
      PROVE  Known(k)' /\ operands'[i][j] = Found(k)'
  <2>1. i \in 1 .. Len(calling)
    BY <1>0
  <2>2. Known(k) /\ operands[i][j] = Found(k)
    BY <1>2, <1>3, <2>1 DEF OperandsKnown
  <2> QED BY <1>3, <2>2, FoundStays
<1>4. CASE i # M
  <2>1. i \in 1 .. M - 1
    BY <1>0, <1>4
  <2>2. operands'[i] = operands[i]
    BY <2>1 DEF Gains
  <2> QED BY <1>3, <2>2
<1>5. CASE i = M
  <2>1. /\ Len(operands'[M]) = Len(operands[M]) + 1
        /\ \A l \in 1 .. Len(operands[M]) : operands'[M][l] = operands[M][l]
        /\ operands'[M][Len(operands[M]) + 1] = v
    BY DEF Gains
  <2>2. CASE j = Len(operands[M]) + 1
    <3>1. k = Wanted(M)
      BY <1>2, <1>5, <2>2 DEF Wanted
    <3> QED BY <1>5, <2>1, <2>2, <3>1
  <2>3. CASE j # Len(operands[M]) + 1
    <3>1. j \in 1 .. Len(operands[M])
      BY <1>0, <1>5, <2>1, <2>3
    <3> QED BY <1>3, <1>5, <2>1, <3>1
  <2> QED BY <2>2, <2>3
<1> QED BY <1>4, <1>5

CInv == IInv /\ Stack /\ Sequences /\ MemoInv /\ ReportInv

LEMMA SequenceOf ==
  ASSUME NEW n \in Nat, NEW f, f = [i \in 1 .. n |-> f[i]]
  PROVE  IsSequence(f) /\ Len(f) = n
<1> DEFINE S == {f[i] : i \in 1 .. n}
<1>1. \A i \in 1 .. n : f[i] \in S
  OBVIOUS
<1> HIDE DEF S
<1>2. f \in [1 .. n -> S]
  BY <1>1
<1>3. f \in Seq(S) /\ Len(f) = n
  BY <1>2
<1> QED BY <1>3 DEF IsSequence

LEMMA ReceiveGains ==
  ASSUME Qualified, IInv, Stack, Sequences, NEW k, Reading(k), NEW v, Receive(v)
  PROVE  Gains(Len(calling), v) /\ Wanted(Len(calling)) = k
<1> DEFINE L == Len(calling)
<1>1. /\ calling # <<>> /\ WantsOperand
      /\ k = Key(Cell(Top), TopFormula.refs[Len(Args) + 1])
  BY ReadingIs
<1>2. /\ L \in Nat /\ L >= 1 /\ Len(operands) = L
      /\ Cell(Top) = At(L) /\ TopFormula = formula[At(L)] /\ Args = operands[L] /\ Asks(L) /\ IsSequence(operands[L])
  BY <1>1, TopIs
<1>3. /\ IsSequence(Append(operands[L], v))
      /\ Len(Append(operands[L], v)) = Len(operands[L]) + 1
      /\ \A j \in 1 .. Len(operands[L]) : Append(operands[L], v)[j] = operands[L][j]
      /\ Append(operands[L], v)[Len(operands[L]) + 1] = v
  BY <1>2, AppendTo
<1> DEFINE app == Append(operands[L], v)
<1>4. /\ operands' = [operands EXCEPT ![Len(operands)] = app]
      /\ calling' = calling /\ formula' = formula /\ value' = value
  BY <1>2 DEF Receive, model
<1> HIDE DEF app
<1>5. /\ IsSequence(operands') /\ Len(operands') = L
      /\ \A j \in 1 .. L - 1 : operands'[j] = operands[j]
      /\ operands'[L] = app
  <2>1. IsSequence(operands) /\ Len(operands) >= 1
    BY <1>2 DEF Sequences
  <2>2. LET t == [operands EXCEPT ![Len(operands)] = app] IN
        /\ IsSequence(t) /\ Len(t) = Len(operands)
        /\ \A j \in 1 .. Len(operands) - 1 : t[j] = operands[j]
        /\ t[Len(operands)] = app
    BY ONLY <2>1, SetLast
  <2> QED BY <1>2, <1>4, <2>2
<1>6. Sequences'
  <2>1. \A j \in 1 .. L : j \in 1 .. L - 1 \/ j = L
    BY <1>2
  <2>2. \A j \in 1 .. L - 1 : j \in 1 .. Len(operands)
    BY <1>2
  <2>3. \A j \in 1 .. L - 1 : IsSequence(operands[j])
    BY <2>2 DEF Sequences
  <2> HIDE DEF L
  <2> QED BY <1>3, <1>5, <2>1, <2>3 DEF Sequences, app
<1>7. L \in 1 .. Len(calling)
  BY <1>2
<1>8. Gains(L, v)
  BY <1>2, <1>3, <1>4, <1>5, <1>6, <1>7 DEF Gains, app
<1> QED BY <1>1, <1>2, <1>8 DEF Wanted

LEMMA ReturnGains ==
  ASSUME IInv, Stack, Sequences, Return
  PROVE  Gains(Len(calling) - 1, Result) /\ Wanted(Len(calling) - 1) = Top
<1> DEFINE L == Len(calling)
           M == L - 1
<1>1. L > 1 /\ calling' = Front(calling) /\ calling # <<>>
  BY DEF Return, ReturnTo
<1>2. /\ L \in Nat /\ Len(operands) = L /\ Top = calling[L] /\ calling \in Seq(FormulaKeys)
      /\ M \in Nat /\ M >= 1 /\ M \in 1 .. L - 1 /\ M \in 1 .. L /\ M + 1 = L
  BY <1>1, TopIs DEF IInv, RecursionBounded
<1>3. Path(M) /\ IsSequence(operands[M])
  BY <1>2 DEF Stack, Sequences
<1>4. /\ IsSequence(Append(operands[M], Result))
      /\ Len(Append(operands[M], Result)) = Len(operands[M]) + 1
      /\ \A j \in 1 .. Len(operands[M]) : Append(operands[M], Result)[j] = operands[M][j]
      /\ Append(operands[M], Result)[Len(operands[M]) + 1] = Result
  BY <1>3, AppendTo
<1> DEFINE app == Append(operands[M], Result)
           front == Front(operands)
<1>5. IsSequence(front) /\ Len(front) = M /\ \A j \in 1 .. M : front[j] = operands[j]
  BY <1>1, <1>2, FrontOf DEF Sequences
<1>6. /\ operands' = [front EXCEPT ![Len(front)] = app]
      /\ formula' = formula /\ value' = value
  BY <1>1, <1>2, <1>5 DEF Return, ReturnTo, model
<1> HIDE DEF app, front
<1>7. /\ IsSequence(operands') /\ Len(operands') = M
      /\ \A j \in 1 .. M - 1 : operands'[j] = front[j]
      /\ operands'[M] = app
  <2>1. Len(front) >= 1
    BY <1>2, <1>5
  <2>2. LET t == [front EXCEPT ![Len(front)] = app] IN
        /\ IsSequence(t) /\ Len(t) = Len(front)
        /\ \A j \in 1 .. Len(front) - 1 : t[j] = front[j]
        /\ t[Len(front)] = app
    BY ONLY <1>5, <2>1, SetLast
  <2> QED BY <1>5, <1>6, <2>2
<1>8. \A j \in 1 .. M - 1 : operands'[j] = operands[j]
  BY <1>2, <1>5, <1>7
<1>9. Sequences'
  <2>1. \A j \in 1 .. M : j \in 1 .. M - 1 \/ j = M
    BY <1>2
  <2>2. \A j \in 1 .. M - 1 : j \in 1 .. Len(operands)
    BY <1>2
  <2>3. \A j \in 1 .. M - 1 : IsSequence(operands[j])
    BY <2>2 DEF Sequences
  <2> HIDE DEF L, M
  <2> QED BY <1>4, <1>7, <1>8, <2>1, <2>3 DEF Sequences, app
<1>10. Len(calling') = M /\ \A i \in 1 .. M : calling'[i] = calling[i]
  BY <1>1, <1>2, PopCell
<1>11. Gains(M, Result)
  <2> HIDE DEF M, L
  <2>1. M \in 1 .. Len(calling)
    BY <1>2 DEF L
  <2> QED BY <2>1, <1>3, <1>4, <1>6, <1>7, <1>8, <1>9, <1>10 DEF Gains, app, Path
<1> QED BY <1>2, <1>3, <1>11 DEF Wanted, Path

LEMMA TopComplete ==
  ASSUME IInv, Stack, Sequences, calling # <<>>, ~WantsOperand
  PROVE  Complete(TopFormula, Args) /\ Len(Args) <= Len(TopFormula.refs)
<1>1. Len(Args) <= Len(TopFormula.refs)
  BY TopIs DEF Frame
<1>2. CASE Len(Args) = Len(TopFormula.refs)
  BY <1>1, <1>2 DEF Complete
<1>3. CASE Len(Args) # Len(TopFormula.refs)
  <2>1. Len(Args) < Len(TopFormula.refs)
    BY <1>1, <1>3, TopIs
  <2> QED BY <1>1, <2>1, TopIs DEF Complete, WantsOperand
<1> QED BY <1>2, <1>3

\* The result of an acyclic formula is what it means.
LEMMA ResultRight ==
  ASSUME IInv, Stack, Sequences, OperandsRight, calling # <<>>, ~WantsOperand, Cell(Top) \notin Cyclic
  PROVE  Result = Meaning[Cell(Top)]
<1> DEFINE f == TopFormula
           t == Seen(Cell(Top), Meaning)
           n == Len(f.refs)
<1>1. /\ n \in Nat /\ DOMAIN f.refs = 1 .. n /\ Cell(Top) \in FormulaCells
      /\ Len(calling) \in 1 .. Len(calling)
      /\ Cell(Top) = At(Len(calling)) /\ Args = operands[Len(calling)]
      /\ IsSequence(Args) /\ f = formula[Cell(Top)]
  BY TopIs
<1>2. t = [i \in 1 .. n |-> t[i]]
  BY <1>1 DEF Seen
<1>3. IsSequence(t) /\ Len(t) = n
  <2> HIDE DEF n, t
  <2> QED BY <1>1, <1>2, SequenceOf
<1>4. \A j \in 1 .. Len(Args) : Args[j] = t[j]
  BY <1>1 DEF OperandsRight
<1>5. Apply(f, Args) = Apply(f, t)
  <2> HIDE DEF t
  <2> QED BY <1>1, <1>3, <1>4, TopComplete, ApplyPrefix
<1>6. Meaning[Cell(Top)] = Apply(f, t)
  BY <1>1, MeaningSolves
<1> QED BY <1>5, <1>6 DEF Result

\* The result of an activation that read everything, or stopped at an error.
LEMMA ResultKnown ==
  ASSUME IInv, Stack, Sequences, OperandsKnown, calling # <<>>, ~WantsOperand
  PROVE  \/ Stuck(Cell(Top)) /\ IsError(Result)
         \/ Reached(Cell(Top)) \subseteq DOMAIN memo /\ Result = Apply(TopFormula, FoundAll(Cell(Top)))
<1> DEFINE f == TopFormula
           t == FoundAll(Cell(Top))
           n == Len(f.refs)
<1>1. /\ n \in Nat /\ DOMAIN f.refs = 1 .. n /\ f = formula[Cell(Top)]
      /\ Len(calling) \in 1 .. Len(calling)
      /\ Cell(Top) = At(Len(calling)) /\ Args = operands[Len(calling)]
      /\ IsSequence(Args) /\ Len(Args) \in Nat /\ Len(Args) <= n
  BY TopIs, TopComplete
<1>2. \A j \in 1 .. Len(Args) : /\ Known(Key(Cell(Top), f.refs[j]))
                                /\ Args[j] = Found(Key(Cell(Top), f.refs[j]))
  BY <1>1 DEF OperandsKnown
<1>3. CASE Len(Args) = n
  <2>1. t = [i \in 1 .. n |-> t[i]]
    BY <1>1 DEF FoundAll
  <2>2. IsSequence(t) /\ Len(t) = n
    <3> HIDE DEF n, t
    <3> QED BY <1>1, <2>1, SequenceOf
  <2>3. \A j \in 1 .. Len(Args) : Args[j] = t[j]
    BY <1>1, <1>2, <1>3 DEF FoundAll
  <2>4. Args = t
    <3> HIDE DEF n, t
    <3> QED BY <1>1, <1>3, <2>2, <2>3, SameSequence
  <2>5. Reached(Cell(Top)) \subseteq DOMAIN memo
    <3>1. \A k \in References(Cell(Top)) : \E j \in 1 .. n : k = Key(Cell(Top), f.refs[j])
      BY <1>1 DEF References
    <3>2. \A k \in References(Cell(Top)) : Known(k)
      BY <1>2, <1>3, <3>1
    <3> QED BY <3>2 DEF Reached, Known
  <2> QED BY <2>4, <2>5 DEF Result
<1>4. CASE f.shape = "plus" /\ \E j \in 1 .. Len(Args) : IsError(Args[j])
  <2>1. PICK j \in 1 .. Len(Args) : IsError(Args[j])
    BY <1>4
  <2>2. j \in DOMAIN f.refs
    BY <1>1
  <2>3. Key(Cell(Top), f.refs[j]) \in References(Cell(Top))
    BY <1>1, <2>2 DEF References
  <2>4. Stuck(Cell(Top))
    <3>1. /\ Known(Key(Cell(Top), f.refs[j])) /\ IsError(Found(Key(Cell(Top), f.refs[j])))
          /\ formula[Cell(Top)].shape = "plus"
      BY <1>1, <1>2, <1>4, <2>1
    <3> HIDE DEF f
    <3> QED BY <2>3, <3>1 DEF Stuck
  <2>5. f.shape # "iferror"
    BY <1>4
  <2>6. IsError(Apply(f, Args))
    <3> HIDE DEF f
    <3> QED BY <1>1, <2>1, <2>5, ErrorShows
  <2> QED BY <2>4, <2>6 DEF Result
<1> QED BY <1>3, <1>4, TopComplete DEF Complete

-----------------------------------------------------------------------------
(* One lemma per action.                                                   *)
LEMMA MemoInvGain ==
  ASSUME IInv, Stack, Sequences, MemoInv, IInv', UNCHANGED options, NEW M, NEW v, Gains(M, v),
         DeepEnough /\ MemoRight /\ OperandsRight =>
            /\ At(M) \notin Cyclic => v = Seen(At(M), Meaning)[Len(operands[M]) + 1]
            /\ \A k \in DOMAIN memo' : Cell(k) \notin Cyclic => memo'[k] = Meaning[Cell(k)]
  PROVE  MemoInv'
<1>1. UNCHANGED <<formula, value>>
  BY DEF Gains
<1>2. DeepEnough' <=> DeepEnough
  BY <1>1, DeepStays DEF IInv
<1>3. SUFFICES ASSUME DeepEnough, MemoRight, OperandsRight
               PROVE  MemoRight' /\ OperandsRight'
  BY <1>2 DEF MemoInv
<1>4. OperandsRight'
  BY <1>3, GainKeepsRight
<1>5. \A k \in DOMAIN memo' : Cell(k) \in Addresses
  <2>1. DOMAIN memo' \subseteq FormulaKeys'
    BY DEF IInv, RecursionBounded
  <2> QED BY <1>1, <2>1, KeysStay, KeyFacts DEF FormulaCells
<1>6. Cyclic' = Cyclic /\ \A a \in Addresses \ Cyclic : Meaning'[a] = Meaning[a]
  BY <1>1, GraphStays, MeaningStays
<1>7. MemoRight'
  BY <1>3, <1>5, <1>6 DEF MemoRight
<1> QED BY <1>4, <1>7

\* The part of ReportInv that only looks at the call.
LEMMA ReportInvGain ==
  ASSUME IInv, Stack, Sequences, ReportInv, MemoGrows, UNCHANGED <<running, visited, runs, report>>,
         NEW M, NEW v, Gains(M, v),
         ~report.circular /\ Sound =>
            /\ \A k \in DOMAIN memo' \ DOMAIN memo :
                 k \in Plain' => /\ Reached(Cell(k)) \subseteq DOMAIN memo
                                 /\ memo'[k] = Apply(formula[Cell(k)], FoundAll(Cell(k)))
            /\ \A k, l \in DOMAIN memo' \ DOMAIN memo : k = l
            /\ \A k \in {Wanted(M)} : Known(k)' /\ v = Found(k)'
  PROVE  ReportInv'
<1>1. Cyclic' = Cyclic /\ FormulaCells' = FormulaCells
  BY GraphStays DEF Gains
<1>2. ASSUME ~report.circular PROVE Sound'
  <2>1. Sound
    BY <1>2 DEF ReportInv
  <2>2. OperandsKnown'
    BY <1>2, <2>1, GainKeepsKnown DEF Sound
  <2>3. PlainFull' /\ Grounded'
    BY <1>2, <2>1, PlainStays DEF Sound, IInv
  <2>4. VisitedSettled'
    <3>1. ASSUME NEW a \in visited, ~report.errors PROVE Settled(a)'
      <4>1. Settled(a)
        BY <2>1, <3>1 DEF Sound, VisitedSettled
      <4> QED BY <4>1, SettledStays DEF Gains
    <3> QED BY <3>1 DEF VisitedSettled
  <2> QED BY <2>2, <2>3, <2>4 DEF Sound
<1> QED BY <1>1, <1>2 DEF ReportInv

LEMMA SeenAt ==
  ASSUME NEW c, NEW u, NEW n \in DOMAIN formula[c].refs, NEW k, k = Key(c, formula[c].refs[n])
  PROVE  Seen(c, u)[n] = ValueAt(Cell(k), u)
BY DEF Seen, Intended

LEMMA AcyclicBelow ==
  ASSUME NEW a \in FormulaCells, NEW b \in Precedents(a), a \notin Cyclic
  PROVE  b \notin Cyclic
BY CyclicIsFixed DEF Below

\* What every step that reads has in common.
LEMMA ReadingFacts ==
  ASSUME Qualified, IInv, Stack, Sequences, NEW k, Reading(k), NEW v, Receive(v), DOMAIN memo \subseteq DOMAIN memo',
         \A l \in DOMAIN memo : memo'[l] = memo[l]
  PROVE  /\ Gains(Len(calling), v) /\ Wanted(Len(calling)) = k /\ MemoGrows
         /\ UNCHANGED <<options, running, visited, runs, formula, value>>
         /\ Cell(Top) = At(Len(calling)) /\ Args = operands[Len(calling)]
         /\ Cell(Top) \in FormulaCells
         /\ k \in FormulaKeys <=> Cell(k) \in FormulaCells
         /\ k \in FormulaKeys => Cell(k) \in Precedents(Cell(Top))
         /\ Seen(Cell(Top), Meaning)[Len(Args) + 1] = ValueAt(Cell(k), Meaning)
<1>1. /\ calling # <<>> /\ Len(Args) + 1 \in DOMAIN TopFormula.refs
      /\ k = Key(Cell(Top), TopFormula.refs[Len(Args) + 1])
      /\ k \in FormulaKeys <=> Cell(k) \in FormulaCells
      /\ k \in FormulaKeys => Cell(k) \in Precedents(Cell(Top))
  BY ReadingIs
<1>2. Cell(Top) = At(Len(calling)) /\ Args = operands[Len(calling)] /\ Cell(Top) \in FormulaCells
  BY <1>1, TopIs
<1>3. UNCHANGED <<options, running, visited, runs, formula, value>>
  BY DEF Receive, model
<1>4. MemoGrows
  BY <1>3 DEF MemoGrows
<1>5. Gains(Len(calling), v) /\ Wanted(Len(calling)) = k
  BY ReceiveGains
<1>6. Seen(Cell(Top), Meaning)[Len(Args) + 1] = ValueAt(Cell(k), Meaning)
  BY <1>1, SeenAt DEF TopFormula
<1> QED BY <1>1, <1>2, <1>3, <1>4, <1>5, <1>6

LEMMA ReadValueKeeps ==
  ASSUME Qualified, CInv, IInv', NEW k, ReadValue(k)
  PROVE  CInv'
<1> DEFINE v == ValueAt(Cell(k), value)
           L == Len(calling)
<1>0. IInv /\ Stack /\ Sequences /\ MemoInv /\ ReportInv
  BY DEF CInv
<1>1. Reading(k) /\ Receive(v) /\ memo' = memo /\ report' = report /\ k \notin FormulaKeys
  BY DEF ReadValue
<1>2. /\ Gains(L, v) /\ Wanted(L) = k /\ MemoGrows
      /\ UNCHANGED <<options, running, visited, runs, formula, value>>
      /\ Cell(Top) = At(L) /\ Args = operands[L] /\ Cell(k) \notin FormulaCells
      /\ Seen(Cell(Top), Meaning)[Len(Args) + 1] = ValueAt(Cell(k), Meaning)
  BY <1>0, <1>1, ReadingFacts
<1>4. v = Seen(Cell(Top), Meaning)[Len(Args) + 1]
  BY <1>2, MeaningSolves DEF ValueAt
<1>5. Known(k)' /\ v = Found(k)'
  <2>1. FormulaCells' = FormulaCells /\ value' = value
    BY <1>2, GraphStays
  <2> QED BY <1>2, <2>1 DEF Known, Found, ValueAt
<1> HIDE DEF v, L
<1>6. Stack' /\ Sequences'
  BY <1>0, <1>2, GainKeepsStack DEF Gains
<1>7. MemoInv'
  BY <1>0, <1>1, <1>2, <1>4, MemoInvGain DEF MemoRight
<1>8. ReportInv'
  BY <1>0, <1>1, <1>2, <1>5, ReportInvGain
<1> QED BY <1>6, <1>7, <1>8 DEF CInv

LEMMA ReadMemoKeeps ==
  ASSUME Qualified, CInv, IInv', NEW k, ReadMemo(k)
  PROVE  CInv'
<1> DEFINE v == memo[k]
           L == Len(calling)
<1>0. IInv /\ Stack /\ Sequences /\ MemoInv /\ ReportInv
  BY DEF CInv
<1>1. /\ Reading(k) /\ Receive(v) /\ memo' = memo /\ report' = report
      /\ k \in FormulaKeys /\ k \in DOMAIN memo
  BY DEF ReadMemo
<1>2. /\ Gains(L, v) /\ Wanted(L) = k /\ MemoGrows
      /\ UNCHANGED <<options, running, visited, runs, formula, value>>
      /\ Cell(Top) = At(L) /\ Args = operands[L] /\ Cell(Top) \in FormulaCells
      /\ Cell(k) \in FormulaCells /\ Cell(k) \in Precedents(Cell(Top))
      /\ Seen(Cell(Top), Meaning)[Len(Args) + 1] = ValueAt(Cell(k), Meaning)
  BY <1>0, <1>1, ReadingFacts
<1>3. ASSUME MemoRight, Cell(Top) \notin Cyclic PROVE v = Seen(Cell(Top), Meaning)[Len(Args) + 1]
  <2>1. Cell(k) \in Addresses /\ Cell(k) \notin Cyclic
    BY <1>2, <1>3, AcyclicBelow DEF FormulaCells
  <2> QED BY <1>1, <1>2, <1>3, <2>1 DEF MemoRight, ValueAt
<1>4. Known(k)' /\ v = Found(k)'
  <2>1. FormulaCells' = FormulaCells
    BY <1>2, GraphStays
  <2> QED BY <1>1, <1>2, <2>1 DEF Known, Found
<1> HIDE DEF v, L
<1>6. Stack' /\ Sequences'
  BY <1>0, <1>2, GainKeepsStack DEF Gains
<1>7. MemoInv'
  BY <1>0, <1>1, <1>2, <1>3, MemoInvGain DEF MemoRight
<1>8. ReportInv'
  BY <1>0, <1>1, <1>2, <1>4, ReportInvGain
<1> QED BY <1>6, <1>7, <1>8 DEF CInv

\* A circular reference is counted, and only a cyclic cell meets one.
LEMMA ReadCircularKeeps ==
  ASSUME Qualified, CInv, IInv', NEW k, ReadCircular(k)
  PROVE  CInv'
<1> DEFINE v == IF value[Cell(k)] = Empty THEN Number(0) ELSE value[Cell(k)]
           L == Len(calling)
<1>0. IInv /\ Stack /\ Sequences /\ MemoInv /\ ReportInv
  BY DEF CInv
<1>1. /\ Reading(k) /\ Receive(v) /\ memo' = memo
      /\ report'.circular /\ report' \in [circular : BOOLEAN, errors : BOOLEAN]
      /\ k \in FormulaKeys /\ k \in OnStack
  <2>1. report \in [circular : BOOLEAN, errors : BOOLEAN] /\ report' = [report EXCEPT !.circular = TRUE]
    BY <1>0 DEF ReadCircular, ReportInv
  <2>2. report'.circular /\ report' \in [circular : BOOLEAN, errors : BOOLEAN]
    BY <2>1
  <2> QED BY <2>2 DEF ReadCircular
<1>2. /\ Gains(L, v) /\ Wanted(L) = k
      /\ UNCHANGED <<options, running, visited, runs, formula, value>>
      /\ Cell(Top) = At(L) /\ Args = operands[L]
  BY <1>0, <1>1, ReadingFacts
<1>3. Cell(Top) \in Cyclic
  BY <1>0, <1>1, LoopFound
<1> HIDE DEF v, L
<1>6. Stack' /\ Sequences'
  BY <1>0, <1>2, GainKeepsStack DEF Gains
<1>7. MemoInv'
  BY <1>0, <1>1, <1>2, <1>3, MemoInvGain DEF MemoRight
<1>8. ReportInv'
  <2>1. Cyclic' = Cyclic /\ FormulaCells' = FormulaCells
    BY <1>2, GraphStays
  <2> QED BY <1>0, <1>1, <1>2, <1>3, <2>1 DEF ReportInv
<1> QED BY <1>6, <1>7, <1>8 DEF CInv

\* A cut happens only where the limit is not deep enough.
LEMMA ReadTooDeepKeeps ==
  ASSUME Qualified, CInv, IInv', NEW k, ReadTooDeep(k)
  PROVE  CInv'
<1> DEFINE v == Error("#NUM!")
           L == Len(calling)
<1>0. IInv /\ Stack /\ Sequences /\ MemoInv /\ ReportInv
  BY DEF CInv
<1>1. /\ Reading(k) /\ Receive(v) /\ report' = report
      /\ memo' = [j \in DOMAIN memo \cup {k} |-> IF j = k THEN v ELSE memo[j]]
      /\ k \in FormulaKeys /\ k \notin DOMAIN memo
  BY DEF ReadTooDeep, Memoised
<1>2. /\ DOMAIN memo' = DOMAIN memo \cup {k} /\ memo'[k] = v
      /\ \A j \in DOMAIN memo : memo'[j] = memo[j]
  BY <1>1
<1>3. /\ Gains(L, v) /\ Wanted(L) = k /\ MemoGrows
      /\ UNCHANGED <<options, running, visited, runs, formula, value>>
      /\ Cell(Top) = At(L) /\ Args = operands[L] /\ Cell(k) \in FormulaCells
  BY <1>0, <1>1, <1>2, ReadingFacts
<1>4. ~DeepEnough /\ ~DeepEnough'
  BY <1>0, <1>3, LimitUnreached, DeepStays DEF IInv
<1>5. k \notin Plain'
  BY <1>2, <1>4 DEF Plain, Cut, IsError, Error
<1>6. Known(k)' /\ v = Found(k)'
  <2>1. FormulaCells' = FormulaCells
    BY <1>3, GraphStays
  <2> QED BY <1>2, <1>3, <2>1 DEF Known, Found
<1> HIDE DEF v, L
<1>7. Stack' /\ Sequences'
  BY <1>0, <1>3, GainKeepsStack DEF Gains
<1>8. MemoInv'
  BY <1>4 DEF MemoInv
<1>9. ReportInv'
  BY <1>0, <1>1, <1>2, <1>3, <1>5, <1>6, ReportInvGain
<1> QED BY <1>7, <1>8, <1>9 DEF CInv

LEMMA DescendKeeps ==
  ASSUME Qualified, CInv, IInv', NEW k, Descend(k)
  PROVE  CInv'
<1>l. PICK L : L = Len(calling)
  OBVIOUS
<1>0. IInv /\ Stack /\ Sequences /\ MemoInv /\ ReportInv
  BY DEF CInv
<1>1. /\ Reading(k) /\ k \in FormulaKeys /\ memo' = memo /\ report' = report
      /\ UNCHANGED <<options, running, visited, runs, formula, value>>
      /\ calling' = Append(calling, k) /\ operands' = Append(operands, <<>>)
  BY DEF Descend, model
<1>2. /\ calling # <<>> /\ WantsOperand
      /\ k = Key(Cell(Top), TopFormula.refs[Len(Args) + 1])
  BY <1>0, <1>1, ReadingIs
<1>3. /\ L \in Nat /\ L >= 1 /\ Len(operands) = L
      /\ Cell(Top) = At(L) /\ TopFormula = formula[At(L)] /\ Args = operands[L] /\ Asks(L)
      /\ calling \in Seq(FormulaKeys)
      /\ IsSequence(operands)
  BY <1>l, <1>0, <1>2, TopIs DEF IInv, RecursionBounded, Sequences
<1>4. Len(calling') = L + 1 /\ calling'[L + 1] = k /\ \A i \in 1 .. L : calling'[i] = calling[i]
  BY <1>l, <1>1, <1>3, PushCell
<1>a. At(L + 1)' = Cell(k) /\ \A i \in 1 .. L : At(i)' = At(i)
  BY <1>4 DEF At
<1>5. /\ IsSequence(operands') /\ Len(operands') = L + 1 /\ operands'[L + 1] = <<>>
      /\ \A i \in 1 .. L : operands'[i] = operands[i]
  BY <1>1, <1>3, AppendTo
<1>6. \A i \in 1 .. L + 1 : i \in 1 .. L \/ i = L + 1
  BY <1>3
<1>7. Sequences'
  <2>1. \A i \in 1 .. L : IsSequence(operands[i])
    BY <1>0, <1>3 DEF Sequences
  <2> QED BY <1>5, <1>6, <2>1, EmptySequence DEF Sequences
<1>8. Stack'
  <2>1. Shape'
    BY <1>0, <1>1, <1>4, <1>5 DEF Stack, Shape
  <2>2. ASSUME NEW i \in 1 .. L PROVE Frame(i)'
    BY <1>l, <1>0, <1>1, <1>a, <1>5 DEF Stack, Frame
  <2>3. Frame(L + 1)'
    <3>1. formula[Cell(k)] \in Formulas
      BY <1>0, <1>1, KeyFacts DEF FormulaCells, HasFormula, Stack, Shape
    <3>2. Len(formula[Cell(k)].refs) \in Nat
      BY <3>1, FormulaAssumption
    <3>3. At(L + 1)' = Cell(k) /\ operands'[L + 1] = <<>> /\ formula' = formula /\ Len(<<>>) = 0
      BY <1>1, <1>a, <1>5
    <3>4. Len(operands'[L + 1]) = 0 /\ \A j \in 1 .. 0 - 1 : FALSE
      BY <3>3
    <3> QED BY <3>2, <3>3, <3>4 DEF Frame
  <2>4. ASSUME NEW i \in 1 .. L - 1 PROVE Path(i)'
    <3>1. i \in 1 .. L /\ i + 1 \in 1 .. L
      BY <1>3
    <3>2. /\ At(i)' = At(i) /\ calling'[i + 1] = calling[i + 1]
          /\ operands'[i] = operands[i] /\ formula' = formula
      BY <1>1, <1>4, <1>a, <1>5, <3>1
    <3>3. Path(i)
      BY <1>l, <1>0 DEF Stack
    <3> QED BY <3>2, <3>3 DEF Path, Asks
  <2>5. Path(L)'
    <3>1. L \in 1 .. L
      BY <1>3
    <3>2. /\ At(L)' = At(L) /\ calling'[L + 1] = k
          /\ operands'[L] = operands[L] /\ formula' = formula
      BY <1>1, <1>4, <1>a, <1>5, <3>1
    <3> QED BY <1>2, <1>3, <3>2 DEF Path, Asks
  <2>6. \A i \in 1 .. Len(calling') - 1 : i \in 1 .. L - 1 \/ i = L
    BY <1>3, <1>4
  <2> QED BY <1>4, <1>6, <2>1, <2>2, <2>3, <2>4, <2>5, <2>6 DEF Stack
<1>9. MemoInv'
  <2>1. DeepEnough' <=> DeepEnough
    BY <1>0, <1>1, DeepStays DEF IInv
  <2>2. SUFFICES ASSUME MemoRight, OperandsRight PROVE MemoRight' /\ OperandsRight'
    BY <1>0, <2>1 DEF MemoInv
  <2>3. /\ Cyclic' = Cyclic /\ FormulaCells' = FormulaCells
        /\ \A c \in Addresses \ Cyclic : Meaning'[c] = Meaning[c]
        /\ \A c \in FormulaCells \ Cyclic : Seen(c, Meaning)' = Seen(c, Meaning)
    BY <1>1, GraphStays, MeaningStays
  <2>4. \A j \in DOMAIN memo : Cell(j) \in Addresses
    BY <1>0, KeyFacts DEF IInv, RecursionBounded, FormulaCells
  <2>5. MemoRight'
    BY <1>1, <2>2, <2>3, <2>4 DEF MemoRight
  <2>6. OperandsRight'
    <3>1. SUFFICES ASSUME NEW c \in FormulaCells \ Cyclic, NEW i \in 1 .. L + 1, c = At(i)',
                          NEW j \in 1 .. Len(operands'[i])
                   PROVE  operands'[i][j] = Seen(c, Meaning)[j]
      BY <1>4, <2>3 DEF OperandsRight
    <3>2. CASE i = L + 1
      BY <1>5, <3>1, <3>2, EmptySequence
    <3>3. CASE i \in 1 .. L
      BY <1>l, <1>a, <1>5, <2>2, <3>1, <3>3 DEF OperandsRight
    <3> QED BY <1>6, <3>2, <3>3
  <2> QED BY <2>5, <2>6
<1>10. ReportInv'
  <2>1. Cyclic' = Cyclic /\ FormulaCells' = FormulaCells
    BY <1>1, GraphStays
  <2>2. MemoGrows
    BY <1>1 DEF MemoGrows
  <2>3. ASSUME ~report.circular PROVE Sound'
    <3>1. Sound
      BY <1>0, <2>3 DEF ReportInv
    <3>2. PlainFull' /\ Grounded'
      BY <1>0, <1>1, <2>2, <3>1, PlainStays DEF Sound, IInv
    <3>3. VisitedSettled'
      <4>1. ASSUME NEW b \in visited, ~report.errors PROVE Settled(b)'
        <5>1. Settled(b)
          BY <3>1, <4>1 DEF Sound, VisitedSettled
        <5> QED BY <1>1, <2>2, <5>1, SettledStays
      <4> QED BY <1>1, <4>1 DEF VisitedSettled
    <3>4. OperandsKnown'
      <4>1. SUFFICES ASSUME NEW i \in 1 .. L + 1, NEW j \in 1 .. Len(operands'[i]),
                            NEW b, b = Key(At(i)', formula'[At(i)'].refs[j])
                     PROVE  Known(b)' /\ operands'[i][j] = Found(b)'
        BY <1>4 DEF OperandsKnown
      <4>2. CASE i = L + 1
        BY <1>5, <4>1, <4>2, EmptySequence
      <4>3. CASE i \in 1 .. L
        <5>1. /\ At(i)' = At(i) /\ operands'[i] = operands[i]
              /\ formula' = formula
          BY <1>1, <1>a, <1>5, <4>3
        <5>2. Known(b) /\ operands[i][j] = Found(b)
          BY <1>l, <3>1, <4>1, <4>3, <5>1 DEF Sound, OperandsKnown
        <5> QED BY <2>2, <5>1, <5>2, FoundStays
      <4> QED BY <1>6, <4>2, <4>3
    <3> QED BY <3>1, <3>2, <3>3, <3>4 DEF Sound
  <2> QED BY <1>0, <1>1, <2>1, <2>3 DEF ReportInv
<1> QED BY <1>7, <1>8, <1>9, <1>10 DEF CInv

LEMMA ReturnKeeps ==
  ASSUME Qualified, CInv, IInv', Return
  PROVE  CInv'
<1> DEFINE M == Len(calling) - 1
<1>0. IInv /\ Stack /\ Sequences /\ MemoInv /\ ReportInv
  BY DEF CInv
<1>1. /\ Len(calling) > 1 /\ ~WantsOperand /\ calling # <<>> /\ report' = report
      /\ UNCHANGED <<options, running, visited, runs, formula, value>>
      /\ memo' = [b \in DOMAIN memo \cup {Top} |-> IF b = Top THEN Result ELSE memo[b]]
  BY DEF Return, ReturnTo, Memoised, model
<1>2. /\ Len(calling) \in Nat /\ Top = calling[Len(calling)] /\ Top \in FormulaKeys
      /\ Cell(Top) \in FormulaCells /\ Cell(Top) \in Addresses
  BY <1>0, <1>1, TopIs
<1>3. Top \notin DOMAIN memo
  <2>1. Top \in OnStack
    BY <1>1, <1>2 DEF OnStack
  <2> QED BY <1>0, <2>1 DEF IInv, RecursionBounded
<1>4. /\ DOMAIN memo' = DOMAIN memo \cup {Top} /\ memo'[Top] = Result
      /\ \A b \in DOMAIN memo : memo'[b] = memo[b]
  BY <1>1, <1>3
<1>5. MemoGrows
  BY <1>1, <1>4 DEF MemoGrows
<1>6. Gains(M, Result) /\ Wanted(M) = Top
  BY <1>0, ReturnGains
<1>7. /\ M \in 1 .. Len(calling) - 1 /\ M + 1 = Len(calling)
  BY <1>1, <1>2
<1>8. /\ At(M) \in FormulaCells /\ Cell(Top) \in Precedents(At(M))
      /\ Len(operands[M]) + 1 \in DOMAIN formula[At(M)].refs
  <2> HIDE DEF M
  <2>1. Cell(Top) = At(M + 1)
    BY <1>2, <1>7 DEF At
  <2> QED BY <1>0, <1>7, <2>1, CallersAreAbove
<1>9. ASSUME MemoRight, OperandsRight
      PROVE  /\ At(M) \notin Cyclic => Result = Seen(At(M), Meaning)[Len(operands[M]) + 1]
             /\ \A b \in DOMAIN memo' : Cell(b) \notin Cyclic => memo'[b] = Meaning[Cell(b)]
  <2>1. Cell(Top) \notin Cyclic => Result = Meaning[Cell(Top)]
    BY <1>0, <1>1, <1>9, ResultRight
  <2>2. Seen(At(M), Meaning)[Len(operands[M]) + 1] = Meaning[Cell(Top)]
    BY <1>2, <1>6, <1>8, SeenAt DEF Wanted, ValueAt
  <2>3. At(M) \notin Cyclic => Cell(Top) \notin Cyclic
    BY <1>8, AcyclicBelow
  <2>4. \A b \in DOMAIN memo' : Cell(b) \notin Cyclic => memo'[b] = Meaning[Cell(b)]
    BY <1>4, <1>9, <2>1 DEF MemoRight
  <2> QED BY <2>1, <2>2, <2>3, <2>4
<1> HIDE DEF M
<1>11. ASSUME Sound
       PROVE  /\ \A c \in DOMAIN memo' \ DOMAIN memo :
                   c \in Plain' => /\ Reached(Cell(c)) \subseteq DOMAIN memo
                                   /\ memo'[c] = Apply(formula[Cell(c)], FoundAll(Cell(c)))
              /\ \A c, d \in DOMAIN memo' \ DOMAIN memo : c = d
              /\ \A b \in {Wanted(M)} : Known(b)' /\ Result = Found(b)'
  <2>1. \A c \in DOMAIN memo' \ DOMAIN memo : c = Top
    BY <1>4
  <2>2. ASSUME NEW c, c = Top, c \in Plain'
        PROVE  Reached(Cell(c)) \subseteq DOMAIN memo /\ memo'[c] = Apply(formula[Cell(c)], FoundAll(Cell(c)))
    <3>1. ~Stuck(Cell(c))'
      BY <2>2 DEF Plain
    <3>2. ~Stuck(Cell(c))
      BY <1>5, <3>1, FoundStays
    <3>3. \/ Stuck(Cell(Top)) /\ IsError(Result)
          \/ Reached(Cell(Top)) \subseteq DOMAIN memo /\ Result = Apply(formula[Cell(Top)], FoundAll(Cell(Top)))
      BY <1>0, <1>1, <1>11, ResultKnown DEF Sound, TopFormula
    <3> QED BY <1>4, <2>2, <3>2, <3>3
  <2>3. \A b \in {Wanted(M)} : Known(b)' /\ Result = Found(b)'
    <3>1. \A b : b = Top => Known(b)' /\ Result = Found(b)'
      <4>1. FormulaCells' = FormulaCells
        BY <1>1, GraphStays
      <4> QED BY <1>2, <1>4, <4>1 DEF Known, Found
    <3> QED BY <1>6, <3>1
  <2> QED BY <2>1, <2>2, <2>3
<1>12. Stack' /\ Sequences'
  BY <1>0, <1>6, GainKeepsStack DEF Gains
<1>13. MemoInv'
  BY <1>0, <1>1, <1>6, <1>9, MemoInvGain
<1>14. ReportInv'
  BY <1>0, <1>1, <1>5, <1>6, <1>11, ReportInvGain
<1> QED BY <1>12, <1>13, <1>14 DEF CInv

\* Steps that leave the activations alone, the memo too.
LEMMA UnmovedKeeps ==
  ASSUME IInv, Stack, Sequences, MemoInv,
         UNCHANGED <<formula, value, options, calling, operands, memo>>
  PROVE  /\ Stack' /\ Sequences' /\ MemoInv'
         /\ PlainFull /\ Grounded => PlainFull' /\ Grounded'
         /\ OperandsKnown => OperandsKnown'
         /\ \A a : Settled(a) => Settled(a)'
<1>1. MemoGrows
  BY DEF MemoGrows
<1>a. \A i : At(i)' = At(i)
  BY DEF At
<1>2. Stack'
  <2>1. Shape' /\ \A i : (Frame(i) => Frame(i)') /\ (Path(i) => Path(i)')
    BY <1>a DEF Stack, Shape, Frame, Path, Asks
  <2> QED BY <2>1 DEF Stack
<1>3. Sequences'
  BY DEF Sequences
<1>4. MemoInv'
  <2>1. DeepEnough' <=> DeepEnough
    BY DeepStays DEF IInv
  <2>2. SUFFICES ASSUME MemoRight, OperandsRight PROVE MemoRight' /\ OperandsRight'
    BY <2>1 DEF MemoInv
  <2>3. /\ Cyclic' = Cyclic /\ FormulaCells' = FormulaCells
        /\ \A c \in Addresses \ Cyclic : Meaning'[c] = Meaning[c]
        /\ \A c \in FormulaCells \ Cyclic : Seen(c, Meaning)' = Seen(c, Meaning)
    BY GraphStays, MeaningStays
  <2>4. \A j \in DOMAIN memo : Cell(j) \in Addresses
    BY KeyFacts DEF IInv, RecursionBounded, FormulaCells
  <2>5. MemoRight'
    BY <2>2, <2>3, <2>4 DEF MemoRight
  <2>6. OperandsRight'
    BY <1>a, <2>2, <2>3 DEF OperandsRight
  <2> QED BY <2>5, <2>6
<1>5. PlainFull /\ Grounded => PlainFull' /\ Grounded'
  BY <1>1, PlainStays DEF IInv
<1>6. ASSUME OperandsKnown PROVE OperandsKnown'
  <2>1. SUFFICES ASSUME NEW i \in 1 .. Len(calling), NEW j \in 1 .. Len(operands[i]),
                        NEW b, b = Key(At(i), formula[At(i)].refs[j])
                 PROVE  Known(b)' /\ operands[i][j] = Found(b)'
    BY <1>a DEF OperandsKnown
  <2>2. Known(b) /\ operands[i][j] = Found(b)
    BY <1>6, <2>1 DEF OperandsKnown
  <2> QED BY <1>1, <2>2, FoundStays
<1>7. \A a : Settled(a) => Settled(a)'
  BY <1>1, SettledStays
<1> QED BY <1>2, <1>3, <1>4, <1>5, <1>6, <1>7

LEMMA UnchangedKeeps ==
  ASSUME CInv, UNCHANGED <<formula, value, options, calling, operands, memo>>,
         UNCHANGED <<visited, report, runs>>, IInv',
         running' = running \/ (~running' /\ FormulaCells \subseteq visited)
  PROVE  CInv'
<1>0. IInv /\ Stack /\ Sequences /\ MemoInv /\ ReportInv
  BY DEF CInv
<1>1. Cyclic' = Cyclic /\ FormulaCells' = FormulaCells
  BY GraphStays
<1>2. ASSUME Sound PROVE Sound'
  BY <1>0, <1>2, UnmovedKeeps DEF Sound, VisitedSettled
<1>3. ReportInv'
  BY <1>0, <1>1, <1>2 DEF ReportInv
<1> QED BY <1>0, <1>3, UnmovedKeeps DEF CInv

LEMMA VisitKeeps ==
  ASSUME CInv, IInv', NEW a \in Addresses, VisitCell(a)
  PROVE  CInv'
<1>0. IInv /\ Stack /\ Sequences /\ MemoInv /\ ReportInv
  BY DEF CInv
<1>1. /\ UNCHANGED <<formula, value, options, running, visited, memo, report, runs>>
      /\ calling' = <<a>> /\ operands' = << <<>> >> /\ a \in FormulaCells
  BY DEF VisitCell
<1>2. Len(calling') = 1 /\ calling'[1] = a /\ Len(operands') = 1 /\ operands'[1] = <<>>
  BY <1>1
<1>a. At(1)' = a
  BY <1>2, KeyFacts DEF At
<1>3. Sequences'
  <2>1. << <<>> >> \in Seq({<<>>})
    OBVIOUS
  <2>2. IsSequence(operands')
    BY <1>1, <2>1 DEF IsSequence
  <2> QED BY <1>2, <2>2, EmptySequence DEF Sequences
<1>4. Stack'
  <2>1. a \in Addresses /\ formula[a] \in Formulas
    BY <1>0, <1>1 DEF FormulaCells, HasFormula, Stack, Shape
  <2>2. Len(formula[a].refs) \in Nat
    BY <2>1, FormulaAssumption
  <2>3. Len(<<>>) = 0 /\ \A j \in 1 .. 0 - 1 : FALSE
    OBVIOUS
  <2>4. Frame(1)'
    BY <1>1, <1>2, <1>a, <2>2, <2>3 DEF Frame
  <2>5. Shape'
    BY <1>0, <1>1, <1>2 DEF Stack, Shape
  <2>6. (\A i \in 1 .. 1 : i = 1) /\ (\A i \in 1 .. 1 - 1 : FALSE)
    OBVIOUS
  <2> QED BY <1>2, <2>4, <2>5, <2>6 DEF Stack
<1>5. \A i \in 1 .. Len(calling') : \A j \in 1 .. Len(operands'[i]) : FALSE
  BY <1>2, EmptySequence
<1>6. MemoGrows
  BY <1>1 DEF MemoGrows
<1>7. MemoInv'
  <2>1. DeepEnough' <=> DeepEnough
    BY <1>0, <1>1, DeepStays DEF IInv
  <2>2. SUFFICES ASSUME MemoRight PROVE MemoRight' /\ OperandsRight'
    BY <1>0, <2>1 DEF MemoInv
  <2>3. Cyclic' = Cyclic /\ \A c \in Addresses \ Cyclic : Meaning'[c] = Meaning[c]
    BY <1>1, GraphStays, MeaningStays
  <2>4. \A j \in DOMAIN memo : Cell(j) \in Addresses
    BY <1>0, KeyFacts DEF IInv, RecursionBounded, FormulaCells
  <2>5. MemoRight'
    BY <1>1, <2>2, <2>3, <2>4 DEF MemoRight
  <2> QED BY <1>5, <2>5 DEF OperandsRight
<1>8. ReportInv'
  <2>1. Cyclic' = Cyclic /\ FormulaCells' = FormulaCells
    BY <1>1, GraphStays
  <2>2. ASSUME Sound PROVE Sound'
    <3>1. PlainFull' /\ Grounded'
      BY <1>0, <1>1, <1>6, <2>2, PlainStays DEF Sound, IInv
    <3>2. VisitedSettled'
      BY <1>1, <1>6, <2>2, SettledStays DEF Sound, VisitedSettled
    <3>3. OperandsKnown'
      BY <1>5 DEF OperandsKnown
    <3> QED BY <3>1, <3>2, <3>3 DEF Sound
  <2> QED BY <1>0, <1>1, <2>1, <2>2 DEF ReportInv
<1> QED BY <1>3, <1>4, <1>7, <1>8 DEF CInv

LEMMA EmptyStackKeeps ==
  ASSUME Len(calling') = 0, operands' = <<>>,
         formula' \in [Addresses -> Formulas \cup {NoFormula}], DOMAIN value' = Addresses
  PROVE  Stack' /\ Sequences' /\ OperandsRight' /\ OperandsKnown'
<1>1. Len(operands') = 0 /\ IsSequence(operands')
  BY EmptySequence
<1>2. (\A i \in 1 .. 0 : FALSE) /\ (\A i \in 1 .. 0 - 1 : FALSE)
  OBVIOUS
<1> QED BY <1>1, <1>2 DEF Stack, Shape, Sequences, OperandsRight, OperandsKnown

\* The outermost activation stores what it read from the memo.
LEMMA StoreKeeps ==
  ASSUME CInv, IInv', Store
  PROVE  CInv'
<1>0. IInv /\ Stack /\ Sequences /\ MemoInv /\ ReportInv
  BY DEF CInv
<1>1. /\ UNCHANGED <<formula, options, running, memo, runs>>
      /\ calling' = <<>> /\ operands' = <<>> /\ calling # <<>> /\ ~WantsOperand
      /\ value' = IF options.update THEN [value EXCEPT ![Cell(Top)] = Result] ELSE value
      /\ report' = [report EXCEPT !.errors = @ \/ IsError(Result)]
      /\ visited' = visited \cup {Cell(Top)}
  BY DEF Store
<1>2. Cell(Top) \in FormulaCells /\ Cell(Top) \in Addresses /\ DOMAIN value = Addresses
  BY <1>0, <1>1, TopIs DEF Stack, Shape
<1>3. /\ DOMAIN value' = Addresses
      /\ \A b \in Addresses : b # Cell(Top) => value'[b] = value[b]
      /\ options.update => value'[Cell(Top)] = Result
  BY <1>1, <1>2
<1>4. MemoGrows
  BY <1>1, <1>2, <1>3 DEF MemoGrows
<1>5. Stack' /\ Sequences' /\ OperandsRight' /\ OperandsKnown'
  BY <1>0, <1>1, <1>3, EmptyStackKeeps DEF Stack, Shape
<1>6. MemoInv'
  <2>1. DeepEnough' <=> DeepEnough
    BY <1>0, <1>1, DeepStays DEF IInv
  <2>2. SUFFICES ASSUME MemoRight PROVE MemoRight'
    BY <1>0, <1>5, <2>1 DEF MemoInv
  <2>3. Cyclic' = Cyclic /\ \A c \in Addresses \ Cyclic : Meaning'[c] = Meaning[c]
    BY <1>1, <1>2, <1>3, GraphStays, MeaningStays
  <2>4. \A j \in DOMAIN memo : Cell(j) \in Addresses
    BY <1>0, KeyFacts DEF IInv, RecursionBounded, FormulaCells
  <2> QED BY <1>1, <2>2, <2>3, <2>4 DEF MemoRight
<1>7. /\ report' \in [circular : BOOLEAN, errors : BOOLEAN]
      /\ report'.circular = report.circular
      /\ report'.errors = (report.errors \/ IsError(Result))
  BY <1>0, <1>1 DEF ReportInv, IsError
<1>8. ReportInv'
  <2>1. Cyclic' = Cyclic /\ FormulaCells' = FormulaCells
    BY <1>1, GraphStays
  <2>2. ASSUME Sound PROVE Sound'
    <3>1. PlainFull' /\ Grounded'
      BY <1>0, <1>1, <1>4, <2>2, PlainStays DEF Sound, IInv
    <3>2. ASSUME ~report'.errors, NEW b \in visited' PROVE Settled(b)'
      <4>1. ~report.errors /\ ~IsError(Result)
        BY <1>7, <3>2
      <4>2. CASE b # Cell(Top)
        <5>1. Settled(b) /\ b \in Addresses
          BY <1>0, <1>1, <2>2, <3>2, <4>1, <4>2 DEF Sound, VisitedSettled, ReportInv, FormulaCells
        <5> QED BY <1>3, <1>4, <4>2, <5>1, SettledStays
      <4>3. CASE b = Cell(Top)
        <5>1. Reached(b) \subseteq DOMAIN memo /\ Result = Apply(formula[b], FoundAll(b))
          BY <1>0, <1>1, <2>2, <4>1, <4>3, ResultKnown DEF Sound, TopFormula
        <5>2. FoundAll(b)' = FoundAll(b) /\ Reached(b)' = Reached(b)
          BY <1>4, <5>1, FoundStays
        <5> QED BY <1>1, <1>3, <4>1, <4>3, <5>1, <5>2 DEF Settled
      <4> QED BY <4>2, <4>3
    <3>3. VisitedSettled'
      BY <3>2 DEF VisitedSettled
    <3> QED BY <1>5, <3>1, <3>3 DEF Sound
  <2> QED BY <1>0, <1>1, <1>2, <1>7, <2>1, <2>2 DEF ReportInv
<1> QED BY <1>5, <1>6, <1>8 DEF CInv

LEMMA CalculateKeeps ==
  ASSUME CInv, IInv', NEW update, NEW d, Calculate(update, d)
  PROVE  CInv'
<1>0. IInv /\ Stack /\ Sequences /\ ReportInv
  BY DEF CInv
<1>1. /\ UNCHANGED <<formula, value, calling, operands>>
      /\ calling = <<>> /\ running' /\ visited' = {} /\ memo' = <<>>
      /\ report' = [circular |-> FALSE, errors |-> FALSE]
  BY <1>0 DEF Calculate, IInv, model
<1>2. Len(calling') = 0 /\ operands' = <<>> /\ DOMAIN memo' = {}
  <2>1. Len(calling) = 0 /\ Len(operands) = 0
    BY <1>0, <1>1 DEF Stack, Shape
  <2>2. operands = <<>>
    BY <1>0, <2>1, EmptySequence, SameSequence DEF Sequences
  <2> QED BY <1>1, <2>1, <2>2
<1>3. Stack' /\ Sequences' /\ OperandsRight' /\ OperandsKnown'
  BY <1>0, <1>1, <1>2, EmptyStackKeeps DEF Stack, Shape
<1>4. MemoInv'
  BY <1>2, <1>3 DEF MemoInv, MemoRight
<1>5. Plain' = {}
  BY <1>2 DEF Plain
<1>6. Sound'
  BY <1>1, <1>3, <1>5 DEF Sound, PlainFull, Grounded, VisitedSettled
<1>7. ReportInv'
  BY <1>1, <1>6 DEF ReportInv
<1> QED BY <1>3, <1>4, <1>7 DEF CInv

LEMMA InitHolds ==
  ASSUME Init
  PROVE  CInv
<1>1. /\ calling = <<>> /\ operands = <<>> /\ visited = {} /\ memo = <<>> /\ runs = 0
      /\ report = [circular |-> FALSE, errors |-> FALSE]
      /\ formula \in [Addresses -> Formulas \cup {NoFormula}] /\ DOMAIN value = Addresses
  BY DEF Init
<1>2. IInv
  BY InitBounded
<1>3. Len(calling) = 0 /\ Len(operands) = 0 /\ IsSequence(operands) /\ DOMAIN memo = {}
  BY <1>1, EmptySequence
<1>4. (\A i \in 1 .. 0 : FALSE) /\ (\A i \in 1 .. 0 - 1 : FALSE)
  OBVIOUS
<1>5. Stack /\ Sequences /\ OperandsRight /\ OperandsKnown
  BY <1>1, <1>3, <1>4 DEF Stack, Shape, Sequences, OperandsRight, OperandsKnown
<1>6. MemoInv
  BY <1>3, <1>5 DEF MemoInv, MemoRight
<1>7. Plain = {}
  BY <1>3 DEF Plain
<1>8. Sound
  BY <1>1, <1>5, <1>7 DEF Sound, PlainFull, Grounded, VisitedSettled
<1>9. ReportInv
  BY <1>1, <1>8 DEF ReportInv
<1> QED BY <1>2, <1>5, <1>6, <1>9 DEF CInv

LEMMA StepHolds ==
  ASSUME Qualified, CInv, [Next]_vars
  PROVE  CInv'
<1>0. IInv
  BY DEF CInv
<1>1. CASE UNCHANGED vars
  <2>1. UNCHANGED <<formula, value, options, calling, operands, memo, visited, report, runs, running>>
    BY <1>1 DEF vars, model
  <2>2. IInv'
    BY <1>0, <2>1, SameStack
  <2> QED BY <2>1, <2>2, UnchangedKeeps
<1>2. CASE Next
  <2>0. IInv'
    BY <1>0, <1>2, StepBounded
  <2>1. ASSUME NEW a, ReadValue(a) \/ ReadCircular(a) \/ ReadMemo(a) \/ ReadTooDeep(a) \/ Descend(a)
        PROVE  CInv'
    BY <2>0, <2>1, ReadValueKeeps, ReadCircularKeeps, ReadMemoKeeps, ReadTooDeepKeeps, DescendKeeps
  <2>2. CASE Return
    BY <2>0, <2>2, ReturnKeeps
  <2>3. ASSUME NEW a \in Addresses, VisitCell(a) PROVE CInv'
    BY <2>0, <2>3, VisitKeeps
  <2>4. CASE Store
    BY <2>0, <2>4, StoreKeeps
  <2>5. CASE Finish
    BY <2>0, <2>5, UnchangedKeeps DEF Finish, model
  <2>6. ASSUME NEW update \in BOOLEAN, NEW d \in MaxDepths, Calculate(update, d) PROVE CInv'
    BY <2>0, <2>6, CalculateKeeps
  <2> QED BY <1>2, <2>1, <2>2, <2>3, <2>4, <2>5, <2>6 DEF Next, Step
<1> QED BY <1>1, <1>2

\* MemoCorrect and ReportTruthful follow.
LEMMA MemoCorrectHolds ==
  ASSUME CInv
  PROVE  MemoCorrect
BY DEF CInv, MemoInv, MemoRight, MemoCorrect

LEMMA FoundError ==
  ASSUME Stack, NEW a \in FormulaCells, NEW b \in References(a), IsError(Found(b)),
         formula[a].shape # "iferror"
  PROVE  IsError(Apply(formula[a], FoundAll(a)))
<1> DEFINE f == formula[a]
           t == FoundAll(a)
           n == Len(f.refs)
<1>1. f \in Formulas
  BY DEF FormulaCells, HasFormula, Stack, Shape
<1>2. f.refs \in Seq([sheet : Nat, cell : Nat])
  BY <1>1, FormulaAssumption
<1>3. n \in Nat /\ DOMAIN f.refs = 1 .. n
  BY <1>2
<1>4. PICK i \in 1 .. n : b = Key(a, f.refs[i])
  BY <1>3 DEF References
<1>5. t = [j \in 1 .. n |-> t[j]] /\ t[i] = Found(b)
  BY <1>3, <1>4 DEF FoundAll
<1>6. IsSequence(t) /\ Len(t) = n
  <2> HIDE DEF n, t
  <2> QED BY <1>3, <1>5, SequenceOf
<1> HIDE DEF f, t
<1>7. IsError(t[i]) /\ i \in 1 .. Len(t)
  BY <1>5, <1>6
<1>8. f.shape # "iferror"
  BY DEF f
<1>9. IsError(Apply(f, t))
  BY <1>6, <1>7, <1>8, ErrorShows
<1> QED BY <1>9 DEF f, t

LEMMA ReportTruthfulHolds ==
  ASSUME CInv
  PROVE  ReportTruthful
<1>0. Stack /\ ReportInv
  BY DEF CInv
<1>1. report.circular => Cyclic # {}
  BY <1>0 DEF ReportInv
<1>2. SUFFICES ASSUME runs > 0, ~running, options.update, ~report.circular, ~report.errors,
                      DeepEnough \/ ~ \E a \in FormulaCells : Hides(formula[a])
               PROVE  /\ Cyclic = {}
                      /\ \A a \in FormulaCells : value[a] = Apply(formula[a], Seen(a, value))
  BY <1>1 DEF ReportTruthful
<1>3. Sound /\ \A a \in FormulaCells : a \in visited
  BY <1>0, <1>2 DEF ReportInv
<1>4. \A a \in FormulaCells : /\ Reached(a) \subseteq DOMAIN memo
                              /\ ~IsError(Apply(formula[a], FoundAll(a)))
                              /\ value[a] = Apply(formula[a], FoundAll(a))
  BY <1>2, <1>3 DEF Sound, VisitedSettled, Settled
<1>5. ASSUME NEW a \in FormulaCells, NEW k \in Reached(a)
      PROVE  k \in Plain /\ Cell(k) \in FormulaCells /\ memo[k] = value[Cell(k)]
  <2>1. Cell(k) \in FormulaCells /\ k \in DOMAIN memo /\ k \in References(a)
    BY <1>4, <1>5 DEF Reached
  <2>2. ~Stuck(Cell(k))
    <3>1. SUFFICES ASSUME formula[Cell(k)].shape = "plus", NEW c \in References(Cell(k)), IsError(Found(c))
                   PROVE  FALSE
      BY DEF Stuck
    <3>2. formula[Cell(k)].shape # "iferror"
      BY <3>1
    <3> QED BY <1>0, <1>4, <2>1, <3>1, <3>2, FoundError
  <2>3. ~Cut(k)
    <3>1. SUFFICES ASSUME ~DeepEnough, IsError(memo[k]) PROVE FALSE
      BY DEF Cut
    <3>2. formula[a].shape # "iferror"
      BY <1>2, <3>1 DEF Hides
    <3>3. IsError(Found(k))
      BY <2>1, <3>1 DEF Found
    <3> QED BY <1>0, <1>4, <2>1, <3>2, <3>3, FoundError
  <2>4. k \in Plain
    BY <2>1, <2>2, <2>3 DEF Plain
  <2>5. memo[k] = Apply(formula[Cell(k)], FoundAll(Cell(k)))
    BY <1>3, <2>4 DEF Sound, PlainFull, Full
  <2> QED BY <1>4, <2>1, <2>4, <2>5
<1>6. ASSUME NEW a \in FormulaCells
      PROVE  value[a] = Apply(formula[a], Seen(a, value))
  <2>1. FoundAll(a) = Seen(a, value)
    <3>1. ASSUME NEW i \in DOMAIN formula[a].refs, NEW k, k = Key(a, formula[a].refs[i])
          PROVE  Found(k) = ValueAt(Cell(k), value)
      <4>1. CASE Cell(k) \in FormulaCells
        <5>1. k \in Reached(a)
          BY <3>1, <4>1 DEF Reached, References
        <5>2. Cell(k) \in Addresses
          BY <4>1 DEF FormulaCells
        <5> QED BY <1>5, <4>1, <5>1, <5>2 DEF Found, ValueAt
      <4>2. CASE Cell(k) \notin FormulaCells
        BY <4>2 DEF Found
      <4> QED BY <4>1, <4>2
    <3> QED BY <3>1 DEF FoundAll, Seen, Intended
  <2> QED BY <1>4, <2>1
<1>7. Cyclic = {}
  <2>1. SUFFICES ASSUME Cyclic # {} PROVE FALSE
    OBVIOUS
  <2> DEFINE C == {k \in Plain : Cell(k) \in Cyclic}
  <2>2. \A c \in Cyclic : c \in FormulaCells /\ Precedents(c) \cap Cyclic # {}
    BY CyclicIsFixed DEF Below
  <2>3. ASSUME NEW c \in Cyclic PROVE Reached(c) \cap C # {}
    <3>1. c \in FormulaCells
      BY <2>2
    <3>2. PICK b \in Precedents(c) : b \in Cyclic
      BY <2>2
    <3>3. PICK k \in Reached(c) : Cell(k) = b
      BY <3>1, ReachedPrecedes
    <3>4. k \in Plain
      BY <1>5, <3>1
    <3> QED BY <3>2, <3>3, <3>4
  <2>4. C # {}
    BY <2>1, <2>3
  <2>5. \E k \in C : Reached(Cell(k)) \cap C = {}
    BY <1>3, <2>4 DEF Sound, Grounded
  <2> QED BY <2>3, <2>5
<1> QED BY <1>6, <1>7

LEMMA InvariantHolds ==
  ASSUME Qualified
  PROVE  Spec => []CInv
<1>1. Init => CInv
  BY InitHolds
<1>2. CInv /\ [Next]_vars => CInv'
  BY StepHolds
<1> QED BY <1>1, <1>2, PTL DEF Spec

(* The memo of a call never depends on the cell it was filled from: on a   *)
(* workbook whose references name their sheets a formula that reaches no   *)
(* cycle is memoised with the value its cells give it, at any depth within *)
(* the limit (CalculationEngine.cpp, evaluateFormula and its memo).        *)
THEOREM MemoIsCorrect == Qualified /\ Spec => []MemoCorrect
<1> SUFFICES ASSUME Qualified PROVE Spec => []MemoCorrect
  OBVIOUS
<1>1. CInv => MemoCorrect
  BY MemoCorrectHolds
<1> QED BY <1>1, InvariantHolds, PTL

(* CalculationReport counts a circular reference only where there is a     *)
(* cycle, and a call that reports nothing has found none and left every    *)
(* formula with the value its operands give it, on every workbook whose    *)
(* references name their sheets.                                           *)
THEOREM ReportsAreTruthful == Qualified /\ Spec => []ReportTruthful
<1> SUFFICES ASSUME Qualified PROVE Spec => []ReportTruthful
  OBVIOUS
<1>1. CInv => ReportTruthful
  BY ReportTruthfulHolds
<1> QED BY <1>1, InvariantHolds, PTL
=============================================================================
