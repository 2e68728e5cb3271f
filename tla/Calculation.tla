---------------------------- MODULE Calculation ----------------------------
(***************************************************************************)
(* Workbook::calculate (src/src/XLPP/Workbook/Workbook.cpp) and the        *)
(* recursive evaluator behind it (src/src/XLPP/Formula/                    *)
(* CalculationEngine.cpp).                                                 *)
(*                                                                         *)
(* calculate visits the formula cells in storage order.  A reference to    *)
(* another formula cell evaluates that cell first, on an explicit stack of *)
(* cells under evaluation (against cycles) and with a memo shared by the   *)
(* whole call.  `calling` and `operands` are the activations of            *)
(* evaluateFormula; reading one reference of the innermost is one step.    *)
(*                                                                         *)
(* A worksheet is found whatever the case of its name, but the stack and   *)
(* the memo compare names as the formulas spell them.  So a cell is a      *)
(* sheet and a place on it, and a key a name of the sheet and the place:   *)
(* a cell has as many keys as its sheet has spellings.                     *)
(***************************************************************************)
EXTENDS Naturals, Sequences, FiniteSets, SequencesExt

CONSTANTS Grid,             \* Grid[s]: the number of cells of worksheet s
          Names,            \* Names[n]: the worksheet formulas mean by the name n
          Formulas,         \* the formulas a cell may hold
          Stored,           \* the values cells start with, cached or not
          MaxDepths,        \* the values of CalculationOptions::maxDepth
          MaxRuns           \* bound: calls of calculate

ASSUME GridAssumption  == Grid \in Seq(Nat \ {0})
(* The number of a worksheet is its own name; its other names are spelled  *)
(* with other capitals, and any other number is the name of none.          *)
ASSUME NamesAssumption ==
    /\ DOMAIN Names \subseteq Nat \ {0} /\ IsFiniteSet(DOMAIN Names)
    /\ Names \in [DOMAIN Names -> 1 .. Len(Grid)]
    /\ \A s \in 1 .. Len(Grid) : s \in DOMAIN Names /\ Names[s] = s
ASSUME FormulaAssumption ==
    Formulas \subseteq [shape : {"plus", "sum", "iferror"},
                        refs : Seq([sheet : Nat, cell : Nat])]
ASSUME DepthAssumption == MaxDepths \subseteq Nat \ {0} /\ MaxDepths # {}

VARIABLES formula,          \* the formula of each cell, or NoFormula
          value,            \* the value of each cell, cached if it has a formula
          touched,          \* the cells handed out for writing: trackedCellKeys_
          options,          \* CalculationOptions: update(CachedValues), maxDepth
          running,          \* calculate is executing
          visited,          \* the cells calculate has evaluated for themselves
          calling,          \* the keys under evaluation, outermost first
          operands,         \* the operands each of them has read
          memo,             \* the values found for the keys of formula cells
          report,           \* CalculationReport: which of its counts are not 0
          runs

model == <<formula, value, touched>>
vars  == <<model, options, running, visited, calling, operands, memo, report, runs>>

Here      == 0                  \* the sheet of a reference that names none
NoSheet   == 0                  \* what a name of no worksheet leads to
Sheets    == 1 .. Len(Grid)
Addresses == UNION {{s} \X (1 .. Grid[s]) : s \in Sheets}

-----------------------------------------------------------------------------
(* CellValue, as far as the formulas below tell it apart.                  *)
Number(n) == [kind |-> "number", number |-> n, error |-> ""]
Error(e)  == [kind |-> "error", number |-> 0, error |-> e]
Empty     == [kind |-> "empty", number |-> 0, error |-> ""]
Values    == [kind : {"number", "error", "empty"}, number : Nat, error : STRING]

IsError(v) == v.kind = "error"

(* =1+r1+r2... is a "plus", =SUM(r1,r2...) a "sum" and =IFERROR(r1,r2) an  *)
(* "iferror".                                                              *)
NoFormula == [shape |-> "none", refs |-> <<>>]

HasFormula(a) == formula[a] # NoFormula
FormulaCells  == {a \in Addresses : HasFormula(a)}

(* The cell a key leads to, and the keys that lead to a formula.           *)
Cell(k)     == <<IF k[1] \in DOMAIN Names THEN Names[k[1]] ELSE NoSheet, k[2]>>
Keys        == UNION {{n} \X (1 .. Grid[Names[n]]) : n \in DOMAIN Names}
FormulaKeys == {k \in Keys : HasFormula(Cell(k))}

Total(start, args) == FoldLeft(LAMBDA n, v : n + v.number, start, args)

(* The value of a formula from the operands it has read.  An error ends a  *)
(* chain of additions at once; unless it was the last operand, the parser  *)
(* meets the rest of the text and the formula is #VALUE!.                  *)
Apply(f, args) ==
    LET bad == SelectInSeq(args, IsError)
    IN  CASE f.shape = "iferror" -> IF bad = 1 THEN args[2] ELSE args[1]
          [] f.shape = "sum" ->
               IF bad # 0 THEN args[bad] ELSE Number(Total(0, args))
          [] OTHER ->
               IF bad = 0 THEN Number(Total(1, args))
               ELSE IF bad < Len(f.refs) THEN Error("#VALUE!") ELSE args[bad]

-----------------------------------------------------------------------------
(* The evaluation.                                                         *)

Top  == Last(calling)
Args == Last(operands)

TopFormula == formula[Cell(Top)]

(* Seeded fault: a cell stays on the stack when its evaluation ends.       *)
OnStackForGood == {calling[i] : i \in 2 .. Len(calling)} \cup DOMAIN memo

(* `stack`: the cell calculate visits itself is not on it.                 *)
OnStack == {calling[i] : i \in 2 .. Len(calling)}

(* The key of a reference read on the worksheet of the cell a, spelled as  *)
(* the formula spells it.                                                  *)
Key(a, ref) == <<IF ref.sheet = Here THEN a[1] ELSE ref.sheet, ref.cell>>

(* A reference that names no sheet is looked up on the sheet of the        *)
(* context, which every nested evaluator copies from its caller.           *)
Target(ref) == Key(Head(calling), ref)

(* The innermost activation has another operand to read.                   *)
WantsOperand ==
    /\ Len(Args) < Len(TopFormula.refs)
    /\ TopFormula.shape = "plus" => \A i \in DOMAIN Args : ~IsError(Args[i])

Reading(k) ==
    /\ calling # <<>>
    /\ WantsOperand
    /\ k = Target(TopFormula.refs[Len(Args) + 1])

(* The innermost activation gets the value of the reference it read.       *)
Receive(v) ==
    /\ operands' = [operands EXCEPT ![Len(operands)] = Append(@, v)]
    /\ UNCHANGED <<calling, model, options, running, visited, runs>>

(* What there is at an address: an unknown sheet, a cell that does not     *)
(* exist, or a cell.                                                       *)
ValueAt(a, vals) == IF a \in Addresses THEN vals[a]
                    ELSE IF a[1] \in Sheets THEN Empty ELSE Error("#REF!")

ReadValue(k) ==
    /\ Reading(k) /\ k \notin FormulaKeys
    /\ Receive(ValueAt(Cell(k), value))
    /\ UNCHANGED <<memo, report>>

(* Seeded fault: the parser returns before it has consumed the reference.  *)
ReadCircularAgain(k) ==
    /\ Reading(k) /\ k \in FormulaKeys /\ k \in OnStack
    /\ report' = [report EXCEPT !.circular = TRUE]
    /\ UNCHANGED <<model, options, running, visited, calling, operands, memo, runs>>

(* A key under evaluation: counted, and its cached value stands in.        *)
ReadCircular(k) ==
    /\ Reading(k) /\ k \in FormulaKeys /\ k \in OnStack
    /\ report' = [report EXCEPT !.circular = TRUE]
    /\ Receive(IF value[Cell(k)] = Empty THEN Number(0) ELSE value[Cell(k)])
    /\ UNCHANGED memo

ReadMemo(k) ==
    /\ Reading(k) /\ k \in FormulaKeys /\ k \notin OnStack
    /\ k \in DOMAIN memo
    /\ Receive(memo[k])
    /\ UNCHANGED <<memo, report>>

(* Seeded fault: the limit is compared with the depth of the caller.       *)
AtLimitOfCaller == Len(calling) - 1 >= options.maxDepth

(* The next activation would have depth Len(calling).                      *)
AtLimit == Len(calling) >= options.maxDepth

Memoised(k, v) == [j \in DOMAIN memo \cup {k} |-> IF j = k THEN v ELSE memo[j]]

(* The activation returns #NUM! at once; the caller memoises it.           *)
ReadTooDeep(k) ==
    /\ Reading(k) /\ k \in FormulaKeys \ (OnStack \cup DOMAIN memo)
    /\ AtLimit
    /\ Receive(Error("#NUM!"))
    /\ memo' = Memoised(k, Error("#NUM!"))
    /\ UNCHANGED report

Descend(k) ==
    /\ Reading(k) /\ k \in FormulaKeys \ (OnStack \cup DOMAIN memo)
    /\ ~AtLimit
    /\ calling' = Append(calling, k)
    /\ operands' = Append(operands, <<>>)
    /\ UNCHANGED <<model, options, running, visited, memo, report, runs>>

Result == Apply(TopFormula, Args)

(* The value goes to the activation below the top.                         *)
ReturnTo(k) ==
    /\ Len(calling) > 1 /\ ~WantsOperand
    /\ calling' = Front(calling)
    /\ operands' = [Front(operands) EXCEPT ![Len(operands) - 1] = Append(@, Result)]
    /\ memo' = Memoised(k, Result)
    /\ UNCHANGED <<model, options, running, visited, report, runs>>

(* Seeded fault: the value is memoised under the cell that asked for it.   *)
ReturnToAsker == ReturnTo(Last(Front(calling)))

(* A nested activation returns: leave the stack, memoise, answer.          *)
Return == ReturnTo(Top)

-----------------------------------------------------------------------------
(* Workbook::calculate                                                     *)

(* The order of sheets_ and of the packed cell keys.                       *)
Before(a, b) == a[1] < b[1] \/ (a[1] = b[1] /\ a[2] < b[2])

Calculate(update, maxDepth) ==
    /\ ~running /\ runs < MaxRuns
    /\ running' = TRUE /\ runs' = runs + 1
    /\ options' = [update |-> update, maxDepth |-> maxDepth]
    /\ visited' = {} /\ memo' = <<>>
    /\ report' = [circular |-> FALSE, errors |-> FALSE]
    /\ UNCHANGED <<model, calling, operands>>

(* The next formula cell is fetched with cell(), which tracks it, and is   *)
(* evaluated under the name its worksheet has.                             *)
VisitCell(a) ==
    /\ running /\ calling = <<>>
    /\ a \in FormulaCells \ visited
    /\ \A b \in FormulaCells \ visited : a = b \/ Before(a, b)
    /\ touched' = touched \cup {a}
    /\ calling' = <<a>> /\ operands' = << <<>> >>
    /\ UNCHANGED <<formula, value, options, running, visited, memo, report, runs>>

(* Seeded fault: the report is made from the value the cell had before.    *)
StoreAndReportOld ==
    /\ Len(calling) = 1 /\ ~WantsOperand
    /\ value' = IF options.update THEN [value EXCEPT ![Cell(Top)] = Result] ELSE value
    /\ report' = [report EXCEPT !.errors = @ \/ IsError(value[Cell(Top)])]
    /\ visited' = visited \cup {Cell(Top)}
    /\ calling' = <<>> /\ operands' = <<>>
    /\ UNCHANGED <<formula, touched, options, running, memo, runs>>

(* The outermost activation returns: report an error, store the value.     *)
Store ==
    /\ Len(calling) = 1 /\ ~WantsOperand
    /\ value' = IF options.update THEN [value EXCEPT ![Cell(Top)] = Result] ELSE value
    /\ report' = [report EXCEPT !.errors = @ \/ IsError(Result)]
    /\ visited' = visited \cup {Cell(Top)}
    /\ calling' = <<>> /\ operands' = <<>>
    /\ UNCHANGED <<formula, touched, options, running, memo, runs>>

Finish ==
    /\ running /\ calling = <<>> /\ FormulaCells \subseteq visited
    /\ running' = FALSE
    /\ UNCHANGED <<model, options, visited, calling, operands, memo, report, runs>>

(* A workbook anybody may have built: formulas of every sort, and whatever *)
(* values were loaded with them.                                           *)
Init ==
    /\ formula \in [Addresses -> Formulas \cup {NoFormula}]
    /\ value \in [Addresses -> Stored]
    /\ touched = {}
    /\ options = [update |-> TRUE, maxDepth |-> CHOOSE d \in MaxDepths : TRUE]
    /\ running = FALSE /\ visited = {} /\ memo = <<>>
    /\ calling = <<>> /\ operands = <<>>
    /\ report = [circular |-> FALSE, errors |-> FALSE]
    /\ runs = 0

(* The keys a reference can lead to, whatever sheet it is read on.         *)
Operands ==
    {Key(<<s, 0>>, r) : s \in Sheets, r \in UNION {Range(f.refs) : f \in Formulas}}

Step ==
    \/ \E k \in Operands :
         \/ ReadValue(k) \/ ReadCircular(k) \/ ReadMemo(k)
         \/ ReadTooDeep(k) \/ Descend(k)
    \/ Return
    \/ \E a \in Addresses : VisitCell(a)
    \/ Store
    \/ Finish

Next == Step \/ \E update \in BOOLEAN, d \in MaxDepths : Calculate(update, d)

(* calculate runs to its end; nobody has to call it.                       *)
Spec == Init /\ [][Next]_vars /\ WF_vars(Step)

-----------------------------------------------------------------------------
(* What the formulas mean, defined without the evaluator.                  *)

(* A reference without a sheet means the sheet its own formula is on.      *)
Intended(a, ref) == Cell(Key(a, ref))

Precedents(a) ==
    {b \in FormulaCells : \E i \in DOMAIN formula[a].refs : b = Intended(a, formula[a].refs[i])}

(* Chain(n): the formula cells below which n more are found in a row.      *)
Chain(n) ==
    LET chain[k \in Nat] == IF k = 0 THEN FormulaCells
                            ELSE {a \in FormulaCells : Precedents(a) \cap chain[k - 1] # {}}
    IN  chain[n]

Cyclic == Chain(Cardinality(FormulaCells))

(* The values `vals` of the cells under the formula of a.                  *)
Seen(a, vals) ==
    [i \in DOMAIN formula[a].refs |->
        ValueAt(Intended(a, formula[a].refs[i]), vals)]

(* Every formula cell that is on no cycle and above none, from the cells   *)
(* without a formula upwards.                                              *)
Meaning ==
    LET level[n \in Nat] ==
          IF n = 0 THEN value
          ELSE [a \in Addresses |-> IF HasFormula(a)
                                    THEN Apply(formula[a], Seen(a, level[n - 1]))
                                    ELSE value[a]]
    IN  level[Cardinality(FormulaCells)]

DeepEnough == \/ options.maxDepth > Cardinality(FormulaKeys)
              \/ Chain(options.maxDepth) = {}

Hides(f) == f.shape = "iferror"

-----------------------------------------------------------------------------
TypeOK ==
    /\ formula \in [Addresses -> Formulas \cup {NoFormula}]
    /\ value \in [Addresses -> Values] /\ touched \subseteq Addresses
    /\ options \in [update : BOOLEAN, maxDepth : MaxDepths]
    /\ report \in [circular : BOOLEAN, errors : BOOLEAN]
    /\ visited \subseteq FormulaCells
    /\ memo \in [DOMAIN memo -> Values]
    /\ operands \in Seq(Seq(Values)) /\ Len(operands) = Len(calling)

(* The evaluator cannot run away on any workbook: the recursion stays      *)
(* within maxDepth, no key is twice on the stack (a cell is on it at most  *)
(* once for every spelling of its worksheet), and only the keys of formula *)
(* cells that have left it have a memo.                                    *)
RecursionBounded ==
    /\ calling \in Seq(FormulaKeys) /\ Len(calling) <= options.maxDepth
    /\ \A i, j \in 2 .. Len(calling) : calling[i] = calling[j] => i = j
    /\ DOMAIN memo \subseteq FormulaKeys \ OnStack

(* The memo is shared by the whole call and filled from whichever cell     *)
(* came first, once for every spelling.  It never depends on that: a       *)
(* formula that reaches no cycle has the value its cells give it, however  *)
(* deep it was met and however its worksheet is spelled.                   *)
MemoCorrect ==
    DeepEnough =>
        \A k \in DOMAIN memo : Cell(k) \notin Cyclic => memo[k] = Meaning[Cell(k)]

(* The report can be trusted.  circularReferences counts cycles and        *)
(* nothing else: a formula met twice (a shared precedent, a reference      *)
(* repeated) is not one.  And a call that reports neither an error nor a   *)
(* circular reference has left every cached value equal to its formula     *)
(* over the values now stored, and the formulas have no cycle: nothing was *)
(* skipped, cut short or taken from before the call.  (IFERROR can hide a  *)
(* depth cut.)                                                             *)
ReportTruthful ==
    /\ report.circular => Cyclic # {}
    /\ (/\ runs > 0 /\ ~running /\ options.update
        /\ ~report.circular /\ ~report.errors
        /\ DeepEnough \/ ~ \E a \in FormulaCells : Hides(formula[a]))
       => /\ Cyclic = {}
          /\ \A a \in FormulaCells : value[a] = Apply(formula[a], Seen(a, value))

(* The evaluator ends on every workbook, whatever its cycles.              *)
Terminates == running ~> ~running

(* Calculation.h: with updateCachedValues off, calculation is              *)
(* "diagnostic-only and the workbook remains unchanged".                   *)
DiagnosticLeavesWorkbook == [][~options.update => UNCHANGED model]_vars

(* Calculation.h: depth is cut by "reporting #NUM!"; the report's errors   *)
(* then say so.                                                            *)
CutIsReported ==
    (runs > 0 /\ ~running /\ options.update /\ ~report.circular /\ ~report.errors)
    => \A a \in FormulaCells : value[a] = Apply(formula[a], Seen(a, value))

=============================================================================
