--------------------------- MODULE ChartCacheSync ---------------------------
(***************************************************************************)
(* The caches of chart series and the cells behind them:                   *)
(* Workbook::synchronizeChartCaches and synchronizeChangedChartCaches      *)
(* (src/src/XLPP/Workbook/WorkbookChartCache.cpp), with the change         *)
(* tracking of Worksheet::cell that feeds them, Workbook::calculate (see   *)
(* Calculation) and the save that resets the tracking.                     *)
(*                                                                         *)
(* A series stores the values its references had when the caches were last *)
(* built.  The incremental synchronisation rebuilds the caches with a      *)
(* tracked cell in their range, and asks the host to recalculate for the   *)
(* caches whose formulas depend on one.                                    *)
(***************************************************************************)
EXTENDS Naturals, FiniteSets, FiniteSetsExt

CONSTANTS Cells,            \* the cells of the sheet, in order
          Formulas,         \* the references a formula may have: sets of cells
          Loaded,           \* the formulas a loaded sheet may have, by cell
          Series,           \* the references a series may have, by kind
          MaxDepths,        \* the values of maxFormulaDependencyDepth
          MaxSteps          \* bound: calls of the program

ASSUME CellsAssumption == Cells \subseteq Nat \ {0} /\ IsFiniteSet(Cells)

ASSUME FormulasAssumption ==
    Formulas \subseteq SUBSET Cells /\ Loaded \subseteq [Cells -> SUBSET Cells]
ASSUME DepthsAssumption == MaxDepths \subseteq Nat
ASSUME SeriesAssumption ==
    Series \subseteq [{"categories", "values"} -> (SUBSET Cells) \cup {{0}}]

VARIABLES formula,          \* the references of each cell's formula, or {}
          value,            \* the value of each cell, Blank for none
          tracked,          \* trackedCellKeys_ and mutationRevision_
          series,           \* the references of the series, by kind
          cache,            \* the cached points of each kind, or NoCache
          recalculate,      \* fullCalcOnLoad and calcOnSave
          forgotten,        \* history: cells changed, not rebuilt, not tracked
          steps

vars == <<formula, value, tracked, series, cache, recalculate, forgotten, steps>>

Kinds       == {"categories", "values"}
Unsupported == {0}              \* a reference that cannot be parsed: no cell is 0
Blank       == 0
Inputs      == 1 .. 2           \* the values a program writes
NoCache     == <<>>

(* A formula has the largest of the values it refers to: enough to tell    *)
(* whether a change reached it.                                            *)
HasFormula(c) == formula[c] # {}

(* Below(n): the cells above n formulas in a row; Circular: without end.   *)
Circular ==
    LET below[n \in Nat] == IF n = 0 THEN {c \in Cells : HasFormula(c)}
                            ELSE {c \in Cells : formula[c] \cap below[n - 1] # {}}
    IN  below[Cardinality(Cells)]

(* What calculate stores; the value of a cell on a cycle is of no interest *)
(* here and stays.                                                         *)
Calculated ==
    LET level[n \in Nat] ==
          IF n = 0 THEN value
          ELSE [c \in Cells |-> IF HasFormula(c) /\ c \notin Circular
                                THEN Max({level[n - 1][p] : p \in formula[c]})
                                ELSE value[c]]
    IN  [c \in Cells |-> IF HasFormula(c) THEN level[Cardinality(Cells)][c] ELSE value[c]]

-----------------------------------------------------------------------------

(* buildChartCache: a blank cell has no point, but a formula nobody has    *)
(* calculated keeps the point it had.                                      *)
Built(range, old) ==
    [c \in range |-> IF value[c] # Blank THEN value[c]
                     ELSE IF HasFormula(c) /\ c \in DOMAIN old THEN old[c]
                     ELSE Blank]

Touched(range) == range \cap tracked # {}

(* formulaRangeTouchesTrackedCells, for a range without a tracked cell:    *)
(* depth first, cell by cell and reference by reference, through as many   *)
(* formulas in a row as the depth allows, with one set of visited cells    *)
(* for the whole search.                                                   *)
Searches(depth) ==
    [left : 0 .. depth, cells : SUBSET Cells, seen : SUBSET Cells]
At(left, cells, seen) == [left |-> left, cells |-> cells, seen |-> seen]

Result(hit, seen) == [hit |-> hit, seen |-> seen]

Found(search, s) ==
    LET c    == Min(s.cells)
        deep == IF s.left = 0 \/ ~HasFormula(c) \/ c \in s.seen
                THEN Result(FALSE, s.seen)
                ELSE search[At(s.left - 1, formula[c], s.seen \cup {c})]
    IN  IF s.cells = {} \/ c \in tracked THEN Result(s.cells # {}, s.seen)
        ELSE IF deep.hit THEN deep
        ELSE search[At(s.left, s.cells \ {c}, deep.seen)]

ReachesTracked(range, maxDepth) ==
    LET search[s \in Searches(maxDepth + 1)] == Found(search, s)
    IN  search[At(maxDepth + 1, range, {})].hit

(* Seeded fault: formulas of formulas are not searched.                    *)
TouchKindDirectOnly(range, maxDepth) ==
    IF Touched(range) THEN "direct"
    ELSE IF \E c \in range : Touched(formula[c]) THEN "formula"
    ELSE "none"

(* chartReferenceTouchKind                                                 *)
TouchKind(range, maxDepth) ==
    IF Touched(range) THEN "direct"
    ELSE IF maxDepth > 0 /\ ReachesTracked(range, maxDepth) THEN "formula"
    ELSE "none"

-----------------------------------------------------------------------------
Step == steps < MaxSteps /\ steps' = steps + 1

(* cell(c).setValue(v), through a fresh or a retained reference: a value   *)
(* written over a formula is its cached value.                             *)
Write(c, v) ==
    /\ Step
    /\ value' = [value EXCEPT ![c] = v]
    /\ tracked' = tracked \cup {c}
    /\ UNCHANGED <<formula, series, cache, recalculate, forgotten>>

(* cell(c).setFormula: the cached value stays.                             *)
SetFormula(c, refs) ==
    /\ Step
    /\ formula' = [formula EXCEPT ![c] = refs]
    /\ tracked' = tracked \cup {c}
    /\ UNCHANGED <<value, series, cache, recalculate, forgotten>>

(* cell(c) alone counts as a change, also when it is only read.            *)
Fetch(c) ==
    /\ Step
    /\ tracked' = tracked \cup {c}
    /\ UNCHANGED <<formula, value, series, cache, recalculate, forgotten>>

(* Seeded fault: calculate stores its values through const lookups.        *)
CalculateUntracked ==
    /\ Step
    /\ value' = Calculated
    /\ UNCHANGED <<formula, tracked, series, cache, recalculate, forgotten>>

(* Workbook::calculate fetches and stores every formula cell.              *)
Calculate ==
    /\ Step
    /\ value' = Calculated
    /\ tracked' = tracked \cup {c \in Cells : HasFormula(c)}
    /\ UNCHANGED <<formula, series, cache, recalculate, forgotten>>

(* save ends with clearDirty, which clears the tracking, as                *)
(* clearChartCacheChangeTracking does.                                     *)
ClearTracking ==
    /\ Step
    /\ tracked' = {} /\ forgotten' = forgotten \cup tracked
    /\ UNCHANGED <<formula, value, series, cache, recalculate>>

-----------------------------------------------------------------------------
Kind(changedOnly, maxDepth, k) ==
    IF series[k] = Unsupported THEN "unsupported"
    ELSE IF changedOnly THEN TouchKind(series[k], maxDepth) ELSE "direct"

(* Seeded fault: the tracking is cleared although only the caches of the   *)
(* values have been rebuilt.                                               *)
RebuiltValuesOnly(changedOnly, maxDepth) ==
    [k \in Kinds |-> IF k = "values" /\ Kind(changedOnly, maxDepth, k) = "direct"
                     THEN Built(series[k], cache[k]) ELSE cache[k]]

(* Each reference in turn: unsupported, unchanged, and stale ones keep     *)
(* their cache.                                                            *)
Rebuilt(changedOnly, maxDepth) ==
    [k \in Kinds |-> IF Kind(changedOnly, maxDepth, k) = "direct"
                     THEN Built(series[k], cache[k]) ELSE cache[k]]

(* synchronizeChartCaches: clearUnsupported drops all caches of a series   *)
(* with a reference that cannot be parsed, rebuilt or not.                 *)
Synchronize(changedOnly, maxDepth, clearUnsupported, clearTracking) ==
    /\ Step
    /\ cache' = IF clearUnsupported /\ \E k \in Kinds : series[k] = Unsupported
                THEN [k \in Kinds |-> NoCache]
                ELSE Rebuilt(changedOnly, maxDepth)
    /\ recalculate' = (recalculate \/
          \E k \in Kinds : Kind(changedOnly, maxDepth, k) = "formula")
    /\ tracked' = IF clearTracking THEN {} ELSE tracked
    /\ forgotten' = IF changedOnly THEN forgotten ELSE {}
    /\ UNCHANGED <<formula, value, series>>

(* A loaded workbook: any formulas, and caches that show what is stored.   *)
Init ==
    /\ formula \in Loaded
    /\ value = [c \in Cells |-> 1]
    /\ tracked = {} /\ forgotten = {}
    /\ series \in Series
    /\ cache = [k \in Kinds |-> IF series[k] = Unsupported THEN NoCache
                                ELSE [c \in series[k] |-> value[c]]]
    /\ recalculate = FALSE /\ steps = 0

Next ==
    \/ \E c \in Cells :
         \/ \E v \in Inputs \cup {Blank} : Write(c, v)
         \/ \E refs \in Formulas \cup {{}} : SetFormula(c, refs)
         \/ Fetch(c)
    \/ Calculate
    \/ ClearTracking
    \/ \E changedOnly, clearUnsupported, clearTracking \in BOOLEAN, d \in MaxDepths :
         Synchronize(changedOnly, d, clearUnsupported, clearTracking)

Spec == Init /\ [][Next]_vars

-----------------------------------------------------------------------------
(* What "depends on" means, without a search.                              *)
Above(n) ==
    LET above[k \in 0 .. n] == IF k = 0 THEN {c \in Cells : Touched(formula[c])}
                               ELSE {c \in Cells : formula[c] \cap above[k - 1] # {}}
    IN  UNION {above[k] : k \in 0 .. n}

Stale(range) == range \cap Above(Cardinality(Cells)) # {}

(* Every variable has its type; a cache has a place for every cell of its  *)
(* reference, blank or not.                                                *)
TypeOK ==
    /\ formula \in [Cells -> SUBSET Cells]
    /\ value \in [Cells -> Inputs \cup {Blank}]
    /\ tracked \subseteq Cells /\ forgotten \subseteq Cells
    /\ series \in Series
    /\ \A k \in Kinds :
         cache[k] # NoCache => cache[k] \in [series[k] -> Inputs \cup {Blank}]
    /\ recalculate \in BOOLEAN

(* The tracking loses nothing: a point of a cache that is not what the     *)
(* cell stores belongs to a cell still tracked, to one whose tracking was  *)
(* cleared without a synchronisation, or to a formula without a value.     *)
StalePointsAreTracked ==
    \A k \in Kinds : cache[k] # NoCache =>
      \A c \in series[k] \ (tracked \cup forgotten) :
        \/ cache[k][c] = value[c]
        \/ value[c] = Blank /\ HasFormula(c)

(* The search is exact when its depth is enough: an incremental            *)
(* synchronisation asks for recalculation if and only if a cache it leaves *)
(* alone shows a formula that depends, through any formulas, on a change.  *)
RequestsExactlyForStale ==
    [][\A d \in MaxDepths, u, t \in BOOLEAN :
         Synchronize(TRUE, d, u, t) /\ d >= Cardinality(Cells)
         => (recalculate' <=> recalculate \/ \E k \in Kinds :
               series[k] # Unsupported /\ ~Touched(series[k]) /\ Stale(series[k]))]_vars

(* Workbook.h: "If a chart source formula depends on a changed precedent,  *)
(* the existing chart cache is preserved [...] and host recalculation can  *)
(* be requested": whatever else the range holds.                           *)
EveryStaleFormulaIsRequested ==
    [][\A d \in MaxDepths, t \in BOOLEAN :
         Synchronize(TRUE, d, FALSE, t) /\ d >= Cardinality(Cells)
         => \A k \in Kinds :
              (\E c \in series[k] \cap Above(Cardinality(Cells)) : value[c] # Calculated[c])
              => recalculate']_vars

(* Workbook.h: maxFormulaDependencyDepth, the number of formulas followed: *)
(* a change that near is found.                                            *)
NearChangesFound ==
    [][\A d \in MaxDepths \ {0}, t \in BOOLEAN :
         Synchronize(TRUE, d, FALSE, t)
         => \A k \in Kinds : ~Touched(series[k]) /\ series[k] \cap Above(d) # {}
                              => recalculate']_vars

=============================================================================
