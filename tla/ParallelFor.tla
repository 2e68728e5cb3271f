----------------------------- MODULE ParallelFor -----------------------------
(***************************************************************************)
(* What ThreadPool::parallelFor promises: a function is called on every      *)
(* index of a range, in any order and never twice; the call returns when     *)
(* all of them were made, or throws what the sequential loop would throw.    *)
(***************************************************************************)
EXTENDS Integers

CONSTANTS
  Ranges,   \* the ranges <<begin, end>> a caller can ask for
  Failing   \* the indices the function throws on

VARIABLES
  range,    \* the range of the current call
  calls,    \* how often the function was called on each index of the range
  thrown,   \* the index whose exception the call threw, in a set of its own
  outcome   \* "idle", "running", "returned" or "threw"

vars == <<range, calls, thrown, outcome>>

Indices(r) == r[1] .. r[2] - 1

\* The index the sequential loop throws on, in a set of its own.
FirstFailure(r) ==
  {i \in Indices(r) \intersect Failing : \A j \in Indices(r) \intersect Failing : i <= j}

Init == range \in Ranges /\ calls = <<>> /\ thrown = {} /\ outcome = "idle"

Start(r) ==
  /\ outcome \in {"idle", "returned"}
  /\ range' = r
  /\ calls' = [i \in Indices(r) |-> 0]
  /\ outcome' = IF Indices(r) = {} THEN "returned" ELSE "running"
  /\ UNCHANGED thrown

\* The calls still under way when another one threw go on.
Apply(i) ==
  /\ outcome \in {"running", "threw"}
  /\ calls[i] = 0
  /\ calls' = [calls EXCEPT ![i] = 1]
  /\ UNCHANGED <<range, thrown, outcome>>

Return ==
  /\ outcome = "running"
  /\ \A i \in Indices(range) : calls[i] = 1
  /\ FirstFailure(range) = {}
  /\ outcome' = "returned"
  /\ UNCHANGED <<range, calls, thrown>>

Throw ==
  /\ outcome = "running"
  /\ FirstFailure(range) # {}
  /\ \A i \in FirstFailure(range) : calls[i] = 1
  /\ outcome' = "threw"
  /\ thrown' = FirstFailure(range)
  /\ UNCHANGED <<range, calls>>

Next ==
  \/ \E r \in Ranges : Start(r)
  \/ \E i \in Indices(range) : Apply(i)
  \/ Return
  \/ Throw

Spec == Init /\ [][Next]_vars
=============================================================================
