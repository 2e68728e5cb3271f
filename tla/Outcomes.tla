------------------------------ MODULE Outcomes ------------------------------
(***************************************************************************)
(* Steps of a computation that may fail.                                   *)
(***************************************************************************)
Fail == [ok |-> FALSE]                        \* an exception, or "not valid"
Then(r, F(_)) == IF r.ok THEN F(r) ELSE Fail  \* the next step, if r succeeded
With(x, F(_)) == F(x)
=============================================================================
