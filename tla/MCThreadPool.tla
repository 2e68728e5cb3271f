----------------------------- MODULE MCThreadPool -----------------------------
(* ThreadPool for TLC: the ranges a caller asks for.                        *)
EXTENDS ThreadPool

\* Even and uneven chunks, fewer indices than workers, none at all, and one
\* whose three chunks all fail under Failing = {8, 9, 12}.
SomeRanges == {<<0, 2>>, <<1, 6>>, <<2, 2>>, <<6, 13>>}
=============================================================================
