--------------------------- MODULE AtomicReplace ---------------------------
(***************************************************************************)
(* What saving to a path promises (docs/architecture.md, "Save" and the    *)
(* guarantee AtomicFile.h is written for): the destination changes only    *)
(* from one complete version to another, in one step, at the moment a save *)
(* succeeds; a save that throws, or that dies with the process, changes    *)
(* nothing.                                                                *)
(***************************************************************************)
EXTENDS Naturals

CONSTANTS Savers, Versions(_), NoFile

VARIABLES destination,  \* the version at the path, or NoFile
          saving,       \* saver -> the version it is saving, or NoFile
          outcome       \* saver -> how its last save ended

vars == <<destination, saving, outcome>>

Init ==
  /\ destination = NoFile
  /\ saving = [s \in Savers |-> NoFile]
  /\ outcome = [s \in Savers |-> "none"]

Begin(s) ==
  /\ saving[s] = NoFile
  /\ \E v \in Versions(s) : saving' = [saving EXCEPT ![s] = v]
  /\ outcome' = [outcome EXCEPT ![s] = "none"]
  /\ UNCHANGED destination

Commit(s) ==
  /\ saving[s] # NoFile
  /\ destination' = saving[s]
  /\ saving' = [saving EXCEPT ![s] = NoFile]
  /\ outcome' = [outcome EXCEPT ![s] = "saved"]

Fail(s) ==
  /\ saving[s] # NoFile
  /\ saving' = [saving EXCEPT ![s] = NoFile]
  /\ outcome' = [outcome EXCEPT ![s] = "threw"]
  /\ UNCHANGED destination

\* The process dies: every save under way is lost.
Crash ==
  /\ saving' = [s \in Savers |-> NoFile]
  /\ outcome' = [s \in Savers |-> "none"]
  /\ UNCHANGED destination

Next == Crash \/ \E s \in Savers : Begin(s) \/ Commit(s) \/ Fail(s)

Spec == Init /\ [][Next]_vars
=============================================================================
