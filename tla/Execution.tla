------------------------------ MODULE Execution ------------------------------
(***************************************************************************)
(* What one call of execute_snapshot_run promises the worker, however many *)
(* stages, pipelines and steps it runs: it writes at most one page, and it *)
(* does not return before that page exists.  It may raise although the     *)
(* page was created, and it may be stopped at any point.                   *)
(***************************************************************************)
EXTENDS Naturals

VARIABLES writes,     \* allow_destination_writes, the same for every call
          state,      \* "off", "running", "written", "returned" or "raised"
          pages       \* the pages created by all calls so far

vars == <<writes, state, pages>>

Init == writes \in BOOLEAN /\ state = "off" /\ pages = 0

Move(from, to) == state \in from /\ state' = to

Begin  == Move({"off", "returned", "raised"}, "running") /\ UNCHANGED pages
Refuse == Move({"off", "returned", "raised"}, "raised") /\ UNCHANGED pages
Write  == writes /\ Move({"running"}, "written") /\ pages' = pages + 1
Return == Move({IF writes THEN "written" ELSE "running"}, "returned") /\ UNCHANGED pages
Raise  == /\ Move({"running"}, "raised")
          /\ \/ UNCHANGED pages
             \/ writes /\ pages' = pages + 1
Stop   == Move({"running", "written"}, "off") /\ UNCHANGED pages

Next == /\ Begin \/ Refuse \/ Write \/ Return \/ Raise \/ Stop
        /\ UNCHANGED writes

Spec == Init /\ [][Next]_vars
=============================================================================
