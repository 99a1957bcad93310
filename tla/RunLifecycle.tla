---------------------------- MODULE RunLifecycle ----------------------------
(***************************************************************************)
(* What the platform promises about a queued run, without workers, queue   *)
(* reads, retries or rows: a run starts, reaches one terminal status for   *)
(* good, and leaves the queue only then.  A message that names no run is   *)
(* discarded.  Worker implements this for as long as only processes stop.  *)
(***************************************************************************)
CONSTANTS Runs,   (* the runs                                *)
          Valid   (* those whose message can be understood   *)

VARIABLES status, (* job_runs.status of each run             *)
          left    (* the runs whose message left the queue   *)

vars == <<status, left>>

Terminal == {"succeeded", "failed"}

Init ==
    /\ status = [r \in Runs |-> "pending"]
    /\ left = {}

Move(r, from, to) ==
    /\ r \in Valid \ left
    /\ status[r] \in from
    /\ status' = [status EXCEPT ![r] = to]
    /\ UNCHANGED left

Start(r)   == Move(r, {"pending"}, "running")
Succeed(r) == Move(r, {"running"}, "succeeded")
Fail(r)    == Move(r, {"pending", "running"}, "failed")

Leave(r) ==
    /\ r \in Runs \ left
    /\ r \in Valid => status[r] \in Terminal
    /\ left' = left \cup {r}
    /\ UNCHANGED status

Next == \E r \in Runs : Start(r) \/ Succeed(r) \/ Fail(r) \/ Leave(r)

Spec == Init /\ [][Next]_vars
=============================================================================
