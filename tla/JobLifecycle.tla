---------------------------- MODULE JobLifecycle ----------------------------
(***************************************************************************)
(* What a client of the background job runner is promised about one job:   *)
(* the status it reads follows a fixed life cycle, an outcome is final, a  *)
(* job that was cancelled never ran.                                       *)
(***************************************************************************)
CONSTANT Jobs          \* job identifiers

VARIABLE status        \* the status a client reads, per job

Absent   == "absent"   \* the runner holds no record of the job yet

Move(j, from, to) == /\ status[j] = from
                     /\ status' = [status EXCEPT ![j] = to]

Submit(j)   == Move(j, Absent, "PENDING")
Start(j)    == Move(j, "PENDING", "RUNNING")
Complete(j) == Move(j, "RUNNING", "COMPLETED")
Fail(j)     == Move(j, "RUNNING", "FAILED")
Cancel(j)   == Move(j, "PENDING", "CANCELLED")

Init == status = [j \in Jobs |-> Absent]

Next == \E j \in Jobs : Submit(j) \/ Start(j) \/ Complete(j) \/ Fail(j) \/ Cancel(j)

Spec == Init /\ [][Next]_status
=============================================================================
