---------------------------- MODULE ResearchJobs ----------------------------
(***************************************************************************)
(* What the table of jobs promises a client that polls it until it sees a  *)
(* terminal status: a job is asked for once, its row moves forward only,   *)
(* and its outcome is never rewritten.  The store does not see to it, for  *)
(* it writes any status over any other; whoever runs a job has to.         *)
(*                                                                         *)
(* Several writes with no await between them are one step, for no client   *)
(* sees what is between: a handler may fail a job its worker just ended    *)
(* well.  A row may stay where it is for ever, which it does when the      *)
(* process of its job dies.                                                *)
(***************************************************************************)
CONSTANT Jobs
VARIABLE row \* the status of each job, "none" before it is asked for

Init == row = [j \in Jobs |-> "none"]

Outcomes == {"succeeded", "failed"}

Later(status) ==
    CASE status = "none" -> {"queued", "running"} \cup Outcomes
      [] status = "queued" -> {"running"} \cup Outcomes
      [] status = "running" -> Outcomes
      [] OTHER -> {}

Advance(j) == \E status \in Later(row[j]) : row' = [row EXCEPT ![j] = status]

Next == \E j \in Jobs : Advance(j)

Spec == Init /\ [][Next]_row
=============================================================================
