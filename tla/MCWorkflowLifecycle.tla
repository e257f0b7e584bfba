------------------------ MODULE MCWorkflowLifecycle ------------------------
(* WorkflowLifecycle with one workflow worker: jobs follow each other while  *)
(* users send commands, and a worker crashes, a call fails or a lock runs    *)
(* out.  The events are bounded by the commands and the jobs.                *)
EXTENDS WorkflowLifecycle, TLC

CONSTANT MaxTrouble   \* bound on the faults and the jobs that are tried again, together

ASSUME WorkflowAssumption == LifecycleAssumption /\ MaxTrouble \in Nat

Trouble == faults + Cardinality({j \in Jobs : attempts[j] > 1})

TroubledSpec == Init /\ [][Next /\ Trouble' <= MaxTrouble]_vars
=============================================================================
