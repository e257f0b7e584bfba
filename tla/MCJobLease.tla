---------------------------- MODULE MCJobLease ----------------------------
(* Small instances of JobLease. *)
EXTENDS JobLease, TLC

CONSTANTS j1, j2, w1, n1, p1, p2

\* Two jobs of one workflow, j1 due before j2 whichever is inserted first.
OneWorkflow == [j \in Jobs |-> w1]

ByName == [j \in Jobs |-> IF j = j1 THEN 1 ELSE 2]

\* Every node takes one job.
OneSlot == [n \in Nodes |-> 1]
=============================================================================
