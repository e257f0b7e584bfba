---------------------------- MODULE JobLifecycle ----------------------------
(***************************************************************************)
(* What the tables and the execution workers promise of one job, whatever  *)
(* runs, crashes, repeats or is late: the order of its statuses, an owner  *)
(* exactly while it runs, a new epoch whenever it gets an owner, and a     *)
(* bounded number of runs.  JobLease implements this specification.        *)
(***************************************************************************)
EXTENDS Naturals

CONSTANTS Jobs, Processes, NoProcess,
          RetryLimit   \* how often a job may run

VARIABLE job   \* per job: its status, owner, epoch and number of runs

Waiting == {"PENDING", "QUEUED"}
Ended == {"COMPLETED", "FAILED", "CANCELED"}

States == [status : Waiting \cup Ended \cup {"ABSENT", "RUNNING"},
           owner : Processes \cup {NoProcess}, epoch : Nat, runs : Nat]

Init == job = [j \in Jobs |->
                  [status |-> "ABSENT", owner |-> NoProcess, epoch |-> 0, runs |-> 0]]

-----------------------------------------------------------------------------
(* The steps of a job, from x to y *)

Inserted(x, y) == x.status = "ABSENT" /\ y = [x EXCEPT !.status = "PENDING"]

Dispatched(x, y) == x.status = "PENDING" /\ y = [x EXCEPT !.status = "QUEUED"]

Deferred(x, y) == x.status = "QUEUED" /\ y = [x EXCEPT !.status = "PENDING"]

Claimed(x, y) ==
    /\ x.status = "QUEUED"
    /\ \E p \in Processes : y = [status |-> "RUNNING", owner |-> p,
                                 epoch |-> x.epoch + 1, runs |-> x.runs + 1]

TakenOver(x, y) ==
    /\ x.status = "RUNNING"
    /\ \E p \in Processes : y = [status |-> "RUNNING", owner |-> p,
                                 epoch |-> x.epoch + 1, runs |-> x.runs]

Released(x, y) ==
    /\ x.status = "RUNNING" /\ x.runs < RetryLimit
    /\ y = [status |-> "PENDING", owner |-> NoProcess, epoch |-> x.epoch, runs |-> x.runs]

\* Only a running job completes or fails; any job that has not ended is canceled.
Finished(x, y) ==
    \E s \in Ended :
        /\ x.status = "RUNNING" \/ (s = "CANCELED" /\ x.status \in Waiting)
        /\ y = [status |-> s, owner |-> NoProcess, epoch |-> x.epoch, runs |-> x.runs]

JobStep(x, y) ==
    \/ Inserted(x, y) \/ Dispatched(x, y) \/ Deferred(x, y) \/ Claimed(x, y)
    \/ TakenOver(x, y) \/ Released(x, y) \/ Finished(x, y)

\* Several jobs may move in one transaction.
Next ==
    /\ job' \in [Jobs -> States]
    /\ \A j \in Jobs : job'[j] = job[j] \/ JobStep(job[j], job'[j])

Spec == Init /\ [][Next]_job
=============================================================================
