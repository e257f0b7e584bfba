---------------------------- MODULE WorkflowReads ---------------------------
(***************************************************************************)
(* The workflows-service over its repository: GetWorkflow and              *)
(* ListWorkflows are cached, the internal GetWorkflowByID is not.  Every   *)
(* write commits first and invalidates in a goroutine; a write whose       *)
(* commit was not confirmed, or whose process died, invalidates nothing.   *)
(***************************************************************************)
EXTENDS ReadThrough

item == "workflow"
list == "workflows"
byId == "workflow_by_id"

Init == ReadInit("absent")

Write(from, to, ops) ==
    /\ commits < MaxCommits /\ state = from
    /\ commits' = commits + 1 /\ state' = to
    /\ Spawn(ops) \/ UNCHANGED bg
    /\ UNCHANGED <<cache, flight, caller>>

\* invalidateWorkflowCache, then invalidateWorkflowsCache.
Invalidate == <<Del(item), Del(list)>>

\* A replay returns the response stored with the command, not the row.
CreateReplayFaulty ==
    /\ commits > 0 /\ Spawn(<<Del(list), Fill(item, 1)>>)
    /\ UNCHANGED <<commits, state, cache, flight, caller>>
CreateReplay ==
    /\ commits > 0 /\ Spawn(<<Del(list)>>)
    /\ UNCHANGED <<commits, state, cache, flight, caller>>

CreateWorkflow ==
    \/ commits = 0 /\ Write("absent", "active", <<Del(list), Fill(item, 1)>>)
    \/ CreateReplay

UpdateWorkflow == Write("active", "active", Invalidate)
UpdateWorkflowBuildStatus == Write("active", "active", Invalidate)
IncrementWorkflowConsecutiveJobFailuresCount ==
    \/ Write("active", "active", Invalidate)
    \/ Write("active", "terminated", Invalidate)
ResetWorkflowConsecutiveJobFailuresCount == Write("active", "active", Invalidate)
TerminateWorkflow == Write("active", "terminated", Invalidate)
DeleteWorkflow == Write("terminated", "absent", Invalidate)

\* GetWorkflow refreshes the item and clears the lists, ListWorkflows caches
\* its page, GetWorkflowByID does neither.
GetWorkflow ==
    \/ Query(item, state # "absent")
    \/ Land(item, <<Del(list), Fill(item, flight[item].v)>>)
ListWorkflows == Query(list, TRUE) \/ Land(list, <<Fill(list, flight[list].v)>>)
GetWorkflowByIDFaulty ==
    \/ /\ flight[byId].step = "open" /\ cache[item].has
       /\ flight' = [flight EXCEPT ![byId].step = "done", ![byId].ok = TRUE,
                                   ![byId].v = cache[item].v]
       /\ UNCHANGED <<commits, state, cache, bg, caller>>
    \/ Query(byId, state # "absent") \/ Land(byId, <<>>)
GetWorkflowByID == Query(byId, state # "absent") \/ Land(byId, <<>>)

Next ==
    \/ ReadNext
    \/ CreateWorkflow \/ UpdateWorkflow \/ UpdateWorkflowBuildStatus
    \/ IncrementWorkflowConsecutiveJobFailuresCount
    \/ ResetWorkflowConsecutiveJobFailuresCount
    \/ TerminateWorkflow \/ DeleteWorkflow
    \/ GetWorkflow \/ ListWorkflows \/ GetWorkflowByID

Spec == Init /\ [][Next]_vars

\* Queries run on.  Strong fairness: Goroutines is a bound of the model, in the
\* code a flight never waits for a goroutine to start.
Fairness ==
    ReadFairness /\ SF_vars(GetWorkflow) /\ SF_vars(ListWorkflows) /\ SF_vars(GetWorkflowByID)
FairSpec == Spec /\ Fairness
=============================================================================
