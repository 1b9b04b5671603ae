------------------------------- MODULE RunOnce -------------------------------
(***************************************************************************)
(* FactoryWorkflow.run_once: the sequential runner.  Up to MaxIterations   *)
(* times it plans, synthesises, stages, tests and reviews; the edges below *)
(* decide whether an iteration ends the run, hands it to a human (HITL) or *)
(* starts the next one.  Any exception of a node is recorded and handled   *)
(* by HandleException, unless recording it raises again.                   *)
(***************************************************************************)
EXTENDS WorkflowNodes

CONSTANTS
    MaxIterations,  \* the max_iterations parameter (6 in the code)
    HitlEnabled     \* HITLController.enabled, from HITL_ENABLED

ASSUME RunOnceAssumption ==
    /\ MaxIterations \in Nat \ {0}
    /\ HitlEnabled \in BOOLEAN

VARIABLE iteration    \* the loop variable of run_once

vars == <<nodeVars, iteration>>

TypeOK ==
    /\ NodesTypeOK
    /\ iteration \in 0..(MaxIterations - 1)

Init == NodesInit /\ iteration = 0

-----------------------------------------------------------------------------
\* Edges

\* Mutant: the failure history is not looked at.
InterruptOnCounters == HitlEnabled /\ Exceeded(counters)

\* HITLController.should_interrupt, after the failure was recorded.
InterruptNext == HitlEnabled /\ ShouldInterrupt(counters, history')

\* Mutant: one iteration more.
NextIterationInclusive ==
    IF iteration + 1 <= MaxIterations
    THEN Goto("planner") /\ iteration' = iteration + 1
    ELSE Goto("hitl_last") /\ UNCHANGED iteration

\* The end of an iteration that neither passed nor was handed over: the next
\* iteration or, after the last one, HITL whether or not it is enabled.
NextIteration ==
    IF iteration + 1 < MaxIterations
    THEN Goto("planner") /\ iteration' = iteration + 1
    ELSE Goto("hitl_last") /\ UNCHANGED iteration

EscalateOrRetry ==
    IF InterruptNext THEN Goto("hitl") /\ UNCHANGED iteration
                     ELSE NextIteration

\* Mutant: the edge of a clean tree leads back to the drift node.
AfterDriftRepeats ==
    /\ pc = "after_drift"
    /\ drift = "no-drift"
    /\ Goto("drift")
    /\ UNCHANGED <<stateVars, stagingVars, resultVars, diskVars, todo, outcome,
                   iteration>>

AfterDriftClean ==
    /\ pc = "after_drift"
    /\ drift = "no-drift"
    /\ Goto("sandbox")
    /\ UNCHANGED <<stateVars, stagingVars, resultVars, diskVars, todo, outcome,
                   iteration>>

\* The drift is recorded unless the last failure, of whatever iteration, is a
\* security violation.
AlreadyRecorded == lastFailure.type = "SECURITY_VIOLATION"

AfterDriftFound ==
    /\ pc = "after_drift"
    /\ drift # "no-drift"
    /\ \/ /\ ~AlreadyRecorded
          /\ ValidRecord(counters.total, FALSE, TraceOK)
          /\ RecordFailure("SPEC_DRIFT", "drift", counters.total)
       \/ AlreadyRecorded /\ NothingRecorded
    /\ CleanupStaging
    /\ IF iteration = 0 THEN NextIteration ELSE EscalateOrRetry
    /\ UNCHANGED <<counters, patches, entryCount, resultVars, diskVars, todo,
                   outcome>>

AfterDriftUnrecordable ==
    /\ pc = "after_drift"
    /\ drift # "no-drift"
    /\ ~AlreadyRecorded
    /\ \E e \in RecordingErrors(FALSE) : Raise(e)
    /\ UNCHANGED <<stateVars, stagingVars, resultVars, diskVars, todo, outcome,
                   iteration>>

AfterReviewer ==
    /\ pc = "after_reviewer"
    /\ CASE DecideAfterReview(review.verdict, review.ftype, counters) = "end" ->
                Goto("artifact") /\ UNCHANGED iteration
         [] DecideAfterReview(review.verdict, review.ftype, counters) = "hitl" ->
                Goto("hitl") /\ UNCHANGED iteration
         [] OTHER -> NextIteration
    /\ UNCHANGED <<stateVars, stagingVars, resultVars, diskVars, todo, outcome>>

\* The except clause: record the exception, then escalate or retry.
HandleException ==
    /\ pc = "except"
    /\ ValidRecord(counters.total, exc.multiline, TraceOK)
    /\ RecordFailure(FromException(exc), "workflow", counters.total)
    /\ exc' = NoException
    /\ IF InterruptNext \/ iteration + 1 = MaxIterations
       THEN pc' = "hitl_last" /\ UNCHANGED iteration
       ELSE pc' = "planner" /\ iteration' = iteration + 1
    /\ UNCHANGED <<counters, patches, entryCount, stagingVars, resultVars,
                   diskVars, todo, outcome>>

\* Recording raises inside the except clause: run_once itself raises.
CrashInHandler ==
    /\ pc = "except"
    /\ exc' \in RecordingErrors(exc.multiline)
    /\ outcome' = "CRASH"
    /\ pc' = "done"
    /\ UNCHANGED <<stateVars, stagingVars, resultVars, diskVars, todo,
                   iteration>>

\* Where an iteration begins.
IterStart == IF iteration = 0 THEN "load_spec" ELSE "planner"

\* The event that announces an iteration comes before the try clause.
IterStartFails ==
    /\ pc = IterStart
    /\ exc' \in Exceptions
    /\ outcome' = "CRASH"
    /\ pc' = "done"
    /\ UNCHANGED <<stateVars, stagingVars, resultVars, diskVars, todo,
                   iteration>>

\* The interrupt after the last iteration, or from the except clause: nothing
\* catches what its warning raises.
DoHitlLast ==
    /\ pc = "hitl_last"
    /\ CleanupStaging
    /\ \/ outcome' = "HITL" /\ UNCHANGED exc
       \/ outcome' = "CRASH" /\ exc' \in Exceptions
    /\ pc' = "done"
    /\ UNCHANGED <<stateVars, resultVars, diskVars, todo, iteration>>

-----------------------------------------------------------------------------
\* Next-state relation

Nodes ==
    \/ LoadSpec("planner")
    \/ Planner("engineer")
    \/ Engineer("drift")
    \/ DriftPrepare
    \/ \E f \in Files : StagePatch(f, "after_drift")
    \/ DriftVerify("after_drift")
    \/ Sandbox("reviewer")
    \/ Reviewer("after_reviewer")
    \/ ArtifactEnter
    \/ \E f \in Files : DropPatch(f)
    \/ ArtifactDone
    \/ DoHitl

Edges ==
    \/ AfterDriftClean
    \/ AfterDriftFound
    \/ AfterDriftUnrecordable
    \/ AfterReviewer
    \/ HandleException
    \/ CrashInHandler
    \/ IterStartFails
    \/ DoHitlLast

\* The steps of the program, and those of its environment.
Run == ((Nodes /\ UNCHANGED iteration) \/ Edges) /\ UNCHANGED setup
Human == (\E f \in Files : HumanEdit(f)) /\ UNCHANGED iteration

Next ==
    \/ Run
    \/ Human
    \/ Ended /\ UNCHANGED iteration

Spec == Init /\ [][Next]_vars

\* run_once is a single thread whose every call returns: each LLM call, test
\* run and file operation ends with a result or an exception.
FairSpec == Spec /\ WF_vars(Run)

-----------------------------------------------------------------------------
\* Safety properties

\* The repair loop is bounded: with HITL enabled the planner is never started
\* more than MaxRepair times (AttemptCounters.exceeded is consulted on every
\* path back to it), otherwise at most once an iteration.
AttemptsBounded ==
    counters.planner <= IF HitlEnabled THEN MaxRepair ELSE MaxIterations

\* A failure that calls for a human stops the repair loop: no attempt starts
\* after one, except after the drift failure of the first iteration, which
\* run_once defers and which is then the first record of the history.
TriggersStopRepair ==
    HitlEnabled /\ pc = "planner" =>
        \A i \in DOMAIN history : history[i].type \in HitlTriggers =>
            i = 1 /\ history[i].node = "drift" /\ history[i].attempt = 2

\* The two deciders agree: whatever edge handed the run over, the persistent
\* state justifies it, or the iterations are used up.
HitlJustified ==
    outcome = "HITL" =>
        \/ ShouldInterrupt(counters, history)
        \/ iteration + 1 = MaxIterations

\* With one section for each file and bodies that hold no tokens, what a run
\* that passes leaves in a patched file is, line for line, what the staging
\* directory held when its tests ran, if no human interfered.  (With Docker only
\* tests/ of that directory is uploaded: the sources are staged, not tested.)
DroppedIsTested ==
    outcome = "PASS" /\ edits = 0 =>
        \A f \in PatchedFiles \ StorageFiles : disk.tree[f] = work.tree[f]

\* A run that ends in order names no staging directory any more.  Every one it
\* lost is accounted for: one that state never came to name by a failure on
\* record, one that could not be removed by the iteration that made it.
RecordedNodeFailures ==
    {i \in DOMAIN history : history[i].node \in {"drift", "workflow"}}
StagingAccounted ==
    /\ outcome \in {"PASS", "HITL"} => ~stagingDir
    /\ leaked <= Cardinality(RecordedNodeFailures)
                   + IF pc = "except" \/ outcome = "CRASH" THEN 1 ELSE 0
    /\ leaked + undeleted + (IF stagingDir THEN 1 ELSE 0) <= iteration + 1

\* A failure that cannot be recorded is never retried: with traces kept in
\* another directory of the project no run makes a second attempt or reaches a
\* human, with traces outside of it no review failure leads to another attempt.
UnrecordableStops ==
    /\ ~TraceOK => counters.planner <= 1 /\ outcome # "HITL"
    /\ ~SandboxTraceOK /\ review.verdict = "FAIL"
           => pc = "except" \/ outcome = "CRASH"

-----------------------------------------------------------------------------
\* Action properties

\* The program changes the real tree only in a drop whose patches are the ones
\* this iteration staged, found free of drift, tested and reviewed: no result
\* of an earlier iteration lets a later patch through.
DropsOnlyTested ==
    [][disk' # disk /\ edits' = edits =>
         /\ pc = "drop"
         /\ drift = "no-drift" /\ sandbox.passed /\ review.verdict = "PASS"
         /\ \A f \in PatchedFiles : HasSection(work.tree[f], patches[f])]_vars

\* The record a run hands to the human is the latest one: the failure that
\* becomes ephemeral.last_failure, which the planner reads, is the last of the
\* bounded history, from which the HITL payload is built.
LastFailureIsLatest ==
    [][lastFailure' # lastFailure =>
         /\ history'[Len(history')] = lastFailure'
         /\ Len(history') <= MaxFailures]_vars

-----------------------------------------------------------------------------
\* Liveness

\* A run ends: with PASS, at a human, or in a crash of the except clause.
Terminates == <>(outcome # "running")

-----------------------------------------------------------------------------
\* The inductive invariant behind TypeOK, AttemptsBounded and
\* SecurityNeverPasses

TypeInv == TypeOK /\ NodesInv

\* The planner has run once in each iteration that got to it.  An iteration that
\* failed to begin, or to load the specifications, did not, and was the last.
AttemptsMatchIterations ==
    /\ pc = "load_spec" => counters.total = 0
    /\ pc \in {"load_spec", "planner"} => counters.planner = iteration
    /\ pc \notin {"load_spec", "planner"} =>
          \/ counters.planner = iteration + 1
          \/ /\ counters.planner = iteration
             /\ \/ pc = "except" /\ counters.total = 0
                \/ pc = "done" /\ outcome = "CRASH"

\* With HITL enabled, no attempt starts when the attempts are used up.
PlannerHasRoom ==
    HitlEnabled => /\ pc \in {"load_spec", "planner"}
                          => counters.planner < MaxRepair
                   /\ counters.planner <= MaxRepair

AttemptInv == TypeInv /\ AttemptsMatchIterations /\ PlannerHasRoom

SecurityInv ==
    /\ TypeInv
    /\ EndedIsDone /\ TraversalKeepsPatch /\ DroppedWritable

-----------------------------------------------------------------------------
\* What comments of the repository say of a run, and the code does not do

\* failure_types.py and workflow.py: a security violation interrupts at once;
\* only the SPEC_DRIFT of the first iteration is deferred.
SecurityStopsRepair ==
    HitlEnabled /\ pc = "planner" => TraversalRecords = {}

\* _n_engineer: merging the patch history keeps the repairs made earlier, so a
\* run that passes drops the tree it tested.
MergeKeepsRepairs == DroppedIsTested
=============================================================================
