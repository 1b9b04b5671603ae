---------------------------- MODULE FactoryGraph ----------------------------
(***************************************************************************)
(* FactoryWorkflow.as_graph: the nodes compiled into a LangGraph graph.    *)
(* The graph has only the edges of as_graph: a drift goes straight back to *)
(* the planner, and an exception of a node ends the invocation.  LangGraph *)
(* itself stops a graph after RecursionLimit node executions.              *)
(***************************************************************************)
EXTENDS WorkflowNodes

CONSTANT RecursionLimit    \* LangGraph's default is 25

ASSUME GraphAssumption == RecursionLimit \in Nat \ {0}

VARIABLE steps    \* node executions so far

vars == <<nodeVars, steps>>

TypeOK ==
    /\ NodesTypeOK
    /\ steps \in 0..RecursionLimit

Init == NodesInit /\ steps = 0

-----------------------------------------------------------------------------
\* Supersteps

EntryPoint == {"load_spec", "planner", "engineer", "drift", "sandbox",
               "reviewer", "artifact", "hitl"}

\* Starting a node takes one of the supersteps, the rest of it none.
Superstep == steps < RecursionLimit /\ steps' = steps + 1

\* Mutant: the edge of the planner skips the engineer.
StartNodeSkipping ==
    /\ Superstep
    /\ \/ LoadSpec("planner")
       \/ Planner("drift")
       \/ DriftPrepare
       \/ Sandbox("reviewer")
       \/ Reviewer("after_reviewer")
       \/ ArtifactEnter
       \/ DoHitl

StartNode ==
    /\ Superstep
    /\ \/ LoadSpec("planner")
       \/ Planner("engineer")
       \/ Engineer("drift")
       \/ DriftPrepare
       \/ Sandbox("reviewer")
       \/ Reviewer("after_reviewer")
       \/ ArtifactEnter
       \/ DoHitl

ContinueNode ==
    /\ \/ \E f \in Files : StagePatch(f, "after_drift")
       \/ DriftVerify("after_drift")
       \/ \E f \in Files : DropPatch(f)
       \/ ArtifactDone
    /\ UNCHANGED steps

-----------------------------------------------------------------------------
\* Edges

\* Mutant: a drifted tree is verified again as it is.
AfterDriftVerifyAgain ==
    /\ pc = "after_drift"
    /\ Goto(IF drift = "no-drift" THEN "sandbox" ELSE "stage")
    /\ UNCHANGED <<stateVars, stagingVars, resultVars, diskVars, todo, outcome,
                   steps>>

\* The conditional edge reads the drift result and changes nothing: the drift
\* is not recorded and the staging directory is kept.
AfterDrift ==
    /\ pc = "after_drift"
    /\ Goto(IF drift = "no-drift" THEN "sandbox" ELSE "planner")
    /\ UNCHANGED <<stateVars, stagingVars, resultVars, diskVars, todo, outcome,
                   steps>>

NodeOf == [end |-> "artifact", planner |-> "planner", hitl |-> "hitl"]

AfterReviewer ==
    /\ pc = "after_reviewer"
    /\ Goto(NodeOf[DecideAfterReview(review.verdict, review.ftype, counters)])
    /\ UNCHANGED <<stateVars, stagingVars, resultVars, diskVars, todo, outcome,
                   steps>>

\* An exception of a node leaves the invocation; nothing is cleaned up.
NodeRaised ==
    /\ pc = "except"
    /\ outcome' = "CRASH"
    /\ Goto("done")
    /\ UNCHANGED <<stateVars, stagingVars, resultVars, diskVars, todo, steps>>

\* GraphRecursionError: the next node would exceed the limit.
RecursionError ==
    /\ pc \in EntryPoint
    /\ steps = RecursionLimit
    /\ outcome' = "CRASH"
    /\ Goto("done")
    /\ UNCHANGED <<stateVars, stagingVars, resultVars, diskVars, todo, steps>>

-----------------------------------------------------------------------------
\* Next-state relation

Run ==
    /\ \/ StartNode
       \/ ContinueNode
       \/ AfterDrift
       \/ AfterReviewer
       \/ NodeRaised
       \/ RecursionError
    /\ UNCHANGED setup

Next ==
    \/ Run
    \/ (\E f \in Files : HumanEdit(f)) /\ UNCHANGED steps
    \/ Ended /\ UNCHANGED steps

Spec == Init /\ [][Next]_vars

\* LangGraph runs the nodes of this graph one after the other and every call a
\* node makes returns.
FairSpec == Spec /\ WF_vars(Run)

-----------------------------------------------------------------------------
\* Properties

\* A repair loop through the reviewer is bounded by MaxRepair, whatever drifts
\* came in between: the reviewer's edge consults every counter.
ReviewsBounded == counters.reviewer <= MaxRepair

\* Nothing but the recursion limit bounds the loop between the planner and the
\* drift node: load_spec takes one superstep, each turn of the loop three.
DriftLoopBounded == 3 * counters.planner <= RecursionLimit + 1

\* Every invocation ends.
Terminates == <>(outcome # "running")
=============================================================================
