----------------------------- MODULE GraphProofs -----------------------------
(***************************************************************************)
(* Proofs about the LangGraph runner, for every value of the constants:    *)
(* its states have their types, the reviewer's edge bounds the repairs     *)
(* that get as far as a review, only the recursion limit bounds those that *)
(* do not, a run that met a path traversal never passes, and the patches   *)
(* of a run that passes are on the real disk.                              *)
(***************************************************************************)
EXTENDS FactoryGraph, NodeProofs

TypeInv == TypeOK /\ NodesInv

-----------------------------------------------------------------------------
\* Steps

\* Where the two conditional edges lead.
LEMMA AfterReviewerFact ==
    ASSUME AfterReviewer
    PROVE  /\ UNCHANGED exc
           /\ \/ pc' \in {"artifact", "hitl"}
              \/ pc' = "planner" /\ ~Exceeded(counters)
BY DEF AfterReviewer, NodeOf, DecideAfterReview, Goto

LEMMA AfterDriftFact ==
    ASSUME AfterDrift
    PROVE  pc' \in {"sandbox", "planner"} /\ UNCHANGED exc
BY DEF AfterDrift, Goto

\* What the edges do not touch.
Edge == AfterDrift \/ AfterReviewer \/ NodeRaised \/ RecursionError

LEMMA EdgeFact ==
    ASSUME Edge
    PROVE  /\ UNCHANGED <<stateVars, stagingVars, resultVars, diskVars, todo,
                          exc, steps>>
           /\ \/ outcome' = outcome /\ pc' # "done"
              \/ outcome' = "CRASH" /\ pc' = "done"
           /\ pc' \in {"sandbox", "planner", "artifact", "hitl", "done"}
           /\ pc # "done"
<1>1. CASE AfterDrift
    BY <1>1, AfterDriftFact DEF AfterDrift
<1>2. CASE AfterReviewer
    BY <1>2, AfterReviewerFact DEF AfterReviewer
<1>3. CASE NodeRaised
    BY <1>3 DEF NodeRaised, Goto
<1>4. CASE RecursionError
    BY <1>4 DEF RecursionError, EntryPoint, Goto
<1> QED  BY <1>1, <1>2, <1>3, <1>4 DEF Edge

\* Every step of the program is a step of a node or an edge.
LEMMA RunFact ==
    ASSUME Run
    PROVE  /\ setup' = setup
           /\ (NodeStep /\ steps' \in {steps, steps + 1}) \/ Edge
BY DEF Run, StartNode, Superstep, ContinueNode, NodeStep, Edge

-----------------------------------------------------------------------------
\* Type correctness

LEMMA TypeInit == Init => TypeInv
BY NodesInitTypes, GraphAssumption DEF Init, TypeInv, TypeOK, NodesInv

LEMMA TypeNext == TypeInv /\ [Next]_vars => TypeInv'
<1> SUFFICES ASSUME TypeInv, [Next]_vars PROVE TypeInv'
    OBVIOUS
<1>a. NodesInv /\ steps \in 0..RecursionLimit
    BY DEF TypeInv, TypeOK
<1>b. SUFFICES NodesInv' /\ steps' \in 0..RecursionLimit
    BY DEF TypeInv, TypeOK, NodesInv
<1>1. CASE Run
    <2>1. steps' \in 0..RecursionLimit
        BY <1>1, <1>a, EdgeFact, GraphAssumption
        DEF Run, StartNode, Superstep, ContinueNode, Edge
    <2>2. CASE NodeStep
        BY <1>1, <1>a, <2>1, <2>2, NodeTypes, RunFact
    <2>3. CASE Edge
        <3>1. setup' = setup
            BY <1>1, RunFact
        <3>2. /\ history \in Seq(FailureRecord)
              /\ lastFailure \in FailureRecord \cup {NoFailure}
              /\ stagingDir \in BOOLEAN /\ leaked \in Nat /\ undeleted \in Nat
              /\ exc \in Exception \cup {NoException} /\ outcome \in Outcome
            BY <1>a DEF NodesInv, NodesTypeOK
        <3>3. /\ UNCHANGED <<setup, counters, patches, entryCount, work,
                             resultVars, diskVars, todo>>
              /\ UNCHANGED <<history, lastFailure, stagingDir, leaked,
                             undeleted, exc>>
              /\ outcome' \in Outcome
              /\ pc' \in PC \ {"stage", "drop", "reviewer", "except"}
            BY <2>3, <3>1, <3>2, EdgeFact
            DEF stateVars, stagingVars, Outcome, PC
        <3>4. NodesInv'
            BY <1>a, <3>2, <3>3, EdgeTypes
        <3> QED  BY <2>1, <3>4
    <2> QED  BY <1>1, <2>2, <2>3, RunFact
<1>2. CASE (\E f \in Files : HumanEdit(f)) /\ UNCHANGED steps
    BY <1>2, <1>a, HumanTypes
<1>3. CASE UNCHANGED vars
    BY <1>3, <1>a, StutterTypes DEF vars
<1> QED
    BY <1>1, <1>2, <1>3 DEF Next, Ended, vars

LEMMA TypeInvariant == Spec => []TypeInv
BY TypeInit, TypeNext, PTL DEF Spec

\* Every state of an invocation has its type: the counters are numbers, both
\* disks stay trees of files, and the supersteps stay within the limit.
THEOREM TypeCorrect == Spec => []TypeOK
<1>1. TypeInv => TypeOK
    BY DEF TypeInv
<1> QED  BY <1>1, TypeInvariant, PTL

-----------------------------------------------------------------------------
\* The bounds of the two loops

\* A review starts only while the reviewer has an attempt left: its edge leads
\* back to the planner only then, and no other node counts a review.
ReviewsLeft ==
    /\ counters.reviewer <= MaxRepair
    /\ pc \notin {"after_reviewer", "artifact", "drop", "hitl", "except",
                  "done"} => counters.reviewer < MaxRepair

\* load_spec takes one superstep, and each attempt of the planner two more
\* before the drift node starts the third.
StepsTaken ==
    /\ pc = "load_spec" => counters.planner = 0
    /\ 3 * counters.planner <= steps + 1
    /\ pc = "drift" => 3 * counters.planner <= steps
    /\ pc \notin {"load_spec", "engineer", "drift", "except", "done"}
           => 3 * counters.planner + 1 <= steps

LoopInv == TypeInv /\ ReviewsLeft /\ StepsTaken

LEMMA LoopInit == Init => LoopInv
BY TypeInit, PolicyBounds
DEF Init, NodesInit, LoopInv, ReviewsLeft, StepsTaken, ZeroCounters

\* A step that counts neither a plan nor a review, towards a place the same
\* bounds hold at.
LEMMA SameCounts ==
    ASSUME TypeInv, ReviewsLeft, StepsTaken,
           counters'.planner = counters.planner,
           counters'.reviewer = counters.reviewer,
           steps' \in {steps, steps + 1},
           pc' # "load_spec",
           \/ pc' \in {"except", "done"}
           \/ /\ pc \notin {"load_spec", "engineer", "drift", "except", "done"}
              /\ pc' # "load_spec"
              /\ \/ pc' \in {"after_reviewer", "artifact", "drop", "hitl"}
                 \/ pc \notin {"after_reviewer", "artifact", "drop", "hitl"}
           \/ pc \in {"engineer", "drift"} /\ steps' = steps + 1
              /\ pc' = IF pc = "engineer" THEN "drift" ELSE "stage"
    PROVE  ReviewsLeft' /\ StepsTaken'
<1>1. /\ counters.planner \in Nat /\ counters.reviewer \in Nat
      /\ steps \in Nat /\ MaxRepair \in Nat
    BY PolicyBounds DEF TypeInv, TypeOK, NodesInv, NodesTypeOK, Counters
<1> QED  BY <1>1 DEF ReviewsLeft, StepsTaken

LEMMA LoopNext == LoopInv /\ [Next]_vars => LoopInv'
<1> SUFFICES ASSUME LoopInv, [Next]_vars PROVE ReviewsLeft' /\ StepsTaken'
    BY TypeNext DEF LoopInv
<1>a. TypeInv /\ ReviewsLeft /\ StepsTaken
    BY DEF LoopInv
<1>b. /\ counters \in Counters
      /\ counters.planner \in Nat /\ counters.reviewer \in Nat
      /\ steps \in Nat /\ MaxRepair \in Nat
    BY <1>a, PolicyBounds DEF TypeInv, TypeOK, NodesInv, NodesTypeOK, Counters
<1> USE DEF Goto, Raise
<1>1. CASE StartNode
    <2>0. steps' = steps + 1
        BY <1>1 DEF StartNode, Superstep
    <2>1. CASE LoadSpec("planner")
        BY <1>a, <1>b, <2>0, <2>1
        DEF LoadSpec, stateVars, ReviewsLeft, StepsTaken
    <2>2. CASE Planner("engineer")
        <3>1. /\ counters'.planner = counters.planner + 1
              /\ counters'.reviewer = counters.reviewer
            BY <1>b, <2>2, BumpFact DEF Planner, CountedNode
        <3> QED  BY <1>a, <1>b, <2>0, <2>2, <3>1
                 DEF Planner, ReviewsLeft, StepsTaken
    <2>3. CASE Engineer("drift")
        <3>1. /\ counters'.planner = counters.planner
              /\ counters'.reviewer = counters.reviewer
            BY <1>b, <2>3, BumpFact DEF Engineer, CountedNode
        <3>2. pc = "engineer" /\ pc' \in {"drift", "except"}
            BY <2>3 DEF Engineer
        <3> QED  BY <1>a, <1>b, <2>0, <3>1, <3>2, SameCounts
    <2>4. CASE DriftPrepare
        <3>1. pc = "drift" /\ pc' \in {"stage", "except"} /\ counters' = counters
            BY <2>4 DEF DriftPrepare, stateVars
        <3> QED  BY <1>a, <1>b, <2>0, <3>1, SameCounts
    <2>5. CASE Sandbox("reviewer")
        <3>1. /\ counters'.planner = counters.planner
              /\ counters'.reviewer = counters.reviewer
            BY <1>b, <2>5, BumpFact DEF Sandbox, CountedNode
        <3>2. pc = "sandbox" /\ pc' \in {"reviewer", "except"}
            BY <2>5 DEF Sandbox
        <3> QED  BY <1>a, <1>b, <2>0, <3>1, <3>2, SameCounts
    <2>6. CASE Reviewer("after_reviewer")
        <3>1. /\ counters'.planner = counters.planner
              /\ counters'.reviewer = counters.reviewer + 1
            BY <1>b, <2>6, BumpFact DEF Reviewer, CountedNode
        <3>2. pc = "reviewer" /\ pc' \in {"after_reviewer", "except"}
            BY <2>6 DEF Reviewer
        <3> QED  BY <1>a, <1>b, <2>0, <3>1, <3>2 DEF ReviewsLeft, StepsTaken
    <2>7. CASE ArtifactEnter
        <3>1. pc = "artifact" /\ pc' = "drop" /\ counters' = counters
            BY <2>7 DEF ArtifactEnter, stateVars
        <3> QED  BY <1>a, <1>b, <2>0, <3>1, SameCounts
    <2>8. CASE DoHitl
        <3>1. /\ pc = "hitl" /\ pc' \in {"done", "except"}
              /\ counters' = counters
            BY <2>8 DEF DoHitl, stateVars
        <3> QED  BY <1>a, <1>b, <2>0, <3>1, SameCounts
    <2> QED  BY <1>1, <2>1, <2>2, <2>3, <2>4, <2>5, <2>6, <2>7, <2>8
             DEF StartNode
<1>2. CASE ContinueNode
    <2>0. steps' = steps /\ counters' = counters
        BY <1>2 DEF ContinueNode, StagePatch, DriftVerify, DropPatch,
                    ArtifactDone, stateVars
    <2>1. CASE \E f \in Files : StagePatch(f, "after_drift")
        <3>1. pc = "stage" /\ pc' \in {"stage", "after_drift", "except"}
            BY <2>1 DEF StagePatch, StageWrite, StageTraversal, StageError
        <3> QED  BY <1>a, <1>b, <2>0, <3>1, SameCounts
    <2>2. CASE DriftVerify("after_drift")
        <3>1. pc = "stage" /\ pc' \in {"after_drift", "except"}
            BY <2>2 DEF DriftVerify
        <3> QED  BY <1>a, <1>b, <2>0, <3>1, SameCounts
    <2>3. CASE \E f \in Files : DropPatch(f)
        <3>1. pc = "drop" /\ pc' \in {"drop", "except"}
            BY <2>3 DEF DropPatch, DropWrite, DropTraversal, DropRefused,
                        DropFault
        <3> QED  BY <1>a, <1>b, <2>0, <3>1, SameCounts
    <2>4. CASE ArtifactDone
        <3>1. pc = "drop" /\ pc' \in {"done", "except"}
            BY <2>4 DEF ArtifactDone
        <3> QED  BY <1>a, <1>b, <2>0, <3>1, SameCounts
    <2> QED  BY <1>2, <2>1, <2>2, <2>3, <2>4 DEF ContinueNode
<1>3. CASE Edge
    <2>0. steps' = steps /\ counters' = counters
        BY <1>3, EdgeFact DEF stateVars
    <2>1. CASE AfterDrift
        <3>1. pc = "after_drift" /\ pc' \in {"sandbox", "planner"}
            BY <2>1, AfterDriftFact DEF AfterDrift
        <3> QED  BY <1>a, <1>b, <2>0, <3>1, SameCounts
    <2>2. CASE AfterReviewer
        <3>1. pc = "after_reviewer"
            BY <2>2 DEF AfterReviewer
        <3>2. CASE pc' \in {"artifact", "hitl"}
            BY <1>a, <1>b, <2>0, <3>1, <3>2, SameCounts
        <3>3. CASE pc' = "planner" /\ ~Exceeded(counters)
            <4>1. counters.reviewer < MaxRepair
                BY <1>b, <3>3 DEF Exceeded, CountedNode
            <4> QED  BY <1>a, <1>b, <2>0, <3>1, <3>3, <4>1
                     DEF ReviewsLeft, StepsTaken
        <3> QED  BY <2>2, <3>2, <3>3, AfterReviewerFact
    <2>3. CASE NodeRaised \/ RecursionError
        <3>1. pc' = "done"
            BY <2>3 DEF NodeRaised, RecursionError
        <3> QED  BY <1>a, <1>b, <2>0, <3>1, SameCounts
    <2> QED  BY <1>3, <2>1, <2>2, <2>3 DEF Edge
<1>4. CASE UNCHANGED <<pc, counters, steps>>
    BY <1>a, <1>4 DEF ReviewsLeft, StepsTaken
<1>5. CASE \E f \in Files : HumanEdit(f) /\ UNCHANGED steps
    BY <1>4, <1>5 DEF HumanEdit, stateVars
<1> QED
    BY <1>1, <1>2, <1>3, <1>4, <1>5
    DEF Next, Run, Edge, Ended, vars, nodeVars, stateVars

LEMMA LoopInvariant == Spec => []LoopInv
BY LoopInit, LoopNext, PTL DEF Spec

\* The reviewer's edge consults every counter, so an invocation is reviewed at
\* most MaxRepair times, whatever drifts came in between.
THEOREM ReviewsAreBounded == Spec => []ReviewsBounded
<1>1. LoopInv => ReviewsBounded
    BY DEF LoopInv, ReviewsLeft, ReviewsBounded
<1> QED  BY <1>1, LoopInvariant, PTL

\* A turn of the loop between the planner and the drift node costs three
\* supersteps, so the recursion limit bounds the plans.
THEOREM DriftLoopIsBounded == Spec => []DriftLoopBounded
<1>1. ASSUME LoopInv PROVE DriftLoopBounded
    <2>1. /\ 3 * counters.planner <= steps + 1
          /\ steps \in 0..RecursionLimit /\ counters.planner \in Nat
        BY <1>1 DEF LoopInv, StepsTaken, TypeInv, TypeOK, NodesTypeOK, Counters
    <2> QED  BY <2>1, GraphAssumption DEF DriftLoopBounded
<1> QED  BY <1>1, LoopInvariant, PTL

-----------------------------------------------------------------------------
\* A path traversal never passes

GraphSecurityInv == TypeInv /\ NodesSecurity

LEMMA GraphSecurityInit == Init => GraphSecurityInv
BY TypeInit, NodesInitSecurity DEF Init, GraphSecurityInv

LEMMA GraphSecurityNext == GraphSecurityInv /\ [Next]_vars => GraphSecurityInv'
<1> SUFFICES ASSUME GraphSecurityInv, [Next]_vars PROVE NodesSecurity'
    BY TypeNext DEF GraphSecurityInv
<1>a. NodesInv /\ NodesSecurity
    BY DEF GraphSecurityInv, TypeInv
<1>1. CASE NodeStep
    BY <1>a, <1>1, NodeSecurity
<1>2. CASE Edge
    <2>1. /\ UNCHANGED <<patches, todo, history>>
          /\ pc # "done" /\ pc' # "drop"
          /\ \/ pc' # "done" /\ outcome' = outcome
             \/ pc' = "done" /\ outcome' = "CRASH"
        BY <1>2, EdgeFact DEF stateVars
    <2>2. TraversalRecords' = TraversalRecords
        BY <2>1 DEF TraversalRecords
    <2> QED  BY <1>a, <2>1, <2>2, EdgeSecurity
<1>3. CASE UNCHANGED <<history, patches, todo, pc, outcome>>
    BY <1>a, <1>3, StutterSecurity
<1>4. CASE \E f \in Files : HumanEdit(f) /\ UNCHANGED steps
    BY <1>3, <1>4 DEF HumanEdit, stateVars
<1> QED
    BY <1>1, <1>2, <1>3, <1>4, RunFact
    DEF Next, Ended, vars, nodeVars, stateVars

\* The graph keeps no record of a drift and never stops at HITL for one, and
\* yet an invocation whose patches leave the writable roots never passes.
THEOREM SecurityNeverPassesHolds == Spec => []SecurityNeverPasses
<1>1. GraphSecurityInv => SecurityNeverPasses
    BY SecurityFromInvariant DEF GraphSecurityInv
<1> QED  BY <1>1, GraphSecurityInit, GraphSecurityNext, PTL DEF Spec

-----------------------------------------------------------------------------
\* What an invocation that passes has done to the project

\* An edge starts the tests only on a tree without drift, and the drop only
\* after a PASS.
LEMMA EdgeMoves ==
    ASSUME Edge
    PROVE  /\ UNCHANGED <<patches, work, disk, edits, todo, resultVars>>
           /\ pc # "done" /\ outcome' \in {outcome, "CRASH"}
           /\ \/ pc' \in {"planner", "hitl", "except", "done"}
              \/ pc = "after_drift" /\ drift = "no-drift" /\ pc' = "sandbox"
              \/ /\ pc = "after_reviewer" /\ review.verdict = "PASS"
                 /\ pc' = "artifact"
<1>1. CASE AfterDrift
    BY <1>1 DEF AfterDrift, Goto, stateVars, stagingVars, diskVars
<1>2. CASE AfterReviewer
    BY <1>2
    DEF AfterReviewer, DecideAfterReview, NodeOf, Goto, stateVars, stagingVars,
        diskVars
<1>3. CASE NodeRaised \/ RecursionError
    BY <1>3
    DEF NodeRaised, RecursionError, EntryPoint, Goto, stateVars, stagingVars,
        diskVars
<1> QED  BY <1>1, <1>2, <1>3 DEF Edge

GraphDropInv == GraphSecurityInv /\ DropInv

LEMMA GraphDropNext ==
    ASSUME PlainBodies
    PROVE  GraphDropInv /\ [Next]_vars => GraphDropInv'
<1> SUFFICES ASSUME GraphDropInv, [Next]_vars PROVE DropInv'
    BY GraphSecurityNext DEF GraphDropInv
<1>a. NodesInv /\ EndedIsDone /\ DropInv
    BY DEF GraphDropInv, GraphSecurityInv, NodesSecurity, TypeInv
<1>1. CASE NodeStep
    BY <1>a, <1>1, NodeDrop
<1>2. CASE Edge
    BY <1>a, <1>2, EdgeMoves, EdgeDrop
<1>3. CASE \E f \in Files : HumanEdit(f)
    BY <1>a, <1>3, HumanDrop
<1>4. CASE UNCHANGED nodeVars
    BY <1>a, <1>4, StutterDrop
<1> QED  BY <1>1, <1>2, <1>3, <1>4, RunFact DEF Next, Ended, vars

\* If no body that is a lone token is ever written, an invocation that passes
\* has put every patch it accumulated into the project, and each of them had
\* been staged, although the graph keeps its staging directory through every
\* drift.
THEOREM PassedIsDropped ==
    ASSUME PlainBodies, ProjectsWhole
    PROVE  Spec => []PassMeansDropped
<1>1. Init => GraphDropInv
    BY GraphSecurityInit, NodesInitDrop DEF Init, GraphDropInv
<1>2. GraphDropInv => PassMeansDropped
    BY PassedFromInvariant DEF GraphDropInv
<1> QED  BY <1>1, <1>2, GraphDropNext, PTL DEF Spec
=============================================================================
