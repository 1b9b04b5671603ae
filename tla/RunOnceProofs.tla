---------------------------- MODULE RunOnceProofs ----------------------------
(***************************************************************************)
(* Proofs about the sequential runner, for every value of the constants:   *)
(* its types, what bounds its attempts and stops them, what its except     *)
(* clause can record, and that a run passes only when what it tested is on *)
(* the real disk and nothing of it left the writable roots.                *)
(***************************************************************************)
EXTENDS RunOnce, NodeProofs

-----------------------------------------------------------------------------
\* Edges

\* The edge after the reviewer has three ends.
LEMMA AfterReviewerFact ==
    ASSUME AfterReviewer
    PROVE  \/ /\ review.verdict = "PASS"
              /\ pc' = "artifact" /\ UNCHANGED <<exc, iteration>>
           \/ /\ review.verdict # "PASS"
              /\ review.ftype \in HitlTriggers \/ Exceeded(counters)
              /\ pc' = "hitl" /\ UNCHANGED <<exc, iteration>>
           \/ /\ review.verdict # "PASS"
              /\ review.ftype \notin HitlTriggers /\ ~Exceeded(counters)
              /\ NextIteration
BY DEF AfterReviewer, DecideAfterReview, Goto

\* An iteration that did not end the run is followed by another or by HITL.
LEMMA NextIterationFact ==
    ASSUME iteration \in 0..(MaxIterations - 1), NextIteration
    PROVE  /\ UNCHANGED exc
           /\ \/ /\ iteration + 1 < MaxIterations
                 /\ pc' = "planner" /\ iteration' = iteration + 1
              \/ /\ iteration + 1 = MaxIterations
                 /\ pc' = "hitl_last" /\ UNCHANGED iteration
BY RunOnceAssumption DEF NextIteration, Goto

-----------------------------------------------------------------------------
\* Type correctness

LEMMA TypeInit == Init => TypeInv
BY NodesInitTypes, RunOnceAssumption DEF Init, TypeInv, TypeOK, NodesInv

\* Every step keeps the types, with what the loops and the except clause rely
\* on to keep them.
LEMMA TypeNext == TypeInv /\ [Next]_vars => TypeInv'
<1> SUFFICES ASSUME TypeInv, [Next]_vars PROVE TypeInv'
    OBVIOUS
<1>a. NodesInv /\ iteration \in 0..(MaxIterations - 1)
    BY DEF TypeInv, TypeOK
<1>b. SUFFICES NodesInv' /\ iteration' \in 0..(MaxIterations - 1)
    BY DEF TypeInv, TypeOK, NodesInv
<1>c. setup' = setup
    BY DEF Next, Run, Human, HumanEdit, Ended, vars, nodeVars
<1> USE DEF Goto, Raise, NothingRecorded
<1>1. CASE Nodes /\ UNCHANGED iteration
    BY <1>1, <1>a, <1>c, NodeTypes DEF Nodes, NodeStep
<1>2. CASE Edges
    <2>1. /\ history \in Seq(FailureRecord)
          /\ lastFailure \in FailureRecord \cup {NoFailure}
          /\ stagingDir \in BOOLEAN /\ leaked \in Nat /\ undeleted \in Nat
          /\ exc \in Exception \cup {NoException} /\ outcome \in Outcome
          /\ counters.total \in Nat
        BY <1>a DEF NodesInv, NodesTypeOK, Counters
    <2>2. /\ pc' \in PC \ {"stage", "drop", "reviewer"}
          /\ pc' = "except" => exc' \in Exception
          /\ exc' \in Exception \cup {NoException}
          /\ iteration' \in 0..(MaxIterations - 1)
        <3>1. CASE AfterReviewer
            BY <1>a, <2>1, <3>1, AfterReviewerFact, NextIterationFact,
               RunOnceAssumption DEF PC
        <3>2. CASE AfterDriftFound
            BY <1>a, <2>1, <3>2, NextIterationFact, RunOnceAssumption
            DEF AfterDriftFound, EscalateOrRetry, PC
        <3>3. CASE HandleException
            BY <1>a, <2>1, <3>3, RunOnceAssumption DEF HandleException, PC
        <3>4. CASE AfterDriftClean \/ AfterDriftUnrecordable
            BY <1>a, <2>1, <3>4, RecordingErrorsType
            DEF AfterDriftClean, AfterDriftUnrecordable, PC
        <3>5. CASE CrashInHandler
            <4>1. exc.multiline \in BOOLEAN
                BY <1>a, <3>5
                DEF CrashInHandler, NodesInv, ExceptHasException, Exception
            <4> QED  BY <1>a, <3>5, <4>1, RecordingErrorsType
                     DEF CrashInHandler, PC
        <3>6. CASE IterStartFails \/ DoHitlLast
            BY <1>a, <2>1, <3>6, RaisedTypes DEF IterStartFails, DoHitlLast, PC
        <3> QED  BY <1>2, <3>1, <3>2, <3>3, <3>4, <3>5, <3>6 DEF Edges
    <2>3. /\ history' \in Seq(FailureRecord)
          /\ lastFailure' \in FailureRecord \cup {NoFailure}
        <3>1. CASE NothingRecorded
            BY <2>1, <3>1
        <3>2. CASE RecordFailure("SPEC_DRIFT", "drift", counters.total)
            BY <2>1, <3>2, RecordFailureType DEF FailureType, Node
        <3>3. CASE HandleException
            <4>1. FromException(exc) \in FailureType
                BY <1>a, <3>3, FromExceptionType
                DEF HandleException, NodesInv, ExceptHasException
            <4> QED  BY <2>1, <3>3, <4>1, RecordFailureType
                     DEF HandleException, Node
        <3> QED  BY <1>2, <3>1, <3>2, <3>3
                 DEF Edges, AfterDriftClean, AfterDriftFound, AfterReviewer,
                     AfterDriftUnrecordable, CrashInHandler, IterStartFails,
                     DoHitlLast, stateVars
    <2>4. /\ UNCHANGED <<counters, patches, entryCount, work, resultVars,
                         diskVars, todo>>
          /\ stagingDir' \in BOOLEAN /\ leaked' \in Nat
          /\ undeleted' \in Nat /\ outcome' \in Outcome
        <3>1. \/ CleanupStaging
              \/ UNCHANGED <<stagingDir, work, leaked, undeleted>>
            BY <1>2
            DEF Edges, AfterDriftClean, AfterDriftFound,
                AfterDriftUnrecordable, AfterReviewer, HandleException,
                CrashInHandler, IterStartFails, DoHitlLast, stagingVars
        <3>2. /\ stagingDir' \in BOOLEAN /\ leaked' \in Nat
              /\ undeleted' \in Nat /\ UNCHANGED work
            <4>1. UNCHANGED <<work, leaked>>
                BY <3>1 DEF CleanupStaging
            <4> QED  BY <2>1, <3>1, <4>1, CleanupFact
        <3>3. /\ UNCHANGED <<counters, patches, entryCount, resultVars,
                             diskVars, todo>>
              /\ outcome' \in Outcome
            BY <1>2, <2>1
            DEF Edges, AfterDriftClean, AfterDriftFound,
                AfterDriftUnrecordable, AfterReviewer, HandleException,
                CrashInHandler, IterStartFails, DoHitlLast, stateVars, Outcome
        <3> QED  BY <3>2, <3>3
    <2> QED  BY <1>a, <1>c, <2>2, <2>3, <2>4, EdgeTypes
<1>3. CASE Human
    BY <1>3, <1>a, HumanTypes DEF Human
<1>4. CASE UNCHANGED vars
    BY <1>4, <1>a, StutterTypes DEF vars
<1> QED
    BY <1>1, <1>2, <1>3, <1>4 DEF Next, Run, Ended, vars

\* Every state of a run has its type: the counters are numbers, the history
\* holds well-formed failure records, and both disks stay trees of files.
THEOREM TypeCorrect == Spec => []TypeOK
<1>1. Init => TypeInv
    BY TypeInit
<1>2. TypeInv /\ [Next]_vars => TypeInv'
    BY TypeNext
<1>3. TypeInv => TypeOK
    BY DEF TypeInv
<1> QED  BY <1>1, <1>2, <1>3, PTL DEF Spec

-----------------------------------------------------------------------------
\* The bound of the attempts

\* A step inside an iteration that counts no planner attempt keeps the
\* relation between the attempts and the iterations.
LEMMA SameAttempt ==
    ASSUME TypeInv, AttemptsMatchIterations, PlannerHasRoom,
           pc \notin {"load_spec", "planner"},
           pc' \notin {"load_spec", "planner"},
           pc # "done",
           pc = "except" => \/ counters.total # 0
                            \/ pc' = "done" /\ outcome' = "CRASH",
           counters'.planner = counters.planner,
           iteration' = iteration
    PROVE  AttemptsMatchIterations' /\ PlannerHasRoom'
BY DEF AttemptsMatchIterations, PlannerHasRoom

\* A retry leads to the planner, with an attempt left if HITL is enabled.
LEMMA NextAttempt ==
    ASSUME TypeInv, counters' = counters, counters.planner = iteration + 1,
           pc' = "planner", iteration' = iteration + 1,
           HitlEnabled => counters.planner < MaxRepair
    PROVE  AttemptsMatchIterations' /\ PlannerHasRoom'
BY PolicyBounds
DEF AttemptsMatchIterations, PlannerHasRoom, TypeInv, TypeOK, NodesTypeOK,
    Counters

LEMMA AttemptNext == AttemptInv /\ [Next]_vars => AttemptInv'
<1> SUFFICES ASSUME AttemptInv, [Next]_vars PROVE AttemptInv'
    OBVIOUS
<1>a. TypeInv /\ TypeInv'
    BY TypeNext DEF AttemptInv
<1>b. AttemptsMatchIterations /\ PlannerHasRoom
    BY DEF AttemptInv
<1>c. counters \in Counters /\ counters.planner \in Nat
      /\ counters.total \in Nat /\ iteration \in Nat
    BY <1>a, RunOnceAssumption
    DEF TypeInv, TypeOK, NodesTypeOK, Counters
<1> SUFFICES AttemptsMatchIterations' /\ PlannerHasRoom'
    BY <1>a DEF AttemptInv
<1> USE DEF stateVars, Goto, Raise
<1>1. CASE LoadSpec("planner") /\ UNCHANGED iteration
    BY <1>1, <1>b, <1>c
    DEF LoadSpec, AttemptsMatchIterations, PlannerHasRoom
<1>2. CASE Planner("engineer") /\ UNCHANGED iteration
    <2>1. counters'.planner = counters.planner + 1
        BY <1>2, <1>c, BumpFact DEF Planner, CountedNode
    <2>2. pc = "planner" /\ pc' \in {"engineer", "except"}
        BY <1>2 DEF Planner
    <2> QED  BY <1>2, <1>b, <1>c, <2>1, <2>2, PolicyBounds
             DEF AttemptsMatchIterations, PlannerHasRoom
<1>3. CASE Engineer("drift") /\ UNCHANGED iteration
    <2>1. counters'.planner = counters.planner
        BY <1>3, <1>c, BumpFact DEF Engineer, CountedNode
    <2> QED  BY <1>3, <1>a, <1>b, <2>1, SameAttempt DEF Engineer
<1>4. CASE DriftPrepare /\ UNCHANGED iteration
    BY <1>4, <1>a, <1>b, SameAttempt DEF DriftPrepare
<1>5. CASE (\E f \in Files : StagePatch(f, "after_drift"))
               /\ UNCHANGED iteration
    BY <1>5, <1>a, <1>b, SameAttempt
    DEF StagePatch, StageWrite, StageTraversal, StageError
<1>6. CASE DriftVerify("after_drift") /\ UNCHANGED iteration
    BY <1>6, <1>a, <1>b, SameAttempt DEF DriftVerify
<1>7. CASE Sandbox("reviewer") /\ UNCHANGED iteration
    <2>1. counters'.planner = counters.planner
        BY <1>7, <1>c, BumpFact DEF Sandbox, CountedNode
    <2> QED  BY <1>7, <1>a, <1>b, <2>1, SameAttempt DEF Sandbox
<1>8. CASE Reviewer("after_reviewer") /\ UNCHANGED iteration
    <2>1. counters'.planner = counters.planner
        BY <1>8, <1>c, BumpFact DEF Reviewer, CountedNode
    <2> QED  BY <1>8, <1>a, <1>b, <2>1, SameAttempt DEF Reviewer
<1>9. CASE ArtifactEnter /\ UNCHANGED iteration
    BY <1>9, <1>a, <1>b, SameAttempt DEF ArtifactEnter
<1>10. CASE (\E f \in Files : DropPatch(f)) /\ UNCHANGED iteration
    BY <1>10, <1>a, <1>b, SameAttempt
    DEF DropPatch, DropWrite, DropTraversal, DropRefused, DropFault
<1>11. CASE ArtifactDone /\ UNCHANGED iteration
    BY <1>11, <1>a, <1>b, SameAttempt DEF ArtifactDone
<1>12. CASE DoHitl /\ UNCHANGED iteration
    BY <1>12, <1>a, <1>b, SameAttempt DEF DoHitl
<1>13. CASE AfterDriftClean
    BY <1>13, <1>a, <1>b, SameAttempt DEF AfterDriftClean
<1>14. CASE AfterDriftFound
    <2>1. counters.planner = iteration + 1 /\ counters' = counters
        BY <1>14, <1>b DEF AfterDriftFound, AttemptsMatchIterations
    <2>2. CASE pc' \in {"hitl", "hitl_last"} /\ iteration' = iteration
        BY <1>14, <1>a, <1>b, <2>1, <2>2, SameAttempt DEF AfterDriftFound
    <2>3. CASE /\ pc' = "planner" /\ iteration' = iteration + 1
               /\ HitlEnabled => iteration = 0 \/ ~Exceeded(counters)
        <3>1. HitlEnabled => counters.planner < MaxRepair
            BY <1>c, <2>1, <2>3, ExceededByPlanner, PolicyBounds
        <3> QED  BY <1>a, <2>1, <2>3, <3>1, NextAttempt
    <2> QED  BY <1>14, <2>2, <2>3
             DEF AfterDriftFound, NextIteration, EscalateOrRetry,
                 InterruptNext, ShouldInterrupt
<1>15. CASE AfterDriftUnrecordable
    BY <1>15, <1>a, <1>b, SameAttempt DEF AfterDriftUnrecordable
<1>16. CASE AfterReviewer
    <2> DEFINE d == DecideAfterReview(review.verdict, review.ftype, counters)
    <2>1. counters.planner = iteration + 1 /\ counters' = counters
        BY <1>16, <1>b DEF AfterReviewer, AttemptsMatchIterations
    <2>2. CASE /\ pc' \in {"artifact", "hitl", "hitl_last"}
               /\ iteration' = iteration
        BY <1>16, <1>a, <1>b, <2>1, <2>2, SameAttempt DEF AfterReviewer
    <2>3. CASE pc' = "planner" /\ iteration' = iteration + 1 /\ ~Exceeded(counters)
        <3>1. counters.planner < MaxRepair
            BY <1>c, <2>3, ExceededByPlanner
        <3> QED  BY <1>a, <2>1, <2>3, <3>1, NextAttempt
    <2>4. d = "end" \/ d = "hitl" \/ ~Exceeded(counters)
        BY DEF DecideAfterReview
    <2> QED  BY <1>16, <2>2, <2>3, <2>4 DEF AfterReviewer, NextIteration
<1>17. CASE HandleException
    <2>1. counters.total >= 1 /\ counters' = counters
        BY <1>17 DEF HandleException, ValidRecord
    <2>2. counters.planner = iteration + 1
        BY <1>17, <1>b, <2>1 DEF HandleException, AttemptsMatchIterations
    <2>3. CASE pc' = "hitl_last" /\ iteration' = iteration
        BY <1>17, <1>a, <1>b, <2>1, <2>3, SameAttempt DEF HandleException
    <2>4. CASE /\ pc' = "planner" /\ iteration' = iteration + 1
               /\ HitlEnabled => ~Exceeded(counters)
        <3>1. HitlEnabled => counters.planner < MaxRepair
            BY <1>c, <2>4, ExceededByPlanner
        <3> QED  BY <1>a, <2>1, <2>2, <2>4, <3>1, NextAttempt
    <2> QED  BY <1>17, <2>3, <2>4
             DEF HandleException, InterruptNext, ShouldInterrupt
<1>18. CASE CrashInHandler
    BY <1>18, <1>a, <1>b, SameAttempt DEF CrashInHandler
<1>21. CASE IterStartFails
    <2>1. /\ pc \in {"load_spec", "planner"} /\ pc' = "done"
          /\ outcome' = "CRASH" /\ UNCHANGED <<counters, iteration>>
        BY <1>21 DEF IterStartFails, IterStart
    <2> QED  BY <1>b, <2>1 DEF AttemptsMatchIterations, PlannerHasRoom
<1>22. CASE DoHitlLast
    BY <1>22, <1>a, <1>b, SameAttempt DEF DoHitlLast
<1>19. CASE Human
    BY <1>19, <1>b
    DEF Human, HumanEdit, AttemptsMatchIterations, PlannerHasRoom
<1>20. CASE UNCHANGED vars
    BY <1>20, <1>b
    DEF vars, nodeVars, AttemptsMatchIterations, PlannerHasRoom
<1> QED
    BY <1>1, <1>2, <1>3, <1>4, <1>5, <1>6, <1>7, <1>8, <1>9, <1>10, <1>11,
       <1>12, <1>13, <1>14, <1>15, <1>16, <1>17, <1>18, <1>19, <1>20,
       <1>21, <1>22
    DEF Next, Run, Nodes, Edges, Ended, vars

LEMMA AttemptInit == Init => AttemptInv
<1>1. Init => TypeInv
    BY TypeInit
<1> QED
    BY <1>1, PolicyBounds
    DEF Init, NodesInit, ZeroCounters, AttemptInv, AttemptsMatchIterations,
        PlannerHasRoom

\* The planner has run once in each iteration, and with HITL enabled no attempt
\* starts when they are used up.
THEOREM AttemptInvariant == Spec => []AttemptInv
BY AttemptInit, AttemptNext, PTL DEF Spec

\* However nodes fail and whatever the agents answer, HITL stops the repair
\* loop after MaxRepair planner attempts, and the iterations do without it.
THEOREM AttemptsAreBounded == Spec => []AttemptsBounded
<1>1. AttemptInv => AttemptsBounded
    BY RunOnceAssumption
    DEF AttemptInv, AttemptsBounded, AttemptsMatchIterations, PlannerHasRoom,
        TypeInv, TypeOK, NodesTypeOK, Counters
<1> QED  BY <1>1, AttemptInvariant, PTL

-----------------------------------------------------------------------------
\* A path traversal never passes

LEMMA SecurityInit == Init => SecurityInv
BY TypeInit, NodesInitSecurity DEF Init, SecurityInv, NodesSecurity

LEMMA SecurityNext == SecurityInv /\ [Next]_vars => SecurityInv'
<1> SUFFICES ASSUME SecurityInv, [Next]_vars PROVE SecurityInv'
    OBVIOUS
<1>a. TypeInv' /\ NodesInv /\ NodesSecurity
    BY TypeNext DEF SecurityInv, NodesSecurity, TypeInv
<1>b. SUFFICES NodesSecurity'
    BY <1>a DEF SecurityInv, NodesSecurity
<1>1. CASE Nodes
    BY <1>1, <1>a, NodeSecurity DEF Nodes, NodeStep
<1>2. CASE Edges
    <2>1. history \in Seq(FailureRecord) /\ counters.total \in Nat
        BY <1>a DEF NodesInv, NodesTypeOK, Counters
    <2>2. TraversalRecords' # {} => TraversalRecords # {}
        <3>1. CASE UNCHANGED history
            BY <3>1 DEF TraversalRecords
        <3>2. CASE RecordFailure("SPEC_DRIFT", "drift", counters.total)
            BY <2>1, <3>2, NewTraversalRecord DEF Node, FailureType
        <3>3. CASE HandleException
            <4>1. FromException(exc) \in FailureType
                BY <1>a, <3>3, FromExceptionType
                DEF HandleException, NodesInv, ExceptHasException
            <4> QED  BY <2>1, <3>3, <4>1, NewTraversalRecord
                     DEF HandleException, Node
        <3> QED  BY <1>2, <3>1, <3>2, <3>3
                 DEF Edges, AfterDriftClean, AfterDriftFound, AfterReviewer,
                     AfterDriftUnrecordable, CrashInHandler, IterStartFails,
                     DoHitlLast, NothingRecorded, stateVars
    <2>3. /\ UNCHANGED <<patches, todo>>
          /\ pc # "done" /\ pc' # "drop"
          /\ \/ pc' # "done" /\ outcome' = outcome
             \/ pc' = "done" /\ outcome' \in {"HITL", "CRASH"}
        <3>1. CASE AfterReviewer
            BY <1>a, <3>1, AfterReviewerFact DEF AfterReviewer, NextIteration,
               Goto, stateVars
        <3>2. CASE ~AfterReviewer
            BY <1>2, <3>2
            DEF Edges, AfterDriftClean, AfterDriftFound, HandleException,
                AfterDriftUnrecordable, CrashInHandler, IterStartFails,
                IterStart, DoHitlLast, NextIteration, EscalateOrRetry, Goto,
                Raise, stateVars
        <3> QED  BY <3>1, <3>2
    <2> QED  BY <1>a, <2>2, <2>3, EdgeSecurity
<1>3. CASE Human \/ Ended \/ UNCHANGED vars
    BY <1>3, <1>a, StutterSecurity
    DEF Human, HumanEdit, Ended, vars, nodeVars, stateVars
<1> QED  BY <1>1, <1>2, <1>3 DEF Next, Run

\* Once a traversal is on record, a patch that leaves the writable roots stays in
\* the state, and nothing outside of them is dropped.
THEOREM SecurityInvariant == Spec => []SecurityInv
BY SecurityInit, SecurityNext, PTL DEF Spec

\* Whatever the engineer answers later, and with or without HITL, a run that
\* recorded a path traversal never passes, and one that passes has only
\* patches inside the writable roots.
THEOREM SecurityNeverPassesHolds == Spec => []SecurityNeverPasses
<1>1. SecurityInv => SecurityNeverPasses
    BY SecurityFromInvariant DEF SecurityInv, NodesSecurity
<1> QED  BY <1>1, SecurityInvariant, PTL
-----------------------------------------------------------------------------
\* The history, the last failure and the escalation to a human

\* last_failure is where the history ends.
LastIsLatest ==
    IF history = <<>> THEN lastFailure = NoFailure
                      ELSE lastFailure = history[Len(history)]

\* In the first iteration each node runs once; nothing but a traversal in
\* staging can have been recorded when its drift is looked at.
FirstAttempt ==
    iteration = 0 =>
        /\ pc \in {"load_spec", "planner"} => counters.total = 0
        /\ pc = "engineer" => counters.total = 1
        /\ pc \in {"drift", "stage", "after_drift"} => counters.total = 2
        /\ pc \in {"load_spec", "planner", "engineer", "drift", "stage"}
               => history = <<>>
        /\ pc = "after_drift" =>
               \/ history = <<>>
               \/ /\ drift # "no-drift"
                  /\ history = <<[type |-> "SECURITY_VIOLATION",
                                  node |-> "drift", attempt |-> 2]>>

\* Whatever else is recorded, the run is to be handed over: the attempts are
\* used up, or the last failure is a trigger.
BoundForHuman ==
    \/ Exceeded(counters)
    \/ history # <<>> /\ history[Len(history)].type \in HitlTriggers

\* A trigger on record, but the deferred one, is about to stop the run: it is
\* the last failure, the verdict, or the exception in flight.
NoTriggerWaits ==
    HitlEnabled =>
        /\ pc \in {"load_spec", "planner", "engineer", "drift", "stage",
                   "sandbox", "reviewer", "artifact", "drop"}
               => DeferredOnly(history)
        /\ pc = "after_drift" =>
               \/ DeferredOnly(history)
               \/ drift # "no-drift" /\ AlreadyRecorded
        /\ pc = "after_reviewer" =>
               DeferredOnly(history) \/ review.ftype \in HitlTriggers
        /\ pc = "except" => \/ DeferredOnly(history)
                            \/ FromException(exc) \in HitlTriggers
                            \/ BoundForHuman
        /\ pc = "hitl" => BoundForHuman

\* The verdict is a pass or the last failure on record.
ReviewOnRecord ==
    pc = "after_reviewer" =>
        \/ review = [verdict |-> "PASS", ftype |-> "NONE"]
        \/ /\ review.verdict = "FAIL" /\ history # <<>>
           /\ history[Len(history)].type = review.ftype

\* What hands a run over still justifies it when the run has ended.
HandedOver ==
    pc \in {"hitl", "hitl_last"} \/ outcome = "HITL" =>
        ShouldInterrupt(counters, history) \/ iteration + 1 = MaxIterations

EscalationInv ==
    /\ SecurityInv
    /\ LastIsLatest /\ FirstAttempt /\ NoTriggerWaits /\ ReviewOnRecord
    /\ HandedOver

LEMMA EscalationInit == Init => EscalationInv
<1> SUFFICES ASSUME Init PROVE EscalationInv
    OBVIOUS
<1>1. DeferredOnly(history)
    BY DEF Init, NodesInit, DeferredOnly
<1> QED
    BY <1>1, SecurityInit
    DEF Init, NodesInit, EscalationInv, LastIsLatest, FirstAttempt,
        NoTriggerWaits, ReviewOnRecord, HandedOver, ZeroCounters

\* A step of the program or of its environment records one failure or none.
LEMMA StepRecords ==
    ASSUME TypeInv, [Next]_vars
    PROVE  \/ NothingRecorded
           \/ \E ft \in FailureType, n \in Node, k \in Nat : RecordFailure(ft, n, k)
<1>1. CASE Nodes
    BY <1>1, NodeRecords DEF Nodes, NodeStep, TypeInv
<1>2. CASE Edges
    <2>1. /\ counters.total \in Nat
          /\ "SPEC_DRIFT" \in FailureType
          /\ "drift" \in Node /\ "workflow" \in Node
        BY DEF TypeInv, TypeOK, NodesTypeOK, Counters, FailureType, Node
    <2>2. CASE HandleException
        <3>1. FromException(exc) \in FailureType
            BY <2>2, FromExceptionType
            DEF HandleException, TypeInv, NodesInv, ExceptHasException
        <3> QED  BY <2>1, <2>2, <3>1 DEF HandleException
    <2>3. CASE ~HandleException
        BY <1>2, <2>1, <2>3
        DEF Edges, AfterDriftClean, AfterDriftFound, AfterDriftUnrecordable,
            AfterReviewer, CrashInHandler, IterStartFails, DoHitlLast,
            NothingRecorded, stateVars
    <2> QED  BY <2>2, <2>3
<1>3. CASE Human \/ Ended \/ UNCHANGED vars
    BY <1>3
    DEF Human, HumanEdit, Ended, vars, nodeVars, stateVars, NothingRecorded
<1> QED  BY <1>1, <1>2, <1>3 DEF Next, Run

LEMMA LastIsLatestNext ==
    ASSUME TypeInv, LastIsLatest, [Next]_vars
    PROVE  LastIsLatest'
<1>1. CASE NothingRecorded
    BY <1>1 DEF NothingRecorded, LastIsLatest
<1>2. ASSUME NEW ft \in FailureType, NEW n \in Node, NEW k \in Nat,
             RecordFailure(ft, n, k)
      PROVE  LastIsLatest'
    <2> DEFINE r == [type |-> ft, node |-> n, attempt |-> k]
    <2>1. r \in FailureRecord /\ history \in Seq(FailureRecord)
        BY DEF FailureRecord, TypeInv, TypeOK, NodesTypeOK
    <2>2. history' = RememberFailure(history, r) /\ lastFailure' = r
        BY <1>2 DEF RecordFailure
    <2> HIDE DEF r
    <2> QED  BY <2>1, <2>2, RememberLast DEF LastIsLatest
<1> QED  BY <1>1, <1>2, StepRecords

LEMMA FirstAttemptNext ==
    ASSUME TypeInv, FirstAttempt, [Next]_vars
    PROVE  FirstAttempt'
<1> SUFFICES ASSUME iteration' = 0 PROVE FirstAttempt'
    BY DEF FirstAttempt
<1>a. counters \in Counters /\ iteration \in Nat
    BY RunOnceAssumption DEF TypeInv, TypeOK, NodesTypeOK
<1> USE DEF Goto, Raise, stateVars
<1>1. CASE (LoadSpec("planner") \/ DriftPrepare) /\ UNCHANGED iteration
    BY <1>1 DEF FirstAttempt, LoadSpec, DriftPrepare
<1>2. CASE Planner("engineer") /\ UNCHANGED iteration
    <2>1. counters'.total = counters.total + 1
        BY <1>a, <1>2, BumpFact DEF Planner, CountedNode
    <2> QED  BY <1>2, <2>1 DEF FirstAttempt, Planner
<1>3. CASE Engineer("drift") /\ UNCHANGED iteration
    <2>1. counters'.total = counters.total + 1
        BY <1>a, <1>3, BumpFact DEF Engineer, CountedNode
    <2> QED  BY <1>3, <2>1 DEF FirstAttempt, Engineer
<1>4. CASE (\E f \in Files : StagePatch(f, "after_drift"))
               /\ UNCHANGED iteration
    <2>1. PICK f \in Files : StagePatch(f, "after_drift")
        BY <1>4
    <2>2. CASE StageTraversal(f, "after_drift")
        <3> DEFINE r == [type |-> "SECURITY_VIOLATION", node |-> "drift",
                         attempt |-> 2]
        <3>1. pc = "stage" /\ history = <<>> /\ counters.total = 2
            BY <1>4, <2>1 DEF FirstAttempt, StagePatch
        <3>2. history' = RememberFailure(<<>>, r) /\ drift' = "path-traversal"
            BY <2>2, <3>1 DEF StageTraversal, RecordFailure
        <3>3. r \in FailureRecord
            BY DEF FailureRecord, FailureType, Node
        <3>4. history' = <<r>>
            BY <3>2, <3>3, RememberFirst
        <3> QED  BY <1>4, <2>1, <2>2, <3>1, <3>2, <3>4
                 DEF FirstAttempt, StagePatch, StageTraversal
    <2>3. CASE StageWrite(f) \/ StageError(f)
        BY <1>4, <2>1, <2>3
        DEF FirstAttempt, StagePatch, StageWrite, StageError,
            NothingRecorded
    <2> QED  BY <2>1, <2>2, <2>3 DEF StagePatch
<1>5. CASE DriftVerify("after_drift") /\ UNCHANGED iteration
    BY <1>5 DEF FirstAttempt, DriftVerify
<1>6. CASE UNCHANGED <<pc, counters, history, drift, iteration>>
    BY <1>6 DEF FirstAttempt
<1>7. CASE pc' \notin {"load_spec", "planner", "engineer", "drift", "stage",
                       "after_drift"}
    BY <1>7 DEF FirstAttempt
<1>8. CASE \/ Sandbox("reviewer") \/ Reviewer("after_reviewer")
           \/ ArtifactEnter \/ ArtifactDone \/ DoHitl
    BY <1>7, <1>8 DEF Sandbox, Reviewer, ArtifactEnter, ArtifactDone, DoHitl
<1>9. CASE \E f \in Files : DropPatch(f)
    BY <1>7, <1>9
    DEF DropPatch, DropWrite, DropTraversal, DropRefused, DropFault
<1>10. CASE Edges
    <2>1. CASE AfterReviewer
        BY <1>a, <1>7, <2>1, AfterReviewerFact DEF NextIteration
    <2>2. CASE AfterDriftFound
        BY <1>a, <1>7, <2>2
        DEF AfterDriftFound, NextIteration, EscalateOrRetry
    <2>3. CASE \/ AfterDriftClean \/ AfterDriftUnrecordable
               \/ CrashInHandler \/ IterStartFails \/ DoHitlLast
        BY <1>7, <2>3
        DEF AfterDriftClean, AfterDriftUnrecordable, CrashInHandler,
            IterStartFails, DoHitlLast
    <2>4. CASE HandleException
        BY <1>a, <1>7, <2>4 DEF HandleException
    <2> QED  BY <1>10, <2>1, <2>2, <2>3, <2>4 DEF Edges
<1>11. CASE Human \/ (Ended /\ UNCHANGED iteration) \/ UNCHANGED vars
    BY <1>6, <1>11 DEF Human, HumanEdit, Ended, vars, nodeVars, resultVars
<1>12. CASE Nodes /\ UNCHANGED iteration
    BY <1>1, <1>2, <1>3, <1>4, <1>5, <1>8, <1>9, <1>12 DEF Nodes
<1> QED
    BY <1>10, <1>11, <1>12 DEF Next, Run

\* The handler of a drift starts another attempt only after the drift of the
\* first iteration, or without a trigger on record.
LEMMA DriftFoundWaits ==
    ASSUME TypeInv, LastIsLatest, FirstAttempt, NoTriggerWaits, HitlEnabled,
           AfterDriftFound, pc' = "planner"
    PROVE  DeferredOnly(history')
<1>a. /\ history \in Seq(FailureRecord) /\ counters.total \in Nat
      /\ pc = "after_drift" /\ drift # "no-drift"
    BY DEF TypeInv, TypeOK, NodesTypeOK, Counters, AfterDriftFound
<1> DEFINE r == [type |-> "SPEC_DRIFT", node |-> "drift",
                 attempt |-> counters.total]
<1>b. r \in FailureRecord
    BY <1>a DEF FailureRecord, FailureType, Node
<1>1. CASE AlreadyRecorded /\ NothingRecorded
    <2>1. history # <<>> /\ history[Len(history)].type = "SECURITY_VIOLATION"
        BY <1>1 DEF LastIsLatest, AlreadyRecorded, NoFailure
    <2>2. RecentTrigger(history')
        BY <1>1, <1>a, <2>1, LastTrigger DEF HitlTriggers, NothingRecorded
    <2>3. iteration = 0
        BY <2>2
        DEF AfterDriftFound, EscalateOrRetry, InterruptNext, ShouldInterrupt,
            Goto
    <2>4. history = <<[type |-> "SECURITY_VIOLATION", node |-> "drift",
                       attempt |-> 2]>>
        BY <1>a, <2>1, <2>3 DEF FirstAttempt
    <2> QED  BY <1>1, <2>4 DEF DeferredOnly, NothingRecorded
<1>2. CASE ~AlreadyRecorded /\ history' = RememberFailure(history, r)
    <2>1. /\ history' \in Seq(FailureRecord) /\ history' # <<>>
          /\ history'[Len(history')] = r
        BY <1>2, <1>a, <1>b, RememberLast
    <2>2. RecentTrigger(history')
        BY <2>1, LastTrigger DEF HitlTriggers
    <2>3. iteration = 0
        BY <2>2
        DEF AfterDriftFound, EscalateOrRetry, InterruptNext, ShouldInterrupt,
            Goto
    <2>4. history = <<>> /\ counters.total = 2
        <3>1. history # <<>> => lastFailure = history[Len(history)]
            BY DEF LastIsLatest
        <3> QED  BY <1>a, <1>2, <2>3, <3>1 DEF FirstAttempt, AlreadyRecorded
    <2>5. history' = <<r>>
        BY <1>2, <1>b, <2>4, RememberFirst
    <2> QED  BY <2>4, <2>5 DEF DeferredOnly
<1> QED  BY <1>1, <1>2 DEF AfterDriftFound, RecordFailure

\* Whatever it records itself, the failure it looks at calls for a human.
LEMMA DriftFoundLast ==
    ASSUME TypeInv, LastIsLatest, AfterDriftFound
    PROVE  history' # <<>> /\ history'[Len(history')].type \in HitlTriggers
<1> DEFINE r == [type |-> "SPEC_DRIFT", node |-> "drift",
                 attempt |-> counters.total]
<1>1. /\ history \in Seq(FailureRecord) /\ r \in FailureRecord
      /\ r.type \in HitlTriggers
    BY DEF TypeInv, TypeOK, NodesTypeOK, Counters, FailureRecord, FailureType,
           Node, HitlTriggers
<1> HIDE DEF r
<1>2. CASE AlreadyRecorded /\ NothingRecorded
    BY <1>2
    DEF LastIsLatest, AlreadyRecorded, NoFailure, NothingRecorded, HitlTriggers
<1>3. CASE history' = RememberFailure(history, r)
    BY <1>1, <1>3, RememberLast
<1> QED  BY <1>2, <1>3 DEF AfterDriftFound, RecordFailure, r

LEMMA NoTriggerWaitsNext ==
    ASSUME TypeInv, LastIsLatest, FirstAttempt, ReviewOnRecord, NoTriggerWaits,
           [Next]_vars
    PROVE  NoTriggerWaits'
<1> SUFFICES ASSUME HitlEnabled PROVE NoTriggerWaits'
    BY DEF NoTriggerWaits
<1>a. /\ history \in Seq(FailureRecord)
      /\ counters \in Counters /\ counters.total \in Nat
    BY DEF TypeInv, TypeOK, NodesTypeOK, Counters
<1> USE DEF Goto, Raise, stateVars, NothingRecorded
<1>1. CASE \/ LoadSpec("planner") \/ Planner("engineer") \/ Engineer("drift")
           \/ DriftPrepare \/ DriftVerify("after_drift")
           \/ Sandbox("reviewer") \/ ArtifactEnter \/ ArtifactDone
    <2>1. UNCHANGED history
        BY <1>1
        DEF LoadSpec, Planner, Engineer, DriftPrepare, DriftVerify, Sandbox,
            ArtifactEnter, ArtifactDone
    <2>2. /\ pc \in {"load_spec", "planner", "engineer", "drift", "stage",
                     "sandbox", "artifact", "drop"}
          /\ pc' # "hitl"
        BY <1>1
        DEF LoadSpec, Planner, Engineer, DriftPrepare, DriftVerify, Sandbox,
            ArtifactEnter, ArtifactDone
    <2> QED  BY <2>1, <2>2 DEF NoTriggerWaits
<1>12. CASE DoHitl
    BY <1>12 DEF DoHitl, NoTriggerWaits, BoundForHuman, Exceeded
<1>2. CASE \E f \in Files : StagePatch(f, "after_drift")
    <2>1. PICK f \in Files : StagePatch(f, "after_drift")
        BY <1>2
    <2>2. DeferredOnly(history)
        BY <2>1 DEF StagePatch, NoTriggerWaits
    <2>3. CASE StageWrite(f) \/ StageError(f)
        BY <2>1, <2>2, <2>3
        DEF StagePatch, StageWrite, StageError, NoTriggerWaits
    <2>4. CASE StageTraversal(f, "after_drift")
        BY <2>4
        DEF StageTraversal, RecordFailure, AlreadyRecorded, NoTriggerWaits
    <2> QED  BY <2>1, <2>3, <2>4 DEF StagePatch
<1>3. CASE Reviewer("after_reviewer")
    <2>1. CASE NothingRecorded
        BY <1>3, <2>1 DEF Reviewer, NoTriggerWaits
    <2>2. CASE /\ Verdict.verdict = "FAIL" /\ review' = Verdict
               /\ RecordFailure(Verdict.ftype, "reviewer", counters'.total)
               /\ pc' = "after_reviewer"
        <3> DEFINE r == [type |-> Verdict.ftype, node |-> "reviewer",
                         attempt |-> counters'.total]
        <3>1. counters'.total \in Nat
            BY <1>a, <1>3, BumpFact DEF Reviewer, CountedNode, Counters
        <3>2. r \in FailureRecord
            BY <1>3, <2>2, <3>1, VerdictType
            DEF Reviewer, FailureRecord, Node, TypeInv
        <3>3. history' = RememberFailure(history, r)
            BY <2>2 DEF RecordFailure
        <3>4. DeferredOnly(history) /\ review'.ftype = r.type
            BY <1>3, <2>2 DEF Reviewer, NoTriggerWaits
        <3>5. DeferredOnly(history') \/ review'.ftype \in HitlTriggers
            BY <1>a, <3>2, <3>3, <3>4, RememberDeferred
        <3> QED  BY <2>2, <3>5 DEF NoTriggerWaits
    <2> QED  BY <1>3, <2>1, <2>2 DEF Reviewer
<1>4. CASE \E f \in Files : DropPatch(f)
    <2>1. FromException(PathTraversalError) \in HitlTriggers
        BY DEF FromException, PathTraversalError, FailureOfClass, HitlTriggers
    <2> QED  BY <1>4, <2>1
             DEF NoTriggerWaits, DropPatch, DropWrite, DropTraversal,
                 DropRefused, DropFault
<1>5. CASE AfterDriftClean
    BY <1>5 DEF AfterDriftClean, NoTriggerWaits
<1>6. CASE AfterDriftFound
    <2>1. pc' \in {"planner", "hitl", "hitl_last"}
        BY <1>6, NextIterationFact
        DEF AfterDriftFound, EscalateOrRetry, TypeInv, TypeOK
    <2>2. BoundForHuman'
        BY <1>6, DriftFoundLast DEF BoundForHuman
    <2> QED  BY <1>6, <2>1, <2>2, DriftFoundWaits DEF NoTriggerWaits
<1>7. CASE AfterDriftUnrecordable
    BY <1>7 DEF AfterDriftUnrecordable, NoTriggerWaits
<1>8. CASE AfterReviewer
    <2>1. history' = history /\ pc = "after_reviewer"
        BY <1>8 DEF AfterReviewer
    <2>2. CASE /\ pc' = "hitl" /\ review.verdict # "PASS"
               /\ review.ftype \in HitlTriggers \/ Exceeded(counters)
        <3>1. counters' = counters
            BY <1>8 DEF AfterReviewer
        <3>2. BoundForHuman'
            BY <2>1, <2>2, <3>1 DEF ReviewOnRecord, BoundForHuman
        <3> QED  BY <2>2, <3>2 DEF NoTriggerWaits
    <2>5. CASE pc' = "hitl_last"
        BY <2>5 DEF NoTriggerWaits
    <2>3. CASE pc' = "planner" /\ review.ftype \notin HitlTriggers
        BY <2>1, <2>3 DEF NoTriggerWaits
    <2>4. CASE pc' = "artifact" /\ review.verdict = "PASS"
        <3>1. review.ftype \notin HitlTriggers
            BY <2>1, <2>4 DEF ReviewOnRecord, HitlTriggers
        <3> QED  BY <2>1, <2>4, <3>1 DEF NoTriggerWaits
    <2> QED  BY <1>8, <2>2, <2>3, <2>4, <2>5, AfterReviewerFact, NextIterationFact
             DEF TypeInv, TypeOK
<1>9. CASE HandleException
    <2> DEFINE r == [type |-> FromException(exc), node |-> "workflow",
                     attempt |-> counters.total]
    <2>1. r \in FailureRecord
        BY <1>a, <1>9, FromExceptionType
        DEF HandleException, TypeInv, NodesInv, ExceptHasException,
            FailureRecord, Node
    <2>2. history' = RememberFailure(history, r) /\ pc = "except"
        BY <1>9 DEF HandleException, RecordFailure
    <2>3. CASE pc' = "hitl_last"
        BY <2>3 DEF NoTriggerWaits
    <2>4. CASE pc' = "planner" /\ ~InterruptNext
        <3>1. /\ history' \in Seq(FailureRecord) /\ history' # <<>>
              /\ history'[Len(history')] = r
            BY <1>a, <2>1, <2>2, RememberLast
        <3>2. r.type \notin HitlTriggers
            BY <2>4, <3>1, LastTrigger DEF InterruptNext, ShouldInterrupt
        <3>3. ~Exceeded(counters) /\ ~RecentTrigger(history')
            BY <1>9, <2>4
            DEF HandleException, InterruptNext, ShouldInterrupt, Exceeded
        <3>4. DeferredOnly(history) \/ BoundForHuman
            BY <2>2, <3>2 DEF NoTriggerWaits
        <3>5. DeferredOnly(history')
            BY <1>a, <2>1, <2>2, <3>2, <3>3, <3>4, RememberDeferred,
               RememberRecent DEF BoundForHuman
        <3> QED  BY <2>4, <3>5 DEF NoTriggerWaits
    <2> QED  BY <1>9, <2>3, <2>4 DEF HandleException
<1>10. CASE CrashInHandler \/ IterStartFails \/ DoHitlLast
    BY <1>10 DEF CrashInHandler, IterStartFails, DoHitlLast, NoTriggerWaits
<1>11. CASE Human \/ Ended \/ UNCHANGED vars
    BY <1>11
    DEF Human, HumanEdit, Ended, vars, nodeVars, resultVars, NoTriggerWaits,
        AlreadyRecorded, BoundForHuman, Exceeded
<1> QED
    BY <1>1, <1>2, <1>3, <1>4, <1>5, <1>6, <1>7, <1>8, <1>9, <1>10, <1>11,
       <1>12
    DEF Next, Run, Nodes, Edges

LEMMA ReviewOnRecordNext ==
    ASSUME TypeInv, ReviewOnRecord, [Next]_vars
    PROVE  ReviewOnRecord'
<1> USE DEF Goto, Raise, stateVars, resultVars
<1>1. CASE pc' # "after_reviewer"
    BY <1>1 DEF ReviewOnRecord
<1>2. CASE UNCHANGED <<pc, history, review>>
    BY <1>2 DEF ReviewOnRecord
<1>3. CASE Reviewer("after_reviewer")
    <2>1. CASE /\ Verdict.verdict = "FAIL" /\ review' = Verdict
               /\ RecordFailure(Verdict.ftype, "reviewer", counters'.total)
        <3> DEFINE r == [type |-> Verdict.ftype, node |-> "reviewer",
                         attempt |-> counters'.total]
        <3>1. counters'.total \in Nat /\ history \in Seq(FailureRecord)
            BY <1>3, BumpFact
            DEF Reviewer, CountedNode, Counters, TypeInv, TypeOK, NodesTypeOK
        <3>2. r \in FailureRecord
            BY <1>3, <2>1, <3>1, VerdictType
            DEF Reviewer, FailureRecord, Node, TypeInv
        <3>3. history' = RememberFailure(history, r)
            BY <2>1 DEF RecordFailure
        <3>4. history' # <<>> /\ history'[Len(history')] = r
            BY <3>1, <3>2, <3>3, RememberLast
        <3> QED  BY <2>1, <3>4 DEF ReviewOnRecord
    <2>2. CASE Verdict.verdict = "PASS" /\ review' = Verdict
        <3>1. Verdict = [verdict |-> "PASS", ftype |-> "NONE"]
            BY <2>2 DEF Verdict
        <3> QED  BY <2>2, <3>1 DEF ReviewOnRecord
    <2>3. CASE pc' = "except"
        BY <1>1, <2>3
    <2> QED  BY <1>3, <2>1, <2>2, <2>3 DEF Reviewer
<1>4. CASE \/ LoadSpec("planner") \/ Planner("engineer") \/ Engineer("drift")
           \/ DriftPrepare \/ DriftVerify("after_drift")
           \/ Sandbox("reviewer") \/ ArtifactEnter \/ ArtifactDone \/ DoHitl
    BY <1>1, <1>4
    DEF LoadSpec, Planner, Engineer, DriftPrepare, DriftVerify, Sandbox,
        ArtifactEnter, ArtifactDone, DoHitl
<1>5. CASE \E f \in Files : StagePatch(f, "after_drift") \/ DropPatch(f)
    BY <1>1, <1>5
    DEF StagePatch, StageWrite, StageTraversal, StageError, DropPatch,
        DropWrite, DropTraversal, DropRefused, DropFault
<1>6. CASE Edges
    <2>1. CASE AfterReviewer
        BY <1>1, <2>1, AfterReviewerFact DEF NextIteration
    <2>2. CASE ~AfterReviewer
        BY <1>1, <1>6, <2>2
        DEF Edges, AfterDriftClean, AfterDriftFound, AfterDriftUnrecordable,
            HandleException, CrashInHandler, IterStartFails, DoHitlLast,
            NextIteration, EscalateOrRetry
    <2> QED  BY <2>1, <2>2
<1>7. CASE Human \/ Ended \/ UNCHANGED vars
    BY <1>2, <1>7 DEF Human, HumanEdit, Ended, vars, nodeVars
<1> QED
    BY <1>3, <1>4, <1>5, <1>6, <1>7 DEF Next, Run, Nodes

LEMMA HandedOverNext ==
    ASSUME TypeInv, EndedIsDone, ReviewOnRecord, HandedOver, [Next]_vars
    PROVE  HandedOver'
<1>a. /\ history \in Seq(FailureRecord)
      /\ iteration \in 0..(MaxIterations - 1) /\ MaxIterations \in Nat
    BY RunOnceAssumption DEF TypeInv, TypeOK, NodesTypeOK
<1> USE DEF Goto, Raise, stateVars
<1>1. CASE pc' \notin {"hitl", "hitl_last"} /\ outcome' # "HITL"
    BY <1>1 DEF HandedOver
<1>2. CASE UNCHANGED <<pc, outcome, counters, history, iteration>>
    BY <1>2 DEF HandedOver, ShouldInterrupt
<1>3. CASE (DoHitl /\ UNCHANGED iteration) \/ DoHitlLast
    BY <1>3 DEF HandedOver, DoHitl, DoHitlLast, ShouldInterrupt
<1>4. CASE ArtifactDone \/ CrashInHandler \/ IterStartFails
    BY <1>1, <1>4 DEF ArtifactDone, CrashInHandler, IterStartFails, EndedIsDone
<1>5. CASE /\ pc # "done" /\ pc' \notin {"hitl", "hitl_last"}
           /\ outcome' = outcome
    BY <1>1, <1>5 DEF EndedIsDone
<1>6. CASE \/ LoadSpec("planner") \/ Planner("engineer") \/ Engineer("drift")
           \/ DriftPrepare \/ DriftVerify("after_drift")
           \/ Sandbox("reviewer") \/ Reviewer("after_reviewer")
           \/ ArtifactEnter
    BY <1>5, <1>6
    DEF LoadSpec, Planner, Engineer, DriftPrepare, DriftVerify, Sandbox,
        Reviewer, ArtifactEnter
<1>7. CASE \E f \in Files : StagePatch(f, "after_drift") \/ DropPatch(f)
    BY <1>5, <1>7
    DEF StagePatch, StageWrite, StageTraversal, StageError, DropPatch,
        DropWrite, DropTraversal, DropRefused, DropFault
<1>8. CASE AfterDriftClean \/ AfterDriftUnrecordable
    BY <1>5, <1>8 DEF AfterDriftClean, AfterDriftUnrecordable
<1>9. CASE AfterDriftFound
    <2>1. CASE InterruptNext
        BY <1>9, <1>a, <2>1, NextIterationFact
        DEF AfterDriftFound, EscalateOrRetry, HandedOver, InterruptNext,
            EndedIsDone
    <2>2. CASE NextIteration
        BY <1>9, <1>a, <2>2, NextIterationFact
        DEF AfterDriftFound, HandedOver, EndedIsDone
    <2> QED  BY <1>9, <2>1, <2>2 DEF AfterDriftFound, EscalateOrRetry
<1>10. CASE AfterReviewer
    <2>1. pc = "after_reviewer" /\ outcome' = outcome
          /\ UNCHANGED <<counters, history>>
        BY <1>10 DEF AfterReviewer
    <2>2. CASE /\ review.verdict # "PASS"
               /\ review.ftype \in HitlTriggers \/ Exceeded(counters)
               /\ UNCHANGED iteration
        <3>1. history # <<>> /\ history[Len(history)].type = review.ftype
            BY <2>1, <2>2 DEF ReviewOnRecord
        <3>2. ShouldInterrupt(counters, history)
            BY <1>a, <2>2, <3>1, LastTrigger DEF ShouldInterrupt
        <3> QED  BY <2>1, <3>2 DEF HandedOver
    <2>3. CASE NextIteration
        BY <1>a, <2>1, <2>3, NextIterationFact DEF HandedOver, EndedIsDone
    <2>4. CASE pc' = "artifact"
        BY <1>5, <2>1, <2>4
    <2> QED  BY <1>10, <2>2, <2>3, <2>4, AfterReviewerFact
<1>11. CASE HandleException
    BY <1>a, <1>11
    DEF HandleException, HandedOver, InterruptNext, EndedIsDone
<1>12. CASE Human \/ (Ended /\ UNCHANGED iteration) \/ UNCHANGED vars
    BY <1>2, <1>12 DEF Human, HumanEdit, Ended, vars, nodeVars
<1> QED
    BY <1>3, <1>4, <1>6, <1>7, <1>8, <1>9, <1>10, <1>11, <1>12
    DEF Next, Run, Nodes, Edges, Human

LEMMA EscalationNext == EscalationInv /\ [Next]_vars => EscalationInv'
BY SecurityNext, LastIsLatestNext, FirstAttemptNext, NoTriggerWaitsNext,
   ReviewOnRecordNext, HandedOverNext
DEF EscalationInv, SecurityInv

\* With HITL enabled no attempt starts with a failure on record that calls for
\* a human, but for the drift that the first iteration defers, however short the
\* history, as long as the controller looks at the last two failures of it.
THEOREM TriggersStopTheRepair == Spec => []TriggersStopRepair
<1>1. EscalationInv => TriggersStopRepair
    BY DEF EscalationInv, NoTriggerWaits, DeferredOnly, TriggersStopRepair
<1> QED  BY <1>1, EscalationInit, EscalationNext, PTL DEF Spec

\* Every way to a human is justified by the counters or by the history that
\* the human is shown, or the iterations are used up.
THEOREM HandoversAreJustified == Spec => []HitlJustified
<1>1. EscalationInv => HitlJustified
    BY DEF EscalationInv, HandedOver, HitlJustified
<1> QED  BY <1>1, EscalationInit, EscalationNext, PTL DEF Spec

\* The failure the planner reads next is the one the history ends with, and the
\* history never outgrows its bound.
THEOREM LatestFailureLast == Spec => LastFailureIsLatest
<1>1. TypeInv /\ [Next]_vars =>
          [lastFailure' # lastFailure =>
               /\ history'[Len(history')] = lastFailure'
               /\ Len(history') <= MaxFailures]_vars
    <2> SUFFICES ASSUME TypeInv, [Next]_vars, lastFailure' # lastFailure
                 PROVE  /\ history'[Len(history')] = lastFailure'
                        /\ Len(history') <= MaxFailures
        OBVIOUS
    <2>1. PICK ft \in FailureType, n \in Node, k \in Nat : RecordFailure(ft, n, k)
        BY StepRecords DEF NothingRecorded
    <2> DEFINE r == [type |-> ft, node |-> n, attempt |-> k]
    <2>2. r \in FailureRecord /\ history \in Seq(FailureRecord)
        BY DEF FailureRecord, TypeInv, TypeOK, NodesTypeOK
    <2>3. history' = RememberFailure(history, r) /\ lastFailure' = r
        BY <2>1 DEF RecordFailure
    <2> HIDE DEF r
    <2> QED  BY <2>2, <2>3, RememberLast
<1> QED  BY <1>1, TypeInit, TypeNext, PTL DEF Spec, LastFailureIsLatest

-----------------------------------------------------------------------------
\* Failures that cannot be recorded

\* With traces the record does not accept, nothing but the first iteration has
\* happened; with traces the sandbox's record does not accept, a failed review
\* is on its way out.
NothingRecordable ==
    /\ ~TraceOK => /\ iteration = 0 /\ lastFailure = NoFailure
                   /\ pc \notin {"hitl", "hitl_last"} /\ outcome # "HITL"
    /\ ~SandboxTraceOK /\ review.verdict = "FAIL" =>
           (pc = "except" /\ exc.multiline) \/ outcome = "CRASH"

RecordInv ==
    /\ EscalationInv /\ AttemptInv
    /\ NothingRecordable

\* Where the sandbox's record is accepted, so are the others.
LEMMA TracesFact == SandboxTraceOK => TraceOK
BY DEF SandboxTraceOK, TraceOK

LEMMA NothingRecordableNodes ==
    ASSUME NodesInv, EndedIsDone, NothingRecordable, Nodes,
           UNCHANGED <<setup, iteration>>
    PROVE  NothingRecordable'
<1>a. TraceOK' = TraceOK /\ SandboxTraceOK' = SandboxTraceOK
    BY DEF TraceOK, SandboxTraceOK
<1> USE <1>a DEF Goto, Raise, stateVars, resultVars, NothingRecorded
<1>1. CASE Reviewer("after_reviewer")
    <2>1. /\ pc = "reviewer" /\ pc' \notin {"hitl", "hitl_last"}
          /\ outcome' = outcome
          /\ outcome = "running"
        BY <1>1 DEF Reviewer, EndedIsDone
    <2>2. ~SandboxTraceOK => UNCHANGED <<history, lastFailure>>
        BY <1>1 DEF Reviewer, ValidRecord
    <2>3. ~SandboxTraceOK /\ review'.verdict = "FAIL" =>
              pc' = "except" /\ exc'.multiline
        <3>1. CASE UNCHANGED review
            BY <2>1, <3>1 DEF NothingRecordable
        <3>2. CASE review' = Verdict /\ Verdict.verdict = "PASS"
            BY <3>2
        <3>3. CASE ~ValidRecord(counters'.total, FALSE, SandboxTraceOK)
                   /\ exc' = ValidationError /\ pc' = "except"
            BY <3>3 DEF ValidationError
        <3>4. CASE ValidRecord(counters'.total, FALSE, SandboxTraceOK)
            BY <3>4 DEF ValidRecord
        <3> QED  BY <1>1, <3>1, <3>2, <3>3, <3>4 DEF Reviewer
    <2> QED  BY <2>1, <2>2, <2>3, TracesFact DEF NothingRecordable
<1>b. CASE /\ UNCHANGED review /\ pc # "except" /\ outcome = "running"
           /\ ~TraceOK => /\ UNCHANGED lastFailure
                          /\ pc' \notin {"hitl", "hitl_last"}
                          /\ outcome' # "HITL"
    BY <1>b DEF NothingRecordable
<1>2. CASE \/ LoadSpec("planner") \/ Planner("engineer") \/ Engineer("drift")
           \/ DriftPrepare \/ DriftVerify("after_drift")
           \/ Sandbox("reviewer") \/ ArtifactEnter
    BY <1>2, <1>b
    DEF LoadSpec, Planner, Engineer, DriftPrepare, DriftVerify, Sandbox,
        ArtifactEnter, EndedIsDone
<1>3. CASE \E f \in Files : StagePatch(f, "after_drift") \/ DropPatch(f)
    BY <1>3, <1>b
    DEF StagePatch, StageWrite, StageTraversal, StageError, DropPatch,
        DropWrite, DropTraversal, DropRefused, DropFault, ValidRecord,
        EndedIsDone
<1>4. CASE ArtifactDone
    BY <1>4, <1>b DEF ArtifactDone, EndedIsDone
<1>5. CASE DoHitl
    BY <1>5, <1>b DEF DoHitl, EndedIsDone, NothingRecordable
<1> QED
    BY <1>1, <1>2, <1>3, <1>4, <1>5 DEF Nodes

LEMMA NothingRecordableEdges ==
    ASSUME EscalationInv, EndedIsDone, NothingRecordable, Edges,
           UNCHANGED setup
    PROVE  NothingRecordable'
<1>a. TraceOK' = TraceOK /\ SandboxTraceOK' = SandboxTraceOK
    BY DEF TraceOK, SandboxTraceOK
<1> USE <1>a DEF Goto, Raise, stateVars, resultVars, NothingRecorded
<1>1. CASE AfterDriftClean \/ AfterDriftUnrecordable
    BY <1>1
    DEF AfterDriftClean, AfterDriftUnrecordable, NothingRecordable,
        EndedIsDone
<1>2. CASE AfterDriftFound
    <2>1. TraceOK
        BY <1>2
        DEF AfterDriftFound, ValidRecord, AlreadyRecorded, NothingRecordable,
            NoFailure
    <2>2. ~(~SandboxTraceOK /\ review.verdict = "FAIL") /\ UNCHANGED review
        BY <1>2 DEF AfterDriftFound, NothingRecordable, EndedIsDone
    <2> QED  BY <2>1, <2>2 DEF NothingRecordable
<1>3. CASE AfterReviewer
    <2>1. /\ pc = "after_reviewer" /\ outcome = "running" /\ outcome' = outcome
          /\ UNCHANGED <<review, lastFailure>>
        BY <1>3 DEF AfterReviewer, EndedIsDone
    <2>2. ~SandboxTraceOK => review.verdict = "PASS"
        BY <2>1 DEF NothingRecordable, EscalationInv, ReviewOnRecord
    <2>3. ~SandboxTraceOK => pc' = "artifact" /\ UNCHANGED iteration
        BY <1>3, <2>2, AfterReviewerFact
    <2> QED  BY <2>1, <2>2, <2>3, TracesFact DEF NothingRecordable
<1>4. CASE HandleException
    <2>1. TraceOK /\ UNCHANGED review /\ pc = "except" /\ outcome = "running"
          /\ ~exc.multiline
        BY <1>4 DEF HandleException, ValidRecord, EndedIsDone
    <2> QED  BY <2>1 DEF NothingRecordable
<1>5. CASE CrashInHandler \/ IterStartFails
    BY <1>5 DEF CrashInHandler, IterStartFails, NothingRecordable
<1>6. CASE DoHitlLast
    BY <1>6 DEF DoHitlLast, NothingRecordable, EndedIsDone
<1> QED
    BY <1>1, <1>2, <1>3, <1>4, <1>5, <1>6 DEF Edges

LEMMA RecordInvNext == RecordInv /\ [Next]_vars => RecordInv'
<1> SUFFICES ASSUME RecordInv, [Next]_vars PROVE RecordInv'
    OBVIOUS
<1>a. /\ EscalationInv' /\ AttemptInv' /\ EscalationInv /\ NothingRecordable
      /\ NodesInv /\ EndedIsDone
    BY EscalationNext, AttemptNext
    DEF RecordInv, EscalationInv, SecurityInv, TypeInv
<1>1. CASE Nodes /\ UNCHANGED <<setup, iteration>>
    BY <1>1, <1>a, NothingRecordableNodes DEF RecordInv
<1>2. CASE Edges /\ UNCHANGED setup
    BY <1>2, <1>a, NothingRecordableEdges DEF RecordInv
<1>3. CASE UNCHANGED <<setup, pc, lastFailure, review, outcome, exc, iteration>>
    BY <1>3, <1>a
    DEF RecordInv, NothingRecordable, TraceOK, SandboxTraceOK
<1>4. CASE Human \/ (Ended /\ UNCHANGED iteration) \/ UNCHANGED vars
    BY <1>3, <1>4
    DEF Human, HumanEdit, Ended, vars, nodeVars, stateVars, resultVars
<1> QED  BY <1>1, <1>2, <1>4 DEF Next, Run

\* A failure that cannot be recorded ends the run: with traces elsewhere in the
\* project there is no second attempt and no hand-over, with traces outside of
\* it no retry after a failed review.
THEOREM UnrecordableFailuresStop == Spec => []UnrecordableStops
<1>1. Init => RecordInv
    BY EscalationInit, AttemptInit
    DEF Init, NodesInit, RecordInv, NothingRecordable, NoReview
<1>2. RecordInv => UnrecordableStops
    <2> SUFFICES ASSUME RecordInv PROVE UnrecordableStops
        OBVIOUS
    <2>1. iteration = 0 => counters.planner <= 1
        BY DEF RecordInv, AttemptInv, AttemptsMatchIterations
    <2> QED  BY <2>1 DEF RecordInv, NothingRecordable, UnrecordableStops
<1> QED  BY <1>1, <1>2, RecordInvNext, PTL DEF Spec
-----------------------------------------------------------------------------
\* What a passing run has dropped

\* Where the edges lead, and what they leave alone.
LEMMA EdgeMoves ==
    ASSUME NodesInv, Edges
    PROVE  /\ UNCHANGED <<patches, work, disk, edits, todo, resultVars>>
           /\ stagingDir' => stagingDir
           /\ pc # "done" /\ outcome' \in {outcome, "HITL", "CRASH"}
           /\ \/ pc' \in {"planner", "hitl", "hitl_last", "except", "done"}
              \/ pc = "after_drift" /\ drift = "no-drift" /\ pc' = "sandbox"
              \/ /\ pc = "after_reviewer" /\ review.verdict = "PASS"
                 /\ pc' = "artifact"
<1> USE DEF Goto, Raise, stateVars, stagingVars, diskVars, CleanupStaging
<1>1. CASE AfterReviewer
    BY <1>1, AfterReviewerFact DEF AfterReviewer, NextIteration
<1>2. CASE AfterDriftFound
    BY <1>2 DEF AfterDriftFound, NextIteration, EscalateOrRetry
<1>3. CASE AfterDriftClean
    BY <1>3 DEF AfterDriftClean
<1>4. CASE AfterDriftUnrecordable
    BY <1>4 DEF AfterDriftUnrecordable
<1>5. CASE HandleException \/ CrashInHandler
    BY <1>5 DEF HandleException, CrashInHandler
<1>6. CASE IterStartFails \/ DoHitlLast
    BY <1>6 DEF IterStartFails, IterStart, DoHitlLast
<1> QED  BY <1>1, <1>2, <1>3, <1>4, <1>5, <1>6 DEF Edges

RunDropInv == SecurityInv /\ DropInv

LEMMA RunDropInit == ProjectsWhole /\ Init => RunDropInv
BY SecurityInit, NodesInitDrop DEF Init, RunDropInv

LEMMA RunDropNext ==
    ASSUME PlainBodies
    PROVE  RunDropInv /\ [Next]_vars => RunDropInv'
<1> SUFFICES ASSUME RunDropInv, [Next]_vars PROVE DropInv'
    BY SecurityNext DEF RunDropInv
<1>a. NodesInv /\ EndedIsDone /\ DropInv
    BY DEF RunDropInv, SecurityInv, TypeInv
<1>1. CASE Nodes
    BY <1>a, <1>1, NodeDrop DEF Nodes, NodeStep
<1>2. CASE Edges
    BY <1>a, <1>2, EdgeMoves, EdgeDrop
<1>3. CASE Human
    BY <1>a, <1>3, HumanDrop DEF Human
<1>4. CASE UNCHANGED nodeVars
    BY <1>a, <1>4, StutterDrop
<1> QED  BY <1>1, <1>2, <1>3, <1>4 DEF Next, Run, Ended, vars

\* A run that passes leaves every patch it accumulated in the project, and each
\* of them had been staged, if no body is a token.
THEOREM PassedIsDropped ==
    ASSUME ProjectsWhole, PlainBodies
    PROVE  Spec => []PassMeansDropped
<1>1. RunDropInv => PassMeansDropped
    BY PassedFromInvariant DEF RunDropInv
<1>2. Init => RunDropInv
    BY RunDropInit
<1> QED  BY <1>1, <1>2, RunDropNext, PTL DEF Spec

\* The program changes the project only while it drops patches that are in the
\* staging directory, which had no drift, passed its tests and was reviewed.
THEOREM DropsAreTested ==
    ASSUME ProjectsWhole, PlainBodies
    PROVE  Spec => DropsOnlyTested
<1>1. ASSUME RunDropInv, [Next]_vars, disk' # disk, edits' = edits
      PROVE  /\ pc = "drop"
             /\ drift = "no-drift" /\ sandbox.passed
             /\ review.verdict = "PASS"
             /\ \A f \in PatchedFiles : HasSection(work.tree[f], patches[f])
    <2>1. \E f \in Files : DropPatch(f)
        <3>1. ~(\E f \in Files : HumanEdit(f))
            BY <1>1, NodesAssumption
            DEF HumanEdit, RunDropInv, SecurityInv, TypeInv, NodesInv,
                NodesTypeOK
        <3>2. ~Edges
            BY <1>1, EdgeMoves DEF RunDropInv, SecurityInv, TypeInv
        <3> QED
            BY <1>1, <3>1, <3>2
            DEF Next, Run, Nodes, Human, Ended, vars, nodeVars, diskVars,
                LoadSpec, Planner, Engineer, DriftPrepare, StagePatch,
                DriftVerify, Sandbox, Reviewer, ArtifactEnter, ArtifactDone,
                DoHitl
    <2>2. pc = "drop"
        BY <2>1 DEF DropPatch
    <2> QED  BY <1>1, <2>2 DEF RunDropInv, DropInv, StagedInv, Carries
<1>2. Init => RunDropInv
    BY RunDropInit
<1> QED  BY <1>1, <1>2, RunDropNext, PTL DEF Spec, DropsOnlyTested

RunTestedInv(of) == RunDropInv /\ TestedInv(of)

LEMMA RunTestedNext ==
    ASSUME PlainBodies, NEW of, OneSection(of), RunTestedInv(of), [Next]_vars
    PROVE  RunTestedInv(of)'
<1>a. /\ NodesInv /\ EndedIsDone /\ WholeInv /\ TestedInv(of)
      /\ RunDropInv'
    BY RunDropNext DEF RunTestedInv, RunDropInv, DropInv, SecurityInv, TypeInv
<1> SUFFICES TestedInv(of)'
    BY <1>a DEF RunTestedInv
<1>1. CASE Nodes
    BY <1>a, <1>1, NodeTested DEF Nodes, NodeStep
<1>2. CASE Edges
    BY <1>a, <1>2, EdgeMoves, EdgeTested DEF resultVars
<1>3. CASE Human
    BY <1>a, <1>3, HumanTested DEF Human
<1>4. CASE UNCHANGED nodeVars
    BY <1>a, <1>4, StutterTested
<1> QED  BY <1>1, <1>2, <1>3, <1>4 DEF Next, Run, Ended, vars

\* If the engineer only ever writes one section of a file, and no body that is a
\* token, what a passing run leaves in the platform is the tree the staging
\* directory held during the tests, however many failed iterations, half-done
\* drops and kept staging directories came before.
THEOREM DroppedWasTested ==
    ASSUME ProjectsWhole, PlainBodies, NEW of, OneSection(of)
    PROVE  Spec => []DroppedIsTested
<1>1. Init => RunTestedInv(of)
    BY RunDropInit, NodesInitTested DEF Init, RunTestedInv
<1>2. RunTestedInv(of) /\ [Next]_vars => RunTestedInv(of)'
    BY RunTestedNext
<1>3. RunTestedInv(of) => DroppedIsTested
    <2> SUFFICES ASSUME RunTestedInv(of), outcome = "PASS", edits = 0,
                        NEW f \in PatchedFiles \ StorageFiles
                 PROVE  disk.tree[f] = work.tree[f]
        BY DEF DroppedIsTested
    <2>1. f \in PlatformFiles
        BY DEF RunTestedInv, RunDropInv, SecurityInv, DroppedWritable,
               ProjectWritable, StagingWritable
    <2> QED  BY <2>1 DEF RunTestedInv, TestedInv, TestedNow
<1> HIDE DEF RunTestedInv
<1> QED  BY <1>1, <1>2, <1>3, PTL DEF Spec

\* Starting from projects that pass the writer's check, a run that no human
\* interferes with leaves no file torn but by a write of its own that was cut
\* off, whose patch it keeps to drop again, and never passes with a torn file.
THEOREM WritesKeepIntegrity ==
    ASSUME \A d \in InitDisks : IntegrityOK(d)
    PROVE  Spec => []IntegrityKept
<1> DEFINE Inv == SecurityInv /\ TornInv
<1>1. Init => Inv
    BY SecurityInit, NodesInitTorn DEF Init
<1>2. ASSUME Inv, [Next]_vars
      PROVE  Inv'
    <2>a. NodesInv /\ EndedIsDone /\ SecurityInv'
        BY <1>2, SecurityNext DEF SecurityInv, TypeInv
    <2>1. CASE Nodes
        BY <1>2, <2>a, <2>1, NodeTorn DEF Nodes, NodeStep
    <2>2. CASE Human
        BY <2>a, <2>2, HumanTorn DEF Human
    <2>3. CASE UNCHANGED nodeVars
        BY <1>2, <2>a, <2>3, StutterTorn
    <2>4. CASE Edges
        BY <1>2, <2>a, <2>4, EdgeMoves, EdgeTorn DEF EndedIsDone
    <2> QED  BY <1>2, <2>1, <2>2, <2>3, <2>4 DEF Next, Run, Ended, vars
<1>3. Inv => IntegrityKept
    BY IntegrityFromInvariant
<1> HIDE DEF Inv
<1> QED  BY <1>1, <1>2, <1>3, PTL DEF Spec

-----------------------------------------------------------------------------
\* Staging directories are accounted for

\* An iteration records at most two failures: one of a node, and the drift or
\* the exception that ends the iteration.
BeforeFailure ==
    \/ pc \in {"load_spec", "planner", "engineer", "drift", "stage", "sandbox",
               "reviewer", "artifact", "drop"}
    \/ pc = "after_drift" /\ drift # "path-traversal"
    \/ pc = "after_reviewer" /\ review.verdict = "PASS"

HistoryLength ==
    /\ BeforeFailure => Len(history) <= 2 * iteration
    /\ pc \in {"after_drift", "after_reviewer", "hitl", "except"}
           => Len(history) <= 2 * iteration + 1
    /\ Len(history) <= 2 * iteration + 2

\* A traversal met in staging is on record when its drift is looked at.
TraversalOnRecord ==
    pc = "after_drift" /\ drift = "path-traversal" => AlreadyRecorded

Accounted == Cardinality(RecordedNodeFailures)

\* The directories that were made and are not known to be gone: an iteration
\* that has not got past the drift node has made none yet.
Total == leaked + undeleted + IF stagingDir THEN 1 ELSE 0
DirectoriesBounded ==
    /\ pc \in {"load_spec", "planner", "engineer", "drift", "stage"}
           => Total <= iteration
    /\ Total <= iteration + 1

AccountInv ==
    /\ SecurityInv /\ HistoryLength /\ TraversalOnRecord
    /\ StagingAccounted /\ DirectoriesBounded

\* Removing the directory never makes one more.
LEMMA CleanupTotal ==
    ASSUME CleanupStaging, stagingDir \in BOOLEAN, leaked \in Nat,
           undeleted \in Nat
    PROVE  /\ Total \in Nat /\ Total' \in Nat /\ Total' <= Total
           /\ leaked' = leaked /\ ~stagingDir'
<1>1. stagingDir' = FALSE /\ leaked' = leaked
    BY DEF CleanupStaging
<1>2. undeleted' = undeleted \/ (stagingDir /\ undeleted' = undeleted + 1)
    BY DEF CleanupStaging
<1>3. Total' = leaked' + undeleted'
    BY <1>1, <1>2 DEF Total
<1>4. CASE stagingDir
    <2>1. Total = leaked + undeleted + 1
        BY <1>4 DEF Total
    <2> QED  BY <1>1, <1>2, <1>3, <2>1
<1>5. CASE ~stagingDir
    <2>1. Total = leaked + undeleted
        BY <1>5 DEF Total
    <2> QED  BY <1>1, <1>2, <1>3, <1>5, <2>1
<1> QED  BY <1>4, <1>5

\* The drift node makes at most one directory; no other node makes any.
LEMMA NodeTotal ==
    ASSUME NodesInv, EndedIsDone, Nodes, DirectoriesBounded,
           iteration \in Nat, iteration' = iteration
    PROVE  DirectoriesBounded'
<1>a. stagingDir \in BOOLEAN /\ leaked \in Nat /\ undeleted \in Nat
    BY DEF NodesInv, NodesTypeOK
<1>b. Total \in Nat
    BY <1>a DEF Total
<1> USE DEF Goto, Raise
<1>1. CASE DriftPrepare \/ DriftVerify("after_drift")
           \/ \E f \in Files : StagePatch(f, "after_drift")
    <2>1. pc \in {"drift", "stage"}
        BY <1>1 DEF DriftPrepare, DriftVerify, StagePatch
    <2>2. \/ /\ UNCHANGED <<stagingDir, leaked, undeleted>>
             /\ pc' \in {"stage", "after_drift", "except"}
          \/ /\ pc' \in {"after_drift", "except"}
             /\ \/ stagingDir' = TRUE /\ UNCHANGED <<leaked, undeleted>>
                \/ AbandonStaging
                \/ /\ leaked' \in {leaked, leaked + 1}
                   /\ UNCHANGED <<stagingDir, undeleted>>
        BY <1>1
        DEF DriftPrepare, DriftVerify, StagePatch, StageWrite, StageTraversal,
            StageError, stateVars
    <2>3. Total' \in {Total - 1, Total, Total + 1}
          /\ (pc' = "stage" => Total' = Total)
        BY <1>a, <2>2 DEF Total, AbandonStaging
    <2> QED  BY <1>b, <2>1, <2>2, <2>3 DEF DirectoriesBounded
<1>2. CASE ArtifactDone \/ DoHitl
    <2>1. CleanupStaging /\ pc \in {"drop", "hitl"}
          /\ pc' \in {"done", "except"}
        BY <1>2 DEF ArtifactDone, DoHitl
    <2> QED  BY <1>a, <2>1, CleanupTotal DEF DirectoriesBounded
<1>3. CASE \/ LoadSpec("planner") \/ Planner("engineer") \/ Engineer("drift")
           \/ Sandbox("reviewer") \/ Reviewer("after_reviewer")
           \/ ArtifactEnter \/ \E f \in Files : DropPatch(f)
    <2>1. UNCHANGED <<stagingDir, leaked, undeleted>>
        BY <1>3
        DEF LoadSpec, Planner, Engineer, Sandbox, Reviewer, ArtifactEnter,
            DropPatch, stagingVars
    <2>2. \/ pc \in {"load_spec", "planner", "engineer"}
          \/ pc' \notin {"load_spec", "planner", "engineer", "drift", "stage"}
        BY <1>3
        DEF LoadSpec, Planner, Engineer, Sandbox, Reviewer, ArtifactEnter,
            DropPatch, DropWrite, DropTraversal, DropRefused, DropFault
    <2>3. Total' = Total
        BY <2>1 DEF Total
    <2> QED  BY <1>b, <2>2, <2>3 DEF DirectoriesBounded
<1> QED  BY <1>1, <1>2, <1>3 DEF Nodes

\* Only a traversal it has recorded leaves the drift node with that result.
LEMMA NodeOnRecord ==
    ASSUME Nodes
    PROVE  TraversalOnRecord'
<1> USE DEF Goto, Raise
<1>1. SUFFICES ASSUME pc' = "after_drift", drift' = "path-traversal"
               PROVE  AlreadyRecorded'
    BY DEF TraversalOnRecord
<1>2. PICK f \in Files : StageTraversal(f, "after_drift")
    BY <1>1
    DEF Nodes, LoadSpec, Planner, Engineer, DriftPrepare, StagePatch,
        StageWrite, StageError, DriftVerify, Sandbox, Reviewer, ArtifactEnter,
        DropPatch, DropWrite, DropTraversal, DropRefused, DropFault,
        ArtifactDone, DoHitl
<1> QED  BY <1>2 DEF StageTraversal, RecordFailure, AlreadyRecorded

\* A failure that the bounded history has room for is one more on record, and
\* accounts for one more directory if it is of the drift node or the runner.
LEMMA CountRecord ==
    ASSUME TypeInv, Len(history) < MaxFailures,
           NEW ft \in FailureType, NEW n \in Node, NEW k \in Nat,
           RecordFailure(ft, n, k)
    PROVE  /\ Len(history') = Len(history) + 1
           /\ Accounted \in Nat
           /\ Accounted' = IF n \in {"drift", "workflow"} THEN Accounted + 1
                                                          ELSE Accounted
<1> DEFINE r == [type |-> ft, node |-> n, attempt |-> k]
           m == Len(history) + 1
           S == RecordedNodeFailures
<1>1. history \in Seq(FailureRecord) /\ r \in FailureRecord
    BY DEF TypeInv, TypeOK, NodesTypeOK, FailureRecord
<1>2. history' = Append(history, r)
    BY <1>1, PolicyBounds DEF RecordFailure, RememberFailure
<1>3. r.node = n
    OBVIOUS
<1> HIDE DEF r
<1>4. /\ Len(history') = m /\ DOMAIN history' = DOMAIN history \cup {m}
      /\ m \notin DOMAIN history /\ history'[m] = r
      /\ \A i \in DOMAIN history : history'[i] = history[i]
    BY <1>1, <1>2
<1>5. IsFiniteSet(S) /\ Cardinality(S) \in Nat /\ m \notin S
    <2>1. IsFiniteSet(1..Len(history))
        BY <1>1, FS_Interval
    <2>2. S \subseteq 1..Len(history)
        BY <1>1 DEF RecordedNodeFailures
    <2>3. m \notin S
        BY <1>4 DEF RecordedNodeFailures
    <2> HIDE DEF S, m
    <2> QED  BY <2>1, <2>2, <2>3, FS_Subset, FS_CardinalityType
<1> HIDE DEF m
<1>6. S' = IF n \in {"drift", "workflow"} THEN S \cup {m} ELSE S
    BY <1>3, <1>4 DEF RecordedNodeFailures
<1> HIDE DEF S
<1>7. Cardinality(S') = IF n \in {"drift", "workflow"} THEN Cardinality(S) + 1
                                                       ELSE Cardinality(S)
    BY <1>5, <1>6, FS_AddElement
<1> QED  BY <1>4, <1>5, <1>7 DEF Accounted, S, m

LEMMA AccountedType == TypeInv => Accounted \in Nat
<1> SUFFICES ASSUME TypeInv PROVE Accounted \in Nat
    OBVIOUS
<1>1. history \in Seq(FailureRecord)
    BY DEF TypeInv, TypeOK, NodesTypeOK
<1>2. IsFiniteSet(1..Len(history))
    BY <1>1, FS_Interval
<1>3. RecordedNodeFailures \subseteq 1..Len(history)
    BY <1>1 DEF RecordedNodeFailures
<1> QED  BY <1>2, <1>3, FS_Subset, FS_CardinalityType DEF Accounted

\* A step of a run loses at most one staging directory, and then either
\* records a failure of the drift node or raises.
LEMMA NodeLeaks ==
    ASSUME NodesInv, EndedIsDone, Nodes
    PROVE  /\ pc \notin {"except", "done"} /\ outcome = "running"
           /\ outcome' # "CRASH"
           /\ \/ /\ NothingRecorded
                 /\ leaked' = leaked \/ (leaked' = leaked + 1 /\ pc' = "except")
              \/ /\ \E k \in Nat :
                        RecordFailure("SECURITY_VIOLATION", "drift", k)
                 /\ leaked' \in {leaked, leaked + 1}
              \/ /\ \E ft \in FailureType, n \in Node, k \in Nat :
                        RecordFailure(ft, n, k)
                 /\ leaked' = leaked
<1>a. counters.total \in Nat
    BY DEF NodesInv, NodesTypeOK, Counters
<1> USE DEF Goto, Raise, NothingRecorded
<1>1. CASE \/ LoadSpec("planner") \/ Planner("engineer") \/ Engineer("drift")
           \/ Sandbox("reviewer") \/ ArtifactEnter \/ ArtifactDone \/ DoHitl
    BY <1>1
    DEF LoadSpec, Planner, Engineer, Sandbox, ArtifactEnter, ArtifactDone,
        DoHitl, CleanupStaging, stateVars, stagingVars, EndedIsDone
<1>2. CASE DriftPrepare \/ DriftVerify("after_drift")
    BY <1>2
    DEF DriftPrepare, DriftVerify, AbandonStaging, stateVars, EndedIsDone
<1>3. CASE \E f \in Files : StagePatch(f, "after_drift")
    BY <1>a, <1>3
    DEF StagePatch, StageWrite, StageTraversal, StageError, AbandonStaging,
        EndedIsDone
<1>4. CASE Reviewer("after_reviewer")
    <2>1. NothingRecorded \/ \E ft \in FailureType, n \in Node, k \in Nat :
                                 RecordFailure(ft, n, k)
        BY <1>4, NodeRecords DEF NodeStep
    <2> QED  BY <1>4, <2>1 DEF Reviewer, stagingVars, EndedIsDone
<1>5. CASE \E f \in Files : DropPatch(f)
    <2>1. NothingRecorded \/ \E ft \in FailureType, n \in Node, k \in Nat :
                                 RecordFailure(ft, n, k)
        BY <1>5, NodeRecords DEF NodeStep
    <2> QED  BY <1>5, <2>1 DEF DropPatch, DropWrite, DropTraversal,
                               DropRefused, DropFault, stagingVars, EndedIsDone
<1> QED  BY <1>1, <1>2, <1>3, <1>4, <1>5 DEF Nodes

\* Where a node that records a failure may be, and where it goes.
LEMMA NodeHistory ==
    ASSUME NodesInv, Nodes, HistoryLength, iteration' = iteration,
           iteration \in Nat, Len(history) \in Nat,
           \/ NothingRecorded
           \/ ~NothingRecorded /\ Len(history') = Len(history) + 1
    PROVE  HistoryLength'
<1> USE DEF Goto, Raise
<1>1. CASE NothingRecorded
    <2>1. Len(history') = Len(history)
        BY <1>1 DEF NothingRecorded
    <2>2. CASE pc \in {"load_spec", "planner", "engineer", "drift", "stage",
                       "sandbox", "reviewer", "artifact", "drop"}
        BY <2>1, <2>2 DEF HistoryLength, BeforeFailure
    <2>3. CASE pc = "hitl" /\ pc' \in {"done", "except"}
        BY <2>1, <2>3 DEF HistoryLength, BeforeFailure
    <2> QED
        BY <2>2, <2>3
        DEF Nodes, LoadSpec, Planner, Engineer, DriftPrepare, StagePatch,
            DriftVerify, Sandbox, Reviewer, ArtifactEnter, DropPatch,
            ArtifactDone, DoHitl
<1>2. CASE ~NothingRecorded /\ Len(history') = Len(history) + 1
    <2>1. /\ pc \in {"stage", "reviewer", "drop"}
          /\ \/ pc' = "after_drift" /\ drift' = "path-traversal"
             \/ pc' = "after_reviewer" /\ review'.verdict # "PASS"
             \/ pc' = "except"
        <3>1. CASE \E f \in Files : StagePatch(f, "after_drift") \/ DropPatch(f)
            BY <1>2, <3>1
            DEF StagePatch, StageWrite, StageTraversal, StageError, DropPatch,
                DropWrite, DropTraversal, DropRefused, DropFault,
                NothingRecorded
        <3>2. CASE Reviewer("after_reviewer")
            BY <1>2, <3>2 DEF Reviewer
        <3>3. CASE UNCHANGED <<history, lastFailure>>
            BY <1>2, <3>3 DEF NothingRecorded
        <3> QED
            BY <3>1, <3>2, <3>3
            DEF Nodes, stateVars, LoadSpec, Planner, Engineer, DriftPrepare,
                DriftVerify, Sandbox, ArtifactEnter, ArtifactDone, DoHitl
    <2>2. Len(history) <= 2 * iteration
        BY <2>1 DEF HistoryLength, BeforeFailure
    <2> QED  BY <1>2, <2>1, <2>2 DEF HistoryLength, BeforeFailure
<1> QED  BY <1>1, <1>2

\* Where the program is before an iteration's first failure, the history has
\* room for the two of this iteration.
LEMMA RoomForFailures ==
    ASSUME TypeInv, HistoryLength, 2 * MaxIterations <= MaxFailures
    PROVE  /\ iteration \in Nat /\ Len(history) \in Nat
           /\ Len(history) <= 2 * iteration + 1 => Len(history) < MaxFailures
BY RunOnceAssumption, PolicyBounds DEF TypeInv, TypeOK, NodesTypeOK

LEMMA AccountNodes ==
    ASSUME AccountInv, Nodes, iteration' = iteration,
           2 * MaxIterations <= MaxFailures
    PROVE  HistoryLength' /\ StagingAccounted'
<1>a. /\ TypeInv /\ NodesInv /\ EndedIsDone /\ HistoryLength
      /\ StagingAccounted
    BY DEF AccountInv, SecurityInv, TypeInv
<1>t. leaked' + undeleted' + (IF stagingDir' THEN 1 ELSE 0) <= iteration' + 1
    BY <1>a, NodeTotal DEF AccountInv, DirectoriesBounded, Total, TypeInv,
                           TypeOK
<1>b. /\ iteration \in Nat /\ Len(history) \in Nat
      /\ Len(history) <= 2 * iteration => Len(history) < MaxFailures
    BY <1>a, RoomForFailures
<1>c. leaked \in Nat /\ Accounted \in Nat
    BY <1>a, AccountedType DEF NodesInv, NodesTypeOK
<1>1. /\ pc \notin {"except", "done"} /\ outcome = "running"
      /\ outcome' # "CRASH"
    BY <1>a, NodeLeaks
<1>2. leaked <= Accounted
    BY <1>a, <1>c, <1>1 DEF StagingAccounted, Accounted
<1>3. outcome' \in {"PASS", "HITL"} => ~stagingDir'
    BY <1>1
    DEF Nodes, LoadSpec, Planner, Engineer, DriftPrepare, StagePatch,
        DriftVerify, Sandbox, Reviewer, ArtifactEnter, DropPatch, ArtifactDone,
        DoHitl, CleanupStaging
<1>4. CASE NothingRecorded /\ leaked' = leaked
    <2>1. Accounted' = Accounted
        BY <1>4 DEF NothingRecorded, Accounted, RecordedNodeFailures
    <2> QED  BY <1>a, <1>b, <1>c, <1>1, <1>2, <1>3, <1>4, <2>1, NodeHistory,
                <1>t DEF StagingAccounted, Accounted
<1>5. CASE Len(history) <= 2 * iteration
    <2>a. Len(history) < MaxFailures
        BY <1>b, <1>5
    <2>1. CASE NothingRecorded /\ leaked' = leaked + 1 /\ pc' = "except"
        <3>1. Accounted' = Accounted
            BY <2>1 DEF NothingRecorded, Accounted, RecordedNodeFailures
        <3> QED  BY <1>a, <1>b, <1>c, <1>1, <1>2, <1>3, <1>t, <2>1, <3>1,
                    NodeHistory DEF StagingAccounted, Accounted
    <2>2. CASE /\ \E k \in Nat :
                      RecordFailure("SECURITY_VIOLATION", "drift", k)
               /\ leaked' \in {leaked, leaked + 1}
        <3>1. /\ Len(history') = Len(history) + 1
              /\ Accounted' = Accounted + 1
            BY <1>a, <2>a, <2>2, CountRecord DEF FailureType, Node
        <3>2. ~NothingRecorded
            BY <1>b, <3>1 DEF NothingRecorded
        <3> QED  BY <1>a, <1>b, <1>c, <1>1, <1>2, <1>3, <1>t, <2>2, <3>1,
                    <3>2, NodeHistory DEF StagingAccounted, Accounted
    <2>3. CASE /\ \E ft \in FailureType, n \in Node, k \in Nat :
                      RecordFailure(ft, n, k)
               /\ leaked' = leaked
        <3>1. /\ Len(history') = Len(history) + 1
              /\ Accounted' \in {Accounted, Accounted + 1}
            BY <1>a, <2>a, <2>3, CountRecord
        <3>2. ~NothingRecorded
            BY <1>b, <3>1 DEF NothingRecorded
        <3> QED  BY <1>a, <1>b, <1>c, <1>1, <1>2, <1>3, <1>t, <2>3, <3>1,
                    <3>2, NodeHistory DEF StagingAccounted, Accounted
    <2> QED  BY <1>a, <1>4, <2>1, <2>2, <2>3, NodeLeaks
<1>6. CASE pc = "hitl"
    BY <1>4, <1>6
    DEF Nodes, LoadSpec, Planner, Engineer, DriftPrepare, StagePatch,
        DriftVerify, Sandbox, Reviewer, ArtifactEnter, DropPatch, ArtifactDone,
        DoHitl, CleanupStaging, stateVars, NothingRecorded
<1>7. CASE BeforeFailure
    BY <1>a, <1>5, <1>7 DEF HistoryLength
<1> QED
    BY <1>6, <1>7
    DEF BeforeFailure, Nodes, LoadSpec, Planner, Engineer, DriftPrepare,
        StagePatch, DriftVerify, Sandbox, Reviewer, ArtifactEnter, DropPatch,
        ArtifactDone, DoHitl

\* No edge makes a directory, and a new attempt may make one more.
LEMMA EdgeTotal ==
    ASSUME NodesInv, Edges, DirectoriesBounded, iteration \in Nat
    PROVE  /\ DirectoriesBounded'
           /\ leaked' = leaked
           /\ outcome' = "HITL" => outcome = "HITL" \/ ~stagingDir'
<1>a. stagingDir \in BOOLEAN /\ leaked \in Nat /\ undeleted \in Nat
    BY DEF NodesInv, NodesTypeOK
<1>b. Total \in Nat
    BY <1>a DEF Total
<1>1. /\ leaked' = leaked /\ Total' \in Nat /\ Total' <= Total
      /\ outcome' = "HITL" => outcome = "HITL" \/ ~stagingDir'
    <2>1. CASE CleanupStaging /\ outcome' \in {outcome, "HITL", "CRASH"}
        BY <1>a, <2>1, CleanupTotal
    <2>2. CASE UNCHANGED stagingVars /\ outcome' \in {outcome, "CRASH"}
        BY <1>b, <2>2 DEF stagingVars, Total
    <2> QED
        BY <2>1, <2>2
        DEF Edges, AfterDriftClean, AfterDriftFound, AfterDriftUnrecordable,
            AfterReviewer, HandleException, CrashInHandler, IterStartFails,
            DoHitlLast
<1>2. \/ /\ iteration' = iteration
         /\ pc' \notin {"load_spec", "planner", "engineer", "drift", "stage"}
      \/ pc' = "planner" /\ iteration' = iteration + 1
    BY AfterReviewerFact
    DEF Edges, AfterDriftClean, AfterDriftFound, AfterDriftUnrecordable,
        AfterReviewer, HandleException, CrashInHandler, IterStartFails,
        DoHitlLast, NextIteration, EscalateOrRetry, Goto, Raise
<1> QED  BY <1>b, <1>1, <1>2 DEF DirectoriesBounded

\* An edge records at most the one failure that ends the iteration; the except
\* clause makes up for the directory a raising drift node has lost.
LEMMA AccountEdges ==
    ASSUME AccountInv, Edges, 2 * MaxIterations <= MaxFailures
    PROVE  HistoryLength' /\ StagingAccounted'
<1>a. /\ TypeInv /\ NodesInv /\ EndedIsDone /\ HistoryLength
      /\ StagingAccounted /\ iteration \in 0..(MaxIterations - 1)
    BY DEF AccountInv, SecurityInv, TypeInv, TypeOK
<1>b. /\ iteration \in Nat /\ Len(history) \in Nat
      /\ Len(history) <= 2 * iteration + 1 => Len(history) < MaxFailures
    BY <1>a, RoomForFailures
<1>c. leaked \in Nat /\ Accounted \in Nat /\ counters.total \in Nat
    BY <1>a, AccountedType DEF NodesInv, NodesTypeOK, Counters
<1>d. outcome = "running" /\ outcome' \in {"running", "HITL", "CRASH"}
    BY <1>a, EdgeMoves DEF EndedIsDone
<1>e. leaked' = leaked /\ (outcome' \in {"PASS", "HITL"} => ~stagingDir')
    BY <1>a, <1>b, <1>d, EdgeTotal DEF AccountInv
<1>f. leaked' + undeleted' + (IF stagingDir' THEN 1 ELSE 0) <= iteration' + 1
    BY <1>a, <1>b, EdgeTotal DEF AccountInv, DirectoriesBounded, Total
<1>1. CASE AfterDriftClean
    <2>1. /\ pc = "after_drift" /\ drift = "no-drift" /\ pc' = "sandbox"
          /\ UNCHANGED <<history, outcome, iteration>>
        BY <1>1 DEF AfterDriftClean, Goto, stateVars
    <2>2. Accounted' = Accounted
        BY <2>1 DEF Accounted, RecordedNodeFailures
    <2> QED  BY <1>a, <1>b, <1>c, <1>d, <1>e, <1>f, <2>1, <2>2
             DEF HistoryLength, BeforeFailure, StagingAccounted, Accounted
<1>2. CASE AfterDriftFound
    <2>1. /\ pc = "after_drift" /\ drift # "no-drift" /\ UNCHANGED outcome
          /\ \/ pc' = "planner" /\ iteration' = iteration + 1
             \/ pc' \in {"hitl", "hitl_last"} /\ iteration' = iteration
        BY <1>2 DEF AfterDriftFound, EscalateOrRetry, NextIteration, Goto
    <2>2. CASE NothingRecorded
        <3>1. Len(history') = Len(history) /\ Accounted' = Accounted
            BY <2>2 DEF NothingRecorded, Accounted, RecordedNodeFailures
        <3> QED  BY <1>a, <1>b, <1>c, <1>d, <1>e, <1>f, <2>1, <3>1
                 DEF HistoryLength, BeforeFailure, StagingAccounted, Accounted
    <2>3. CASE /\ ~AlreadyRecorded
               /\ RecordFailure("SPEC_DRIFT", "drift", counters.total)
        <3>1. Len(history) <= 2 * iteration
            BY <1>a, <2>1, <2>3
            DEF AccountInv, TraversalOnRecord, HistoryLength, BeforeFailure
        <3>2. /\ Len(history') = Len(history) + 1
              /\ Accounted' = Accounted + 1
            BY <1>a, <1>b, <1>c, <2>3, <3>1, CountRecord DEF FailureType, Node
        <3> QED  BY <1>a, <1>b, <1>c, <1>d, <1>e, <1>f, <2>1, <3>1, <3>2
                 DEF HistoryLength, BeforeFailure, StagingAccounted, Accounted
    <2> QED  BY <1>2, <2>2, <2>3 DEF AfterDriftFound
<1>3. CASE AfterDriftUnrecordable
    <2>1. /\ pc = "after_drift" /\ pc' = "except"
          /\ UNCHANGED <<history, outcome, iteration>>
        BY <1>3 DEF AfterDriftUnrecordable, Raise, stateVars
    <2>2. Accounted' = Accounted
        BY <2>1 DEF Accounted, RecordedNodeFailures
    <2> QED  BY <1>a, <1>b, <1>c, <1>d, <1>e, <1>f, <2>1, <2>2
             DEF HistoryLength, BeforeFailure, StagingAccounted, Accounted
<1>4. CASE CrashInHandler \/ IterStartFails \/ DoHitlLast
    <2>1. /\ pc' = "done" /\ UNCHANGED <<history, iteration>>
          /\ pc = "except" => outcome' = "CRASH"
        BY <1>4 DEF CrashInHandler, IterStartFails, IterStart, DoHitlLast,
                    stateVars
    <2>2. Accounted' = Accounted
        BY <2>1 DEF Accounted, RecordedNodeFailures
    <2> QED  BY <1>a, <1>b, <1>c, <1>d, <1>e, <1>f, <2>1, <2>2
             DEF HistoryLength, BeforeFailure, StagingAccounted, Accounted
<1>5. CASE AfterReviewer
    <2>1. /\ pc = "after_reviewer" /\ UNCHANGED <<history, outcome>>
          /\ \/ /\ review.verdict = "PASS" /\ pc' = "artifact"
                /\ iteration' = iteration
             \/ pc' = "planner" /\ iteration' = iteration + 1
             \/ pc' \in {"hitl", "hitl_last"} /\ iteration' = iteration
        BY <1>5, AfterReviewerFact DEF AfterReviewer, NextIteration, Goto,
                                       stateVars
    <2>2. Accounted' = Accounted
        BY <2>1 DEF Accounted, RecordedNodeFailures
    <2> QED  BY <1>a, <1>b, <1>c, <1>d, <1>e, <1>f, <2>1, <2>2
             DEF HistoryLength, BeforeFailure, StagingAccounted, Accounted
<1>6. CASE HandleException
    <2>1. /\ pc = "except" /\ UNCHANGED outcome
          /\ RecordFailure(FromException(exc), "workflow", counters.total)
          /\ \/ pc' = "planner" /\ iteration' = iteration + 1
             \/ pc' = "hitl_last" /\ iteration' = iteration
        BY <1>6 DEF HandleException
    <2>2. Len(history) <= 2 * iteration + 1
        BY <1>a, <2>1 DEF HistoryLength
    <2>3. FromException(exc) \in FailureType
        BY <1>a, <2>1, FromExceptionType DEF NodesInv, ExceptHasException
    <2>4. Len(history') = Len(history) + 1 /\ Accounted' = Accounted + 1
        BY <1>a, <1>b, <1>c, <2>1, <2>2, <2>3, CountRecord DEF Node
    <2> QED  BY <1>a, <1>b, <1>c, <1>d, <1>e, <1>f, <2>1, <2>2, <2>4
             DEF HistoryLength, BeforeFailure, StagingAccounted, Accounted
<1> QED  BY <1>1, <1>2, <1>3, <1>4, <1>5, <1>6 DEF Edges

LEMMA AccountInit == Init => AccountInv
<1> SUFFICES ASSUME Init PROVE AccountInv
    OBVIOUS
<1>1. SecurityInv /\ history = <<>> /\ leaked = 0 /\ undeleted = 0
      /\ stagingDir = FALSE /\ iteration = 0 /\ pc = "load_spec" /\ outcome = "running"
    BY SecurityInit DEF Init, NodesInit
<1>2. Accounted \in Nat
    BY <1>1, AccountedType DEF SecurityInv
<1> QED  BY <1>1, <1>2
         DEF AccountInv, HistoryLength, TraversalOnRecord, StagingAccounted,
             Accounted, DirectoriesBounded, Total

LEMMA AccountNext ==
    ASSUME 2 * MaxIterations <= MaxFailures
    PROVE  AccountInv /\ [Next]_vars => AccountInv'
<1> SUFFICES ASSUME AccountInv, [Next]_vars PROVE AccountInv'
    OBVIOUS
<1>1. SecurityInv'
    BY SecurityNext DEF AccountInv
<1>a. NodesInv /\ EndedIsDone /\ iteration \in Nat
    BY DEF AccountInv, SecurityInv, TypeInv, TypeOK
<1>2. CASE Nodes /\ UNCHANGED iteration
    BY <1>1, <1>2, <1>a, AccountNodes, NodeTotal, NodeOnRecord DEF AccountInv
<1>3. CASE Edges
    <2>1. TraversalOnRecord'
        BY <1>3, <1>a, EdgeMoves DEF TraversalOnRecord
    <2> QED  BY <1>1, <1>3, <1>a, <2>1, AccountEdges, EdgeTotal DEF AccountInv
<1>4. CASE UNCHANGED <<pc, history, lastFailure, drift, review, iteration,
                       stagingDir, leaked, undeleted, outcome>>
    BY <1>1, <1>4
    DEF AccountInv, HistoryLength, BeforeFailure, TraversalOnRecord,
        AlreadyRecorded, StagingAccounted, RecordedNodeFailures,
        DirectoriesBounded, Total
<1> QED
    BY <1>2, <1>3, <1>4
    DEF Next, Run, Human, HumanEdit, Ended, vars, nodeVars, stateVars,
        stagingVars, resultVars

\* Every staging directory that state never came to name has a failure of the
\* drift node or of the runner on record, if the history has room for two
\* failures an iteration, as it has in the code: 2 * 6 of MAX_FAILURES = 32.
\* With those that could not be removed there is at most one for each iteration.
THEOREM DirectoriesAreAccounted ==
    ASSUME 2 * MaxIterations <= MaxFailures
    PROVE  Spec => []StagingAccounted
<1>1. AccountInv => StagingAccounted
    BY DEF AccountInv
<1> QED  BY <1>1, AccountInit, AccountNext, PTL DEF Spec
=============================================================================
