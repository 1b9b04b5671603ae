----------------------------- MODULE NodeProofs -----------------------------
(***************************************************************************)
(* Proofs about the nodes of FactoryWorkflow that hold whichever runner    *)
(* drives them: what they do to counters and history, the types they keep, *)
(* the relation between traversal records and patches, what of staging and *)
(* drop is done at each step, and which files a cut-off write tears.  The  *)
(* proofs about run_once and as_graph only have to treat their own edges.  *)
(***************************************************************************)
EXTENDS WorkflowNodes, StoreLemmas, FiniteSetTheorems

\* A step of a node.  Both runners give every node the same next point.
NodeStep ==
    \/ LoadSpec("planner")
    \/ Planner("engineer")
    \/ Engineer("drift")
    \/ DriftPrepare
    \/ \E f \in Files : StagePatch(f, "after_drift")
    \/ DriftVerify("after_drift")
    \/ Sandbox("reviewer")
    \/ Reviewer("after_reviewer")
    \/ ArtifactEnter
    \/ \E f \in Files : DropPatch(f)
    \/ ArtifactDone
    \/ DoHitl

-----------------------------------------------------------------------------
\* Counters and history

\* AttemptCounters.bump counts the node and the total, and nothing else.
LEMMA BumpFact ==
    ASSUME NEW c \in Counters, NEW n \in CountedNode
    PROVE  /\ Bump(c, n) \in Counters
           /\ Bump(c, n).total = c.total + 1
           /\ \A m \in CountedNode :
                  Bump(c, n)[m] = IF m = n THEN c[m] + 1 ELSE c[m]
<1> DEFINE Field == CountedNode \cup {"total"}
<1>1. ASSUME NEW k \in Counters, NEW x \in Field
      PROVE  /\ CountNode(k, x) \in Counters
             /\ \A m \in Field :
                    CountNode(k, x)[m] = IF m = x THEN k[m] + 1 ELSE k[m]
    BY <1>1 DEF CountNode, Counters, CountedNode
<1>2. n \in Field /\ "total" \in Field /\ "total" \notin CountedNode
    BY DEF CountedNode
<1> DEFINE b == CountNode(c, n)
<1>3. /\ b \in Counters
      /\ \A m \in Field : b[m] = IF m = n THEN c[m] + 1 ELSE c[m]
    BY <1>1, <1>2
<1> HIDE DEF b
<1>4. /\ CountNode(b, "total") \in Counters
      /\ \A m \in Field : CountNode(b, "total")[m] =
             IF m = "total" THEN b[m] + 1 ELSE b[m]
    BY <1>1, <1>2, <1>3
<1>5. Bump(c, n) = CountNode(b, "total")
    BY DEF Bump, b
<1> QED  BY <1>2, <1>3, <1>4, <1>5

\* A planner that used up its attempts exceeds the limit.
LEMMA ExceededByPlanner ==
    ASSUME NEW c \in Counters, ~Exceeded(c)
    PROVE  c.planner < MaxRepair
BY PolicyBounds DEF Exceeded, Counters, CountedNode

\* record_failure returns a history again, no longer than its bound, that ends
\* with the new record; the old ones move to the front by k places.
IsShift(g, h, r, k) ==
    /\ g \in Seq(FailureRecord)
    /\ Len(g) = Len(h) + 1 - k /\ Len(g) <= MaxFailures
    /\ g[Len(g)] = r
    /\ \A i \in 1..(Len(g) - 1) : g[i] = h[i + k]
    /\ Len(h) < MaxFailures => k = 0

LEMMA RememberShape ==
    ASSUME NEW h \in Seq(FailureRecord), NEW r \in FailureRecord
    PROVE  \E k \in 0..Len(h) : IsShift(RememberFailure(h, r), h, r, k)
<1> DEFINE a == Append(h, r)
           m == Len(h) + 2 - MaxFailures
           n == Len(h) + 1
           g == RememberFailure(h, r)
<1>1. /\ a \in Seq(FailureRecord)
      /\ Len(a) = n
      /\ \A i \in 1..Len(h) : a[i] = h[i]
      /\ a[n] = r
      /\ Len(h) \in Nat
    OBVIOUS
<1>2. CASE Len(h) >= MaxFailures
    <2>1. m \in 1..n /\ n \in Nat
        BY <1>1, <1>2, PolicyBounds
    <2>2. \A i \in m..n : a[i] \in FailureRecord
        BY <1>1, <2>1
    <2>3. g = SubSeq(a, m, n)
        BY <1>2 DEF RememberFailure
    <2> HIDE DEF a, m, n, g
    <2>4. /\ g \in Seq(FailureRecord)
          /\ Len(g) = n - m + 1
          /\ \A i \in 1..(n - m + 1) : g[i] = a[m + i - 1]
        BY <2>1, <2>2, <2>3, SubSeqProperties
    <2>5. g[Len(g)] = r
        BY <1>1, <2>1, <2>4
    <2>6. \A i \in 1..(Len(g) - 1) : g[i] = h[i + (m - 1)]
        <3>1. TAKE i \in 1..(Len(g) - 1)
        <3>2. m + i - 1 \in 1..Len(h) /\ m + i - 1 = i + (m - 1)
            BY <1>1, <2>1, <2>4 DEF n
        <3>3. g[i] = a[m + i - 1]
            BY <2>1, <2>4
        <3> QED  BY <1>1, <3>2, <3>3
    <2>7. /\ m - 1 \in 0..Len(h)
          /\ Len(g) = Len(h) + 1 - (m - 1)
          /\ Len(g) <= MaxFailures
        BY <1>1, <2>1, <2>4, PolicyBounds DEF m, n
    <2>8. IsShift(g, h, r, m - 1)
        BY <1>1, <1>2, <2>4, <2>5, <2>6, <2>7, PolicyBounds DEF IsShift
    <2> QED  BY <2>7, <2>8 DEF g
<1>3. CASE ~(Len(h) >= MaxFailures)
    <2>1. g = a
        BY <1>3 DEF RememberFailure
    <2> HIDE DEF a, n, g
    <2>2. /\ g \in Seq(FailureRecord)
          /\ Len(g) = Len(h) + 1 - 0
          /\ Len(g) <= MaxFailures
          /\ g[Len(g)] = r
          /\ \A i \in 1..(Len(g) - 1) : g[i] = h[i + 0]
        BY <2>1, <1>1, <1>3, PolicyBounds DEF n
    <2>3. 0 \in 0..Len(h)
        BY <1>1
    <2> QED  BY <2>2, <2>3 DEF g, IsShift
<1> QED  BY <1>2, <1>3

\* What the history holds was in the old one or is the new record.
LEMMA RememberFact ==
    ASSUME NEW h \in Seq(FailureRecord), NEW r \in FailureRecord
    PROVE  /\ RememberFailure(h, r) \in Seq(FailureRecord)
           /\ \A i \in DOMAIN RememberFailure(h, r) :
                  \/ RememberFailure(h, r)[i] = r
                  \/ \E j \in DOMAIN h : RememberFailure(h, r)[i] = h[j]
<1> DEFINE g == RememberFailure(h, r)
<1>0. PICK k \in 0..Len(h) : IsShift(g, h, r, k)
    BY RememberShape
<1>1. /\ g \in Seq(FailureRecord)
      /\ Len(g) = Len(h) + 1 - k
      /\ g[Len(g)] = r
      /\ \A i \in 1..(Len(g) - 1) : g[i] = h[i + k]
    BY <1>0 DEF IsShift
<1> HIDE DEF g
<1>2. ASSUME NEW i \in DOMAIN g, i # Len(g)
      PROVE  i \in 1..(Len(g) - 1) /\ i + k \in DOMAIN h
    BY <1>1, <1>2
<1>3. \A i \in DOMAIN g : g[i] = r \/ \E j \in DOMAIN h : g[i] = h[j]
    BY <1>1, <1>2
<1> QED  BY <1>1, <1>3 DEF g

\* The last failure recorded calls for a human if it is a trigger.
LEMMA LastTrigger ==
    ASSUME NEW h \in Seq(FailureRecord), h # <<>>,
           h[Len(h)].type \in HitlTriggers
    PROVE  RecentTrigger(h)
<1>1. Len(h) \in DOMAIN h /\ Len(h) > Len(h) - RecentWindow
    BY PolicyBounds
<1> QED  BY <1>1 DEF RecentTrigger

\* A history whose only trigger is the drift that the first iteration defers,
\* in the second attempt of a node.
DeferredOnly(h) ==
    \A i \in DOMAIN h : h[i].type \in HitlTriggers =>
        i = 1 /\ h[i].node = "drift" /\ h[i].attempt = 2

LEMMA RememberDeferred ==
    ASSUME NEW h \in Seq(FailureRecord), NEW r \in FailureRecord,
           DeferredOnly(h), r.type \notin HitlTriggers
    PROVE  DeferredOnly(RememberFailure(h, r))
<1> DEFINE g == RememberFailure(h, r)
<1>1. PICK k \in 0..Len(h) : IsShift(g, h, r, k)
    BY RememberShape
<1> HIDE DEF g
<1>2. ASSUME NEW i \in DOMAIN g, g[i].type \in HitlTriggers
      PROVE  i = 1 /\ g[i].node = "drift" /\ g[i].attempt = 2
    <2>1. i \in 1..(Len(g) - 1) /\ i + k \in DOMAIN h /\ g[i] = h[i + k]
        BY <1>1, <1>2 DEF IsShift
    <2>2. i + k = 1 /\ g[i].node = "drift" /\ g[i].attempt = 2
        BY <1>2, <2>1 DEF DeferredOnly
    <2> QED  BY <1>1, <2>1, <2>2
<1> QED  BY <1>2 DEF g, DeferredOnly

\* The first record of a history.
LEMMA RememberFirst ==
    ASSUME NEW r \in FailureRecord
    PROVE  RememberFailure(<<>>, r) = <<r>>
BY PolicyBounds DEF RememberFailure

\* A trigger is still looked at when one more failure was recorded, unless the
\* history had no room for both.
LEMMA RememberRecent ==
    ASSUME NEW h \in Seq(FailureRecord), h # <<>>,
           h[Len(h)].type \in HitlTriggers,
           NEW r \in FailureRecord, r.type \notin HitlTriggers
    PROVE  \/ RecentTrigger(RememberFailure(h, r))
           \/ DeferredOnly(RememberFailure(h, r))
<1> DEFINE g == RememberFailure(h, r)
<1>1. PICK k \in 0..Len(h) : IsShift(g, h, r, k)
    BY RememberShape
<1> HIDE DEF g
<1>2. /\ g \in Seq(FailureRecord) /\ Len(g) = Len(h) + 1 - k
      /\ g[Len(g)] = r /\ \A i \in 1..(Len(g) - 1) : g[i] = h[i + k]
      /\ Len(h) \in Nat /\ Len(h) > 0
    BY <1>1 DEF IsShift
<1>3. CASE k = Len(h)
    <2>1. \A i \in DOMAIN g : g[i] = r
        BY <1>2, <1>3
    <2> QED  BY <2>1 DEF DeferredOnly, g
<1>4. CASE k # Len(h)
    <2>1. /\ Len(g) - 1 \in DOMAIN g /\ Len(g) - 1 + k = Len(h)
          /\ Len(g) - 1 > Len(g) - RecentWindow
        BY <1>2, <1>4, PolicyBounds
    <2>2. g[Len(g) - 1].type \in HitlTriggers
        BY <1>2, <2>1
    <2> QED  BY <2>1, <2>2 DEF RecentTrigger, g
<1> QED  BY <1>3, <1>4

\* A history ends with the record it was given last.
LEMMA RememberLast ==
    ASSUME NEW h \in Seq(FailureRecord), NEW r \in FailureRecord
    PROVE  LET g == RememberFailure(h, r)
           IN  /\ g \in Seq(FailureRecord) /\ g # <<>>
               /\ g[Len(g)] = r /\ Len(g) <= MaxFailures
<1> DEFINE g == RememberFailure(h, r)
<1>1. PICK k \in 0..Len(h) : IsShift(g, h, r, k)
    BY RememberShape
<1> HIDE DEF g
<1>2. /\ g \in Seq(FailureRecord) /\ g # <<>>
      /\ g[Len(g)] = r /\ Len(g) <= MaxFailures
    BY <1>1 DEF IsShift
<1> QED  BY <1>2 DEF g

-----------------------------------------------------------------------------
\* Facts about the nodes' operators

\* An element of a sequence is in the set the sequence is over.
LEMMA ElementInSet ==
    ASSUME NEW S, NEW s \in Seq(S), NEW i \in DOMAIN s
    PROVE  s[i] \in S
OBVIOUS

\* What the merge of an answer into the accumulated patches returns: patches
\* again, and a patch for every file that had one.
LEMMA MergeFact ==
    ASSUME NEW old \in [Files -> Patch \cup {NoPatch}], NEW p \in Payload
    PROVE  /\ Merge(old, p) \in [Files -> Patch \cup {NoPatch}]
           /\ \A f \in Files : old[f] # NoPatch => Merge(old, p)[f] # NoPatch
<1>1. ASSUME NEW f \in Files
      PROVE  \/ Merge(old, p)[f] = old[f]
             \/ Merge(old, p)[f] \in Patch
    <2>1. CASE \E i \in DOMAIN p : IsLastFor(p, f, i)
        <3>1. LastFor(p, f) \in DOMAIN p
            BY <2>1 DEF LastFor
        <3>2. Merge(old, p)[f] = PatchAt(p, LastFor(p, f))
            BY <2>1 DEF Merge
        <3>3. p[LastFor(p, f)] \in [file : Files, sec : Sections, body : Bodies]
            BY <3>1, ElementInSet DEF Payload
        <3> QED  BY <3>2, <3>3 DEF PatchAt, Patch
    <2>2. CASE ~\E i \in DOMAIN p : IsLastFor(p, f, i)
        BY <2>2 DEF Merge
    <2> QED  BY <2>1, <2>2
<1>2. Merge(old, p) = [f \in Files |-> Merge(old, p)[f]]
    BY DEF Merge
<1> QED  BY <1>1, <1>2, NoPatchIsNoPatch

\* A file with a patch has one that write_section can take.
LEMMA PatchedFact ==
    ASSUME patches \in [Files -> Patch \cup {NoPatch}], NEW f \in PatchedFiles
    PROVE  f \in Files /\ patches[f] \in Patch
BY DEF PatchedFiles

\* Recording a failure of a known type keeps history and last_failure typed.
LEMMA RecordFailureType ==
    ASSUME history \in Seq(FailureRecord),
           NEW ft \in FailureType, NEW n \in Node, NEW k \in Nat,
           RecordFailure(ft, n, k)
    PROVE  /\ history' \in Seq(FailureRecord)
           /\ lastFailure' \in FailureRecord
<1>1. [type |-> ft, node |-> n, attempt |-> k] \in FailureRecord
    BY DEF FailureRecord
<1> QED  BY <1>1, RememberFact DEF RecordFailure

\* Every exception maps to a failure type.
LEMMA FromExceptionType ==
    ASSUME NEW e \in Exception
    PROVE  FromException(e) \in FailureType
BY DEF Exception, ExceptionClass, FromException, FailureOfClass, FailureType

\* Losing a new staging directory counts it, and names no other.
LEMMA AbandonFact ==
    ASSUME leaked \in Nat, AbandonStaging
    PROVE  leaked' \in Nat /\ UNCHANGED <<stagingDir, undeleted>>
BY DEF AbandonStaging

\* Releasing the staging directory, which may leave it where it is.
LEMMA CleanupFact ==
    ASSUME undeleted \in Nat, CleanupStaging
    PROVE  stagingDir' = FALSE /\ undeleted' \in Nat
BY DEF CleanupStaging

\* A human edit leaves a tree of files.
LEMMA HumanEditType ==
    ASSUME NEW d \in Disk, NEW f \in Files
    PROVE  [d EXCEPT !.tree[f] =
               FileWith(Append(d.tree[f].lines, HumanLine))] \in Disk
<1>1. d.tree[f].lines \in Seq(Line) /\ HumanLine \in Line
    BY EndLineFact DEF Disk, FileState
<1>2. FileWith(Append(d.tree[f].lines, HumanLine)) \in FileState
    BY <1>1 DEF FileWith, FileState
<1> QED  BY <1>2 DEF Disk

\* The exceptions of the model are exceptions.
LEMMA RaisedTypes ==
    /\ ValidationError \in Exception
    /\ OverwriteError \in Exception
    /\ PathTraversalError \in Exception
    /\ StubError \in Exception
    /\ Exceptions \subseteq Exception
BY NodesAssumption DEF Exception, ExceptionClass, FailureOfClass,
   ValidationError, OverwriteError, PathTraversalError, StubError

LEMMA RecordingErrorsType ==
    ASSUME NEW b \in BOOLEAN
    PROVE  RecordingErrors(b) \subseteq Exception
BY RaisedTypes DEF RecordingErrors

\* The sandbox classifies every run it does not report as passed.
LEMMA SandboxResultsType ==
    \A r \in SandboxResults :
        r \in SandboxResult /\ (~r.passed => r.ftype \in FailureType)
<1>1. ASSUME NEW ft \in SandboxFailures
      PROVE  ft \in FailureType
    BY NodesAssumption
<1>2. ASSUME NEW r \in SandboxResults
      PROVE  r \in SandboxResult /\ (~r.passed => r.ftype \in FailureType)
    <2>1. CASE r = [passed |-> TRUE, ftype |-> "NONE"]
        BY <2>1 DEF SandboxResult
    <2>2. CASE \E ft \in SandboxFailures : r = [passed |-> FALSE, ftype |-> ft]
        BY <1>1, <2>2 DEF SandboxResult
    <2> QED  BY <1>2, <2>1, <2>2 DEF SandboxResults
<1> QED  BY <1>2

\* The verdict has its type; a FAIL comes with a failure type.
LEMMA VerdictType ==
    ASSUME NodesInv, pc = "reviewer"
    PROVE  /\ Verdict \in ReviewResult
           /\ Verdict.verdict = "FAIL" => Verdict.ftype \in FailureType
BY DEF NodesInv, NodesTypeOK, ReviewerInput, Verdict, ReviewResult,
       SandboxResult, FailureType

-----------------------------------------------------------------------------
\* Type correctness

LEMMA NodesInitTypes == NodesInit => NodesInv
<1> SUFFICES ASSUME NodesInit PROVE NodesInv
    OBVIOUS
<1>1. ZeroCounters \in Counters
    BY DEF ZeroCounters, Counters
<1>2. disk \in Disk /\ EmptyDisk \in Disk
    BY NodesAssumption, EmptyDiskType DEF NodesInit
<1>3. NodesTypeOK
    <2>1. /\ sandbox \in SandboxResult /\ review \in ReviewResult
          /\ drift \in DriftSummary /\ outcome \in Outcome
        BY DEF NodesInit, DriftSummary, NoResult, SandboxResult,
               NoReview, ReviewResult, Outcome
    <2>2. /\ patches \in [Files -> Patch \cup {NoPatch}]
          /\ stagingDir \in BOOLEAN /\ leaked \in Nat /\ undeleted \in Nat
          /\ todo \in SUBSET Files /\ written \in SUBSET Files
          /\ entryCount \in Nat
          /\ exc \in Exception \cup {NoException}
          /\ lastFailure \in FailureRecord \cup {NoFailure}
        BY DEF NodesInit
    <2>3. edits \in 0..MaxEdits /\ setup \in Setups
        BY NodesAssumption DEF NodesInit
    <2>4. history \in Seq(FailureRecord)
        BY DEF NodesInit
    <2>5. counters \in Counters /\ work \in Disk
        BY <1>1, <1>2 DEF NodesInit
    <2> QED  BY <1>2, <2>1, <2>2, <2>3, <2>4, <2>5
             DEF NodesTypeOK, NodesInit, PC
<1> QED
    BY <1>3 DEF NodesInit, NodesInv, TodoPatched, ExceptHasException,
                ReviewerInput

\* A step of a node keeps the types, with what the loops and the runners'
\* handlers rely on to keep them.
LEMMA NodeTypes ==
    ASSUME NodesInv, NodeStep, setup' = setup
    PROVE  NodesInv'
<1> USE DEF NodesInv, NodesTypeOK, TodoPatched, ExceptHasException,
            ReviewerInput, stateVars, stagingVars, resultVars, diskVars,
            nodeVars, PC, Raise, Goto, NothingRecorded
<1>1. CASE LoadSpec("planner")
    BY <1>1, RaisedTypes DEF LoadSpec
<1>2. CASE Planner("engineer")
    <2>1. counters' \in Counters
        BY <1>2, BumpFact DEF Planner, CountedNode
    <2> QED  BY <1>2, <2>1, RaisedTypes DEF Planner, AgentErrors
<1>3. CASE Engineer("drift")
    <2>1. counters' \in Counters
        BY <1>3, BumpFact DEF Engineer, CountedNode
    <2>2. patches' \in [Files -> Patch \cup {NoPatch}]
        BY <1>3, MergeFact, NodesAssumption DEF Engineer
    <2> QED  BY <1>3, <2>1, <2>2, RaisedTypes DEF Engineer, AgentErrors
<1>4. CASE DriftPrepare
    BY <1>4, RaisedTypes, CopyPlatformType DEF DriftPrepare, PatchedFiles
<1>5. CASE (\E f \in Files : StagePatch(f, "after_drift"))
              
    <2>1. PICK f \in Files : StagePatch(f, "after_drift")
        BY <1>5
    <2>2. f \in PatchedFiles /\ patches[f] \in Patch
        BY <2>1, PatchedFact DEF StagePatch
    <2>3. WriteSection(work, f, patches[f]) \in Disk
          /\ WriteFile(work, f, patches[f]) \in Disk
        BY <2>2, WriteSectionType, WriteFileType
    <2>4. PatchedFiles' = PatchedFiles
        BY <2>1 DEF StagePatch, PatchedFiles
    <2>5. CASE StageWrite(f)
        BY <1>5, <2>1, <2>3, <2>4, <2>5 DEF StagePatch, StageWrite
    <2>6. CASE StageTraversal(f, "after_drift")
        <3>1. history' \in Seq(FailureRecord) /\ lastFailure' \in FailureRecord
            BY <2>6, RecordFailureType
            DEF StageTraversal, FailureType, Node, Counters
        <3> QED  BY <1>5, <2>1, <2>6, <3>1
                 DEF StagePatch, StageTraversal, AbandonStaging, DriftSummary
    <2>7. CASE StageError(f)
        <3>1. leaked' \in Nat /\ UNCHANGED <<stagingDir, undeleted>>
            BY <2>7, AbandonFact DEF StageError
        <3>2. exc' \in Exception /\ pc' = "except"
            BY <2>7, RaisedTypes, RecordingErrorsType DEF StageError
        <3>3. work' \in Disk
            BY <2>3, <2>7 DEF StageError
        <3> QED  BY <1>5, <2>1, <2>7, <3>1, <3>2, <3>3
                 DEF StagePatch, StageError
    <2> QED  BY <2>1, <2>5, <2>6, <2>7 DEF StagePatch
<1>6. CASE DriftVerify("after_drift")
    <2>1. leaked' \in Nat /\ undeleted' \in Nat /\ stagingDir' \in BOOLEAN
        BY <1>6, AbandonFact DEF DriftVerify
    <2>2. \/ pc' = "after_drift" /\ exc' = exc
          \/ pc' = "except" /\ exc' \in Exception
        BY <1>6, RaisedTypes DEF DriftVerify
    <2>3. drift' \in DriftSummary
        BY <1>6 DEF DriftVerify, DriftSummary
    <2> QED  BY <1>6, <2>1, <2>2, <2>3 DEF DriftVerify
<1>7. CASE Sandbox("reviewer")
    <2>1. counters' \in Counters
        BY <1>7, BumpFact DEF Sandbox, CountedNode
    <2>2. /\ sandbox' \in SandboxResult
          /\ pc' = "reviewer" /\ ~sandbox'.passed
                => sandbox'.ftype \in FailureType
        <3>1. CASE sandbox' \in SandboxResults
            BY <3>1, SandboxResultsType
        <3>2. CASE pc' = "except" /\ UNCHANGED sandbox
            BY <3>2
        <3> QED  BY <1>7, <3>1, <3>2 DEF Sandbox, Raise
    <2> QED  BY <1>7, <2>1, <2>2, RaisedTypes DEF Sandbox
<1>8. CASE Reviewer("after_reviewer")
    <2>1. counters' \in Counters /\ counters'.total \in Nat
        BY <1>8, BumpFact DEF Reviewer, CountedNode, Counters
    <2>2. Verdict \in ReviewResult
          /\ (Verdict.verdict = "FAIL" => Verdict.ftype \in FailureType)
        BY <1>8, VerdictType DEF Reviewer
    <2>3. history' \in Seq(FailureRecord)
          /\ lastFailure' \in FailureRecord \cup {NoFailure}
        <3>1. CASE NothingRecorded
            BY <3>1
        <3>2. CASE /\ Verdict.verdict = "FAIL"
                   /\ RecordFailure(Verdict.ftype, "reviewer", counters'.total)
            BY <2>1, <2>2, <3>2, RecordFailureType DEF Node
        <3> QED  BY <1>8, <3>1, <3>2 DEF Reviewer
    <2> QED  BY <1>8, <2>1, <2>2, <2>3, RaisedTypes DEF Reviewer
<1>9. CASE ArtifactEnter
    BY <1>9 DEF ArtifactEnter, PatchedFiles
<1>10. CASE (\E f \in Files : DropPatch(f))
    <2>1. PICK f \in Files : DropPatch(f)
        BY <1>10
    <2>2. f \in PatchedFiles /\ patches[f] \in Patch
        BY <2>1, PatchedFact DEF DropPatch
    <2>3. WriteSection(disk, f, patches[f]) \in Disk
          /\ WriteFile(disk, f, patches[f]) \in Disk
        BY <2>2, WriteSectionType, WriteFileType
    <2>4. PatchedFiles' = PatchedFiles
        BY <2>1 DEF DropPatch, PatchedFiles
    <2>5. CASE DropWrite(f)
        BY <1>10, <2>1, <2>3, <2>4, <2>5 DEF DropPatch, DropWrite
    <2>6. CASE DropTraversal(f)
        <3>1. history' \in Seq(FailureRecord)
              /\ lastFailure' \in FailureRecord \cup {NoFailure}
            BY <2>6, RecordFailureType
            DEF DropTraversal, FailureType, Node, Counters
        <3>2. exc' \in Exception /\ pc' = "except"
            BY <2>6, RaisedTypes, RecordingErrorsType DEF DropTraversal
        <3> QED  BY <1>10, <2>1, <2>6, <3>1, <3>2
                 DEF DropPatch, DropTraversal
    <2>7. CASE DropRefused(f)
        BY <1>10, <2>1, <2>7, RaisedTypes DEF DropPatch, DropRefused
    <2>8. CASE DropFault(f)
        BY <1>10, <2>1, <2>3, <2>8, RaisedTypes DEF DropPatch, DropFault
    <2> QED  BY <2>1, <2>5, <2>6, <2>7, <2>8 DEF DropPatch
<1>11. CASE ArtifactDone
    <2>1. Cardinality(written) \in Nat
        BY NodesAssumption, FS_Subset, FS_CardinalityType
    <2>2. entryCount' \in Nat
        BY <1>11, <2>1 DEF ArtifactDone
    <2>3. stagingDir' \in BOOLEAN /\ undeleted' \in Nat
        BY <1>11, CleanupFact DEF ArtifactDone
    <2>4. UNCHANGED <<work, leaked>>
        BY <1>11 DEF ArtifactDone, CleanupStaging
    <2> QED  BY <1>11, <2>2, <2>3, <2>4, RaisedTypes DEF ArtifactDone, Outcome
<1>12. CASE DoHitl
    <2>1. stagingDir' \in BOOLEAN /\ undeleted' \in Nat
        BY <1>12, CleanupFact DEF DoHitl
    <2>2. UNCHANGED <<work, leaked>>
        BY <1>12 DEF DoHitl, CleanupStaging
    <2> QED  BY <1>12, <2>1, <2>2, RaisedTypes DEF DoHitl, Outcome
<1> QED
    BY <1>1, <1>2, <1>3, <1>4, <1>5, <1>6, <1>7, <1>8, <1>9, <1>10, <1>11,
       <1>12
    DEF NodeStep

\* An edge of a runner, which records a failure, releases the staging
\* directory or ends the run, keeps the types.
LEMMA EdgeTypes ==
    ASSUME NodesInv,
           UNCHANGED <<setup, counters, patches, entryCount, work, resultVars,
                       diskVars, todo>>,
           history' \in Seq(FailureRecord),
           lastFailure' \in FailureRecord \cup {NoFailure},
           stagingDir' \in BOOLEAN, leaked' \in Nat, undeleted' \in Nat,
           exc' \in Exception \cup {NoException}, outcome' \in Outcome,
           pc' \in PC \ {"stage", "drop", "reviewer"},
           pc' = "except" => exc' \in Exception
    PROVE  NodesInv'
BY DEF NodesInv, NodesTypeOK, TodoPatched, ExceptHasException, ReviewerInput,
       resultVars, diskVars, PatchedFiles

\* A human's edit keeps them as well, and so does a step that changes nothing.
LEMMA HumanTypes ==
    ASSUME NodesInv, NEW f \in Files, HumanEdit(f)
    PROVE  NodesInv'
<1>1. disk \in Disk /\ disk' \in Disk
    BY HumanEditType DEF HumanEdit, NodesInv, NodesTypeOK
<1>2. edits' \in 0..MaxEdits
    BY NodesAssumption DEF HumanEdit, NodesInv, NodesTypeOK
<1> QED
    BY <1>1, <1>2
    DEF HumanEdit, NodesInv, NodesTypeOK, TodoPatched, ExceptHasException,
        ReviewerInput, stateVars, stagingVars, resultVars, PatchedFiles

LEMMA StutterTypes ==
    ASSUME NodesInv, UNCHANGED nodeVars
    PROVE  NodesInv'
BY DEF NodesInv, NodesTypeOK, TodoPatched, ExceptHasException, ReviewerInput,
       nodeVars, stateVars, stagingVars, resultVars, diskVars, PatchedFiles

\* Whatever a node does to the history, it records one failure or none.
LEMMA NodeRecords ==
    ASSUME NodesInv, NodeStep
    PROVE  \/ NothingRecorded
           \/ \E ft \in FailureType, n \in Node, k \in Nat : RecordFailure(ft, n, k)
<1>a. counters \in Counters /\ counters.total \in Nat
    BY DEF NodesInv, NodesTypeOK, Counters
<1>1. CASE \E f \in Files : StagePatch(f, "after_drift") \/ DropPatch(f)
    <2>1. /\ "SECURITY_VIOLATION" \in FailureType
          /\ "drift" \in Node /\ "artifact" \in Node
        BY DEF FailureType, Node
    <2> QED  BY <1>a, <1>1, <2>1
             DEF StagePatch, StageWrite, StageTraversal, StageError, DropPatch,
                 DropWrite, DropTraversal, DropRefused, DropFault,
                 NothingRecorded
<1>2. CASE Reviewer("after_reviewer")
    <2>1. counters'.total \in Nat /\ "reviewer" \in Node
        BY <1>a, <1>2, BumpFact DEF Reviewer, CountedNode, Node
    <2>2. Verdict.verdict = "FAIL" => Verdict.ftype \in FailureType
        BY <1>2, VerdictType DEF Reviewer
    <2> QED  BY <1>2, <2>1, <2>2 DEF Reviewer
<1>3. CASE UNCHANGED <<history, lastFailure>>
    BY <1>3 DEF NothingRecorded
<1> QED
    BY <1>1, <1>2, <1>3
    DEF NodeStep, stateVars, LoadSpec, Planner, Engineer, DriftPrepare,
        DriftVerify, Sandbox, ArtifactEnter, ArtifactDone, DoHitl

-----------------------------------------------------------------------------
\* A path traversal never passes

NodesSecurity == EndedIsDone /\ TraversalKeepsPatch /\ DroppedWritable

LEMMA NodesInitSecurity == NodesInit => NodesSecurity
BY DEF NodesInit, NodesSecurity, TraversalRecords, EndedIsDone,
       TraversalKeepsPatch, DroppedWritable

\* A patch, once accumulated, is never given up.
LEMMA PatchesAreKept ==
    ASSUME NodesInv, NodeStep
    PROVE  PatchedFiles \subseteq PatchedFiles'
<1>1. CASE Engineer("drift")
    BY <1>1, MergeFact, NodesAssumption
    DEF Engineer, PatchedFiles, NodesInv, NodesTypeOK
<1>2. CASE UNCHANGED patches
    BY <1>2 DEF PatchedFiles
<1> QED
    BY <1>1, <1>2
    DEF NodeStep, stateVars, LoadSpec, Planner, DriftPrepare, StagePatch,
        DriftVerify, Sandbox, Reviewer, ArtifactEnter, DropPatch,
        ArtifactDone, DoHitl

\* A new traversal record appears only with a patch that leaves the roots.
LEMMA NewTraversalRecord ==
    ASSUME history \in Seq(FailureRecord),
           NEW ft \in FailureType, NEW n \in Node, NEW k \in Nat,
           RecordFailure(ft, n, k),
           TraversalRecords' # {}
    PROVE  \/ TraversalRecords # {}
           \/ ft = "SECURITY_VIOLATION" /\ n \in {"drift", "artifact"}
<1> DEFINE r == [type |-> ft, node |-> n, attempt |-> k]
<1>1. r \in FailureRecord
    BY DEF FailureRecord
<1>2. history' = RememberFailure(history, r)
    BY DEF RecordFailure
<1>3. PICK i \in DOMAIN history' : /\ history'[i].type = "SECURITY_VIOLATION"
                                   /\ history'[i].node \in {"drift", "artifact"}
    BY DEF TraversalRecords
<1>4. \/ history'[i] = r
      \/ \E j \in DOMAIN history : history'[i] = history[j]
    BY <1>1, <1>2, <1>3, RememberFact
<1> QED  BY <1>3, <1>4 DEF TraversalRecords

\* Steps that record no traversal keep the record's relation to the patches.
LEMMA KeepTraversalPatch ==
    ASSUME TraversalKeepsPatch, PatchedFiles \subseteq PatchedFiles',
           TraversalRecords' # {} => TraversalRecords # {}
    PROVE  TraversalKeepsPatch'
BY DEF TraversalKeepsPatch

\* The program point and the outcome change together, at the end of a run.
LEMMA NodeEnds ==
    ASSUME EndedIsDone, NodeStep
    PROVE  EndedIsDone'
<1>1. CASE \/ ArtifactDone \/ DoHitl
    BY <1>1 DEF EndedIsDone, ArtifactDone, DoHitl, Goto, Raise
<1>2. CASE outcome' = outcome /\ pc # "done" /\ pc' # "done"
    BY <1>2 DEF EndedIsDone
<1>3. CASE outcome' = outcome /\ pc' = pc
    BY <1>3 DEF EndedIsDone
<1> USE DEF Goto, Raise
<1>4. CASE \/ LoadSpec("planner") \/ Planner("engineer") \/ Engineer("drift")
           \/ DriftPrepare \/ DriftVerify("after_drift")
           \/ Sandbox("reviewer") \/ Reviewer("after_reviewer")
           \/ ArtifactEnter
    BY <1>2, <1>4
    DEF LoadSpec, Planner, Engineer, DriftPrepare, DriftVerify, Sandbox,
        Reviewer, ArtifactEnter
<1>5. CASE \E f \in Files : StagePatch(f, "after_drift") \/ DropPatch(f)
    BY <1>2, <1>3, <1>5
    DEF StagePatch, StageWrite, StageTraversal, StageError, DropPatch,
        DropWrite, DropTraversal, DropRefused, DropFault
<1> QED
    BY <1>1, <1>4, <1>5 DEF NodeStep

\* A traversal is recorded while the patch that caused it is in the state.
LEMMA NodeTraversals ==
    ASSUME NodesInv, TraversalKeepsPatch, NodeStep
    PROVE  TraversalKeepsPatch'
<1>1. PatchedFiles \subseteq PatchedFiles'
    BY PatchesAreKept
<1>2. CASE UNCHANGED history
    BY <1>1, <1>2, KeepTraversalPatch DEF TraversalRecords
<1>3. history \in Seq(FailureRecord) /\ counters.total \in Nat
    BY DEF NodesInv, NodesTypeOK, Counters
<1> USE DEF NothingRecorded
<1>4. CASE \E f \in Files : StagePatch(f, "after_drift")
    <2>1. PICK f \in Files : StagePatch(f, "after_drift")
        BY <1>4
    <2>2. CASE StageTraversal(f, "after_drift")
        <3>1. f \in PatchedFiles /\ f \notin ProjectWritable
            BY <2>1, <2>2, WriteErrorFact
            DEF StagePatch, StageTraversal, NodesInv, TodoPatched,
                ProjectWritable
        <3> QED  BY <1>1, <3>1 DEF TraversalKeepsPatch
    <2>3. CASE ~StageTraversal(f, "after_drift")
        BY <1>2, <2>1, <2>3 DEF StagePatch, StageWrite, StageError
    <2> QED  BY <2>2, <2>3
<1>5. CASE \E f \in Files : DropPatch(f)
    <2>1. PICK f \in Files : DropPatch(f)
        BY <1>5
    <2>2. CASE DropTraversal(f)
        <3>1. f \in PatchedFiles /\ f \notin ProjectWritable
            BY <2>1, <2>2, WriteErrorFact
            DEF DropPatch, DropTraversal, NodesInv, TodoPatched
        <3> QED  BY <1>1, <3>1 DEF TraversalKeepsPatch
    <2>3. CASE ~DropTraversal(f)
        BY <1>2, <2>1, <2>3 DEF DropPatch, DropWrite, DropRefused, DropFault
    <2> QED  BY <2>2, <2>3
<1>6. CASE Reviewer("after_reviewer")
    <2>1. Verdict.verdict = "FAIL" => Verdict.ftype \in FailureType
        BY <1>6, VerdictType DEF Reviewer
    <2>2. counters'.total \in Nat
        BY <1>6, BumpFact
        DEF Reviewer, CountedNode, Counters, NodesInv, NodesTypeOK
    <2>3. CASE /\ Verdict.verdict = "FAIL"
               /\ RecordFailure(Verdict.ftype, "reviewer", counters'.total)
        BY <1>1, <1>3, <2>1, <2>2, <2>3, NewTraversalRecord,
           KeepTraversalPatch DEF Node
    <2> QED  BY <1>2, <1>6, <2>3 DEF Reviewer
<1> QED
    BY <1>2, <1>4, <1>5, <1>6
    DEF NodeStep, stateVars, LoadSpec, Planner, Engineer, DriftPrepare,
        DriftVerify, Sandbox, ArtifactEnter, ArtifactDone, DoHitl

\* The drop node passes a file only after the writer accepted its path.
LEMMA NodeDrops ==
    ASSUME NodesInv, EndedIsDone, DroppedWritable, NodeStep
    PROVE  DroppedWritable'
<1> USE DEF Goto, Raise
<1>1. CASE \E f \in Files : DropPatch(f)
    <2>1. PICK f \in Files : DropPatch(f)
        BY <1>1
    <2>2. PatchedFiles' = PatchedFiles /\ outcome' = outcome /\ pc = "drop"
        BY <2>1 DEF DropPatch, PatchedFiles
    <2>3. outcome' = "running"
        BY <2>2 DEF EndedIsDone
    <2>4. CASE DropWrite(f)
        <3>1. f \in ProjectWritable /\ todo' = todo \ {f}
            BY <2>4, WriteErrorFact DEF DropWrite
        <3> QED  BY <2>2, <2>3, <3>1 DEF DroppedWritable
    <2>5. CASE ~DropWrite(f)
        BY <2>1, <2>3, <2>5
        DEF DropPatch, DropTraversal, DropRefused, DropFault, DroppedWritable
    <2> QED  BY <2>4, <2>5
<1>2. CASE ArtifactEnter
    <2>1. PatchedFiles' = PatchedFiles /\ todo' = PatchedFiles
          /\ outcome' = "running"
        BY <1>2 DEF ArtifactEnter, PatchedFiles, stateVars, EndedIsDone
    <2> QED  BY <2>1 DEF DroppedWritable
<1>3. CASE ArtifactDone
    <2>1. PatchedFiles' = PatchedFiles /\ todo = {} /\ pc = "drop"
          /\ pc' # "drop"
        BY <1>3 DEF ArtifactDone, PatchedFiles
    <2> QED  BY <2>1 DEF DroppedWritable
<1>4. CASE pc' # "drop" /\ outcome' # "PASS"
    BY <1>4 DEF DroppedWritable
<1>5. CASE UNCHANGED <<pc, patches, todo, outcome>>
    BY <1>5 DEF DroppedWritable, PatchedFiles
<1>6. CASE \/ LoadSpec("planner") \/ Planner("engineer") \/ Engineer("drift")
           \/ DriftPrepare \/ DriftVerify("after_drift")
           \/ Sandbox("reviewer") \/ Reviewer("after_reviewer")
    BY <1>4, <1>6
    DEF LoadSpec, Planner, Engineer, DriftPrepare, DriftVerify, Sandbox,
        Reviewer, EndedIsDone
<1>7. CASE \E f \in Files : StagePatch(f, "after_drift")
    BY <1>4, <1>7
    DEF StagePatch, StageWrite, StageTraversal, StageError, EndedIsDone
<1>8. CASE DoHitl
    BY <1>4, <1>8 DEF DoHitl, EndedIsDone
<1> QED
    BY <1>1, <1>2, <1>3, <1>6, <1>7, <1>8 DEF NodeStep

LEMMA NodeSecurity ==
    ASSUME NodesInv, NodesSecurity, NodeStep
    PROVE  NodesSecurity'
BY NodeEnds, NodeTraversals, NodeDrops DEF NodesSecurity

\* An edge of a runner keeps them, unless it records a traversal or passes.
LEMMA EdgeSecurity ==
    ASSUME NodesSecurity,
           UNCHANGED <<patches, todo>>,
           TraversalRecords' # {} => TraversalRecords # {},
           pc # "done", pc' # "drop",
           \/ pc' # "done" /\ outcome' = outcome
           \/ pc' = "done" /\ outcome' \in {"HITL", "CRASH"}
    PROVE  NodesSecurity'
BY DEF NodesSecurity, EndedIsDone, TraversalKeepsPatch, DroppedWritable,
       PatchedFiles

LEMMA StutterSecurity ==
    ASSUME NodesSecurity, UNCHANGED <<history, patches, todo, pc, outcome>>
    PROVE  NodesSecurity'
BY DEF NodesSecurity, EndedIsDone, TraversalKeepsPatch, DroppedWritable,
       TraversalRecords, PatchedFiles

\* The invariant says what a passing run may not have done.
LEMMA SecurityFromInvariant == NodesSecurity => SecurityNeverPasses
BY DEF NodesSecurity, SecurityNeverPasses, TraversalKeepsPatch, DroppedWritable
-----------------------------------------------------------------------------
\* What a passing run has staged, tested and dropped

\* The project a run starts from has whole sections, as the factory's own
\* files have: no begin token without a body and an end token after it.
ProjectsWhole == \A d \in InitDisks : WholeDisk(d)

WholeInv == WholeDisk(work) /\ WholeDisk(disk)

LEMMA NodesInitWhole == ProjectsWhole /\ NodesInit => WholeInv
<1>1. SectionsWhole(NoFile.lines)
    BY DEF SectionsWhole, NoFile
<1> QED  BY <1>1 DEF ProjectsWhole, NodesInit, WholeInv, WholeDisk, EmptyDisk

LEMMA NodeWhole ==
    ASSUME PlainBodies, NodesInv, WholeInv, NodeStep
    PROVE  WholeInv'
<1>a. work \in Disk /\ disk \in Disk /\ WholeDisk(work) /\ WholeDisk(disk)
    BY DEF NodesInv, NodesTypeOK, WholeInv
<1>1. CASE UNCHANGED <<work, disk>>
    BY <1>1, <1>a DEF WholeInv
<1>2. CASE DriftPrepare
    BY <1>2, <1>a, CopyPlatformWhole DEF DriftPrepare, diskVars, WholeInv
<1>3. CASE \E f \in Files : StagePatch(f, "after_drift")
    <2>1. PICK f \in Files : StagePatch(f, "after_drift")
        BY <1>3
    <2>2. patches[f] \in Patch
        BY <2>1, PatchedFact
        DEF StagePatch, NodesInv, NodesTypeOK, TodoPatched
    <2>3. /\ WholeDisk(WriteFile(work, f, patches[f]))
          /\ WholeDisk(WriteSection(work, f, patches[f]))
        BY <1>a, <2>2, WriteFileWhole, WriteSectionTree DEF WholeDisk
    <2>4. disk' = disk
        BY <2>1 DEF StagePatch, diskVars
    <2>5. work' \in {work, WriteFile(work, f, patches[f]),
                     WriteSection(work, f, patches[f])}
        BY <2>1 DEF StagePatch, StageWrite, StageTraversal, StageError
    <2> QED  BY <1>a, <2>3, <2>4, <2>5 DEF WholeInv
<1>4. CASE \E f \in Files : DropPatch(f)
    <2>1. PICK f \in Files : DropPatch(f)
        BY <1>4
    <2>2. patches[f] \in Patch
        BY <2>1, PatchedFact
        DEF DropPatch, NodesInv, NodesTypeOK, TodoPatched
    <2>3. /\ WholeDisk(WriteFile(disk, f, patches[f]))
          /\ WholeDisk(WriteSection(disk, f, patches[f]))
        BY <1>a, <2>2, WriteFileWhole, WriteSectionTree DEF WholeDisk
    <2>4. work' = work
        BY <2>1 DEF DropPatch, stagingVars
    <2>5. disk' \in {disk, WriteFile(disk, f, patches[f]),
                     WriteSection(disk, f, patches[f])}
        BY <2>1 DEF DropPatch, DropWrite, DropTraversal, DropRefused, DropFault
    <2> QED  BY <1>a, <2>3, <2>4, <2>5 DEF WholeInv
<1> QED
    BY <1>1, <1>2, <1>3, <1>4
    DEF NodeStep, stagingVars, diskVars, LoadSpec, Planner, Engineer,
        DriftVerify, Sandbox, Reviewer, ArtifactEnter, ArtifactDone, DoHitl,
        CleanupStaging

LEMMA HumanWhole ==
    ASSUME NodesInv, WholeInv, NEW f \in Files, HumanEdit(f)
    PROVE  WholeInv'
<1> DEFINE c == disk.tree[f].lines
<1>1. disk \in Disk /\ c \in Seq(Line) /\ SectionsWhole(c)
    BY DEF NodesInv, NodesTypeOK, WholeInv, WholeDisk, Disk, FileState
<1>2. SectionsWhole(Append(c, HumanLine))
    BY <1>1, EndLineFact, HumanIsText, AppendText
<1>3. /\ disk'.tree[f].lines = Append(c, HumanLine)
      /\ \A g \in Files \ {f} : disk'.tree[g] = disk.tree[g]
      /\ work' = work
    BY <1>1 DEF HumanEdit, FileWith, Disk, stagingVars
<1> HIDE DEF c
<1> QED  BY <1>2, <1>3 DEF WholeInv, WholeDisk

\* Disk d carries the patches of the files in S.
Carries(d, S) == \A f \in S : HasSection(d.tree[f], patches[f])

\* The staging directory carries what the loop has staged; and what is tested,
\* reviewed and dropped is free of drift and carries every patch.
StagedInv ==
    /\ pc = "stage" => Carries(work, PatchedFiles \ todo)
    /\ pc = "after_drift" /\ drift = "no-drift" => Carries(work, PatchedFiles)
    /\ pc \in {"sandbox", "reviewer"} =>
           drift = "no-drift" /\ Carries(work, PatchedFiles)
    /\ (pc = "after_reviewer" /\ review.verdict = "PASS")
       \/ pc \in {"artifact", "drop"} =>
           /\ drift = "no-drift" /\ sandbox.passed /\ review.verdict = "PASS"
           /\ Carries(work, PatchedFiles)
    /\ outcome = "PASS" => Carries(work, PatchedFiles)

\* The project carries what the loop has dropped.
DroppedInv ==
    /\ pc = "drop" => Carries(disk, PatchedFiles \ todo)
    /\ outcome = "PASS" => Carries(disk, PatchedFiles)

DropInv == WholeInv /\ StagedInv /\ DroppedInv

LEMMA NodesInitDrop == ProjectsWhole /\ NodesInit => DropInv
BY NodesInitWhole DEF NodesInit, DropInv, StagedInv, DroppedInv

\* A write adds its own patch to those a disk carries, and takes none away.
LEMMA WriteCarries ==
    ASSUME PlainBodies,
           NEW d \in Disk, WholeDisk(d), NEW f \in Files, patches[f] \in Patch,
           NEW S \in SUBSET Files, Carries(d, S)
    PROVE  Carries(WriteSection(d, f, patches[f]), S \cup {f})
<1> DEFINE w == WriteSection(d, f, patches[f])
<1>1. w.tree = WriteFile(d, f, patches[f]).tree
    BY WriteSectionTree
<1>2. /\ HasSection(w.tree[f], patches[f])
      /\ \A g \in Files \ {f} : w.tree[g] = d.tree[g]
    BY <1>1, WriteFileWhole
<1> HIDE DEF w
<1>3. Carries(w, S \cup {f})
    BY <1>2 DEF Carries
<1> QED  BY <1>3 DEF w

LEMMA NodeStaged ==
    ASSUME PlainBodies, NodesInv, EndedIsDone, WholeInv, StagedInv, NodeStep
    PROVE  StagedInv'
<1> USE DEF Goto, Raise
<1>1. CASE pc' \notin {"stage", "after_drift", "sandbox", "reviewer",
                       "after_reviewer", "artifact", "drop"}
           /\ outcome' # "PASS"
    BY <1>1 DEF StagedInv
<1>2. CASE \/ LoadSpec("planner") \/ Planner("engineer") \/ Engineer("drift")
           \/ DoHitl
    BY <1>1, <1>2 DEF LoadSpec, Planner, Engineer, DoHitl, EndedIsDone
<1>3. CASE DriftPrepare
    <2>1. CASE pc' = "stage"
        <3>1. todo' = PatchedFiles /\ PatchedFiles' = PatchedFiles
              /\ outcome' # "PASS"
            BY <1>3, <2>1
            DEF DriftPrepare, PatchedFiles, stateVars, EndedIsDone
        <3> QED  BY <2>1, <3>1 DEF StagedInv, Carries
    <2>2. CASE pc' = "except"
        BY <1>1, <1>3, <2>2 DEF DriftPrepare, EndedIsDone
    <2> QED  BY <1>3, <2>1, <2>2 DEF DriftPrepare
<1>4. CASE \E f \in Files : StagePatch(f, "after_drift")
    <2>1. PICK f \in Files : StagePatch(f, "after_drift")
        BY <1>4
    <2>2. /\ patches' = patches /\ PatchedFiles' = PatchedFiles
          /\ pc = "stage" /\ outcome' # "PASS"
        BY <2>1 DEF StagePatch, PatchedFiles, EndedIsDone
    <2>3. CASE StageWrite(f)
        <3>1. /\ work \in Disk /\ WholeDisk(work) /\ patches[f] \in Patch
              /\ PatchedFiles \ todo \in SUBSET Files
              /\ Carries(work, PatchedFiles \ todo)
            BY <2>1, <2>2, PatchedFact
            DEF StagePatch, NodesInv, NodesTypeOK, TodoPatched, WholeInv,
                StagedInv, PatchedFiles
        <3>2. /\ work' = WriteSection(work, f, patches[f])
              /\ pc' = "stage" /\ todo' = todo \ {f}
            BY <2>2, <2>3 DEF StageWrite
        <3>3. Carries(work', (PatchedFiles \ todo) \cup {f})
            BY <3>1, <3>2, WriteCarries
        <3>4. Carries(work, PatchedFiles \ todo)'
            BY <2>2, <3>2, <3>3 DEF Carries
        <3> QED  BY <2>2, <3>2, <3>4 DEF StagedInv
    <2>4. CASE StageTraversal(f, "after_drift")
        <3>1. pc' = "after_drift" /\ drift' # "no-drift"
            BY <2>4 DEF StageTraversal
        <3> QED  BY <2>2, <3>1 DEF StagedInv
    <2>5. CASE StageError(f)
        BY <1>1, <2>2, <2>5 DEF StageError
    <2> QED  BY <2>1, <2>3, <2>4, <2>5 DEF StagePatch
<1>5. CASE UNCHANGED <<patches, work>>
    <2>1. PatchedFiles' = PatchedFiles
        BY <1>5 DEF PatchedFiles
    <2>2. Carries(work, PatchedFiles)' <=> Carries(work, PatchedFiles)
        BY <1>5, <2>1 DEF Carries
    <2>3. CASE DriftVerify("after_drift")
        <3>1. pc = "stage" /\ todo = {} /\ outcome' # "PASS"
              /\ pc' \in {"after_drift", "except"}
            BY <2>3 DEF DriftVerify, EndedIsDone
        <3>2. Carries(work, PatchedFiles)
            BY <3>1 DEF StagedInv
        <3> QED  BY <2>2, <3>1, <3>2 DEF StagedInv
    <2>4. CASE Sandbox("reviewer")
        <3>1. pc = "sandbox" /\ pc' \in {"reviewer", "except"}
              /\ outcome' # "PASS" /\ drift' = drift
            BY <2>4 DEF Sandbox, EndedIsDone
        <3> QED  BY <2>2, <3>1 DEF StagedInv
    <2>5. CASE Reviewer("after_reviewer")
        <3>1. pc = "reviewer" /\ pc' \in {"after_reviewer", "except"}
              /\ outcome' # "PASS" /\ UNCHANGED <<drift, sandbox>>
            BY <2>5 DEF Reviewer, EndedIsDone
        <3>2. pc' = "after_reviewer" => review' = Verdict
            BY <2>5 DEF Reviewer
        <3>3. pc' = "after_reviewer" /\ review'.verdict = "PASS"
                  => sandbox.passed
            BY <3>1, <3>2 DEF StagedInv, Verdict, NodesInv, NodesTypeOK,
                               SandboxResult
        <3> QED  BY <2>2, <3>1, <3>3 DEF StagedInv
    <2>6. CASE ArtifactEnter
        <3>1. pc = "artifact" /\ pc' = "drop" /\ outcome' # "PASS"
              /\ UNCHANGED <<drift, sandbox, review>>
            BY <2>6 DEF ArtifactEnter, EndedIsDone, resultVars
        <3> QED  BY <2>2, <3>1 DEF StagedInv
    <2>7. CASE \E f \in Files : DropPatch(f)
        <3>1. pc = "drop" /\ pc' \in {"drop", "except"} /\ outcome' # "PASS"
              /\ UNCHANGED <<drift, sandbox, review>>
            BY <2>7 DEF DropPatch, DropWrite, DropTraversal, DropRefused,
                        DropFault, EndedIsDone, resultVars
        <3> QED  BY <2>2, <3>1 DEF StagedInv
    <2>8. CASE ArtifactDone
        <3>1. pc = "drop" /\ pc' \in {"done", "except"}
            BY <2>8 DEF ArtifactDone
        <3> QED  BY <2>2, <3>1 DEF StagedInv
    <2> QED  BY <1>2, <1>3, <1>4, <2>3, <2>4, <2>5, <2>6, <2>7, <2>8
             DEF NodeStep
<1>6. \/ UNCHANGED <<patches, work>>
      \/ LoadSpec("planner") \/ Planner("engineer") \/ Engineer("drift")
      \/ DriftPrepare \/ DoHitl
      \/ \E f \in Files : StagePatch(f, "after_drift")
    BY DEF NodeStep, stateVars, stagingVars, DriftVerify, Sandbox, Reviewer,
           ArtifactEnter, DropPatch, ArtifactDone, CleanupStaging
<1> QED  BY <1>2, <1>3, <1>4, <1>5, <1>6

LEMMA NodeDropped ==
    ASSUME PlainBodies, NodesInv, EndedIsDone, WholeInv, DroppedInv, NodeStep
    PROVE  DroppedInv'
<1> USE DEF Goto, Raise
<1>1. CASE pc' # "drop" /\ outcome' # "PASS"
    BY <1>1 DEF DroppedInv
<1>2. CASE \/ LoadSpec("planner") \/ Planner("engineer") \/ Engineer("drift")
           \/ DriftPrepare \/ DriftVerify("after_drift")
           \/ Sandbox("reviewer") \/ Reviewer("after_reviewer") \/ DoHitl
    BY <1>1, <1>2
    DEF LoadSpec, Planner, Engineer, DriftPrepare, DriftVerify, Sandbox,
        Reviewer, DoHitl, EndedIsDone
<1>3. CASE \E f \in Files : StagePatch(f, "after_drift")
    BY <1>1, <1>3
    DEF StagePatch, StageWrite, StageTraversal, StageError, EndedIsDone
<1>4. CASE ArtifactEnter
    <2>1. /\ todo' = PatchedFiles /\ PatchedFiles' = PatchedFiles
          /\ pc' = "drop" /\ outcome' # "PASS"
        BY <1>4 DEF ArtifactEnter, PatchedFiles, stateVars, EndedIsDone
    <2> QED  BY <2>1 DEF DroppedInv, Carries
<1>5. CASE \E f \in Files : DropPatch(f)
    <2>1. PICK f \in Files : DropPatch(f)
        BY <1>5
    <2>2. /\ patches' = patches /\ PatchedFiles' = PatchedFiles
          /\ pc = "drop" /\ outcome' # "PASS"
        BY <2>1 DEF DropPatch, PatchedFiles, EndedIsDone
    <2>3. CASE DropWrite(f)
        <3>1. /\ disk \in Disk /\ WholeDisk(disk) /\ patches[f] \in Patch
              /\ PatchedFiles \ todo \in SUBSET Files
              /\ Carries(disk, PatchedFiles \ todo)
            BY <2>1, <2>2, PatchedFact
            DEF DropPatch, NodesInv, NodesTypeOK, TodoPatched, WholeInv,
                DroppedInv, PatchedFiles
        <3>2. /\ disk' = WriteSection(disk, f, patches[f])
              /\ pc' = "drop" /\ todo' = todo \ {f}
            BY <2>2, <2>3 DEF DropWrite
        <3>3. Carries(disk', (PatchedFiles \ todo) \cup {f})
            BY <3>1, <3>2, WriteCarries
        <3>4. Carries(disk, PatchedFiles \ todo)'
            BY <2>2, <3>2, <3>3 DEF Carries
        <3> QED  BY <2>2, <3>2, <3>4 DEF DroppedInv
    <2>4. CASE ~DropWrite(f)
        BY <1>1, <2>1, <2>2, <2>4
        DEF DropPatch, DropTraversal, DropRefused, DropFault
    <2> QED  BY <2>3, <2>4
<1>6. CASE ArtifactDone
    <2>1. /\ pc = "drop" /\ pc' # "drop" /\ todo = {}
          /\ UNCHANGED <<patches, disk>> /\ PatchedFiles' = PatchedFiles
        BY <1>6 DEF ArtifactDone, diskVars, PatchedFiles
    <2>2. Carries(disk, PatchedFiles)
        BY <2>1 DEF DroppedInv
    <2>3. Carries(disk, PatchedFiles)'
        BY <2>1, <2>2 DEF Carries
    <2> QED  BY <2>1, <2>3 DEF DroppedInv
<1> QED  BY <1>2, <1>3, <1>4, <1>5, <1>6 DEF NodeStep

LEMMA NodeDrop ==
    ASSUME PlainBodies, NodesInv, EndedIsDone, DropInv, NodeStep
    PROVE  DropInv'
BY NodeWhole, NodeStaged, NodeDropped DEF DropInv

\* An edge of a runner keeps them if it starts tests only on a tree without
\* drift and a drop only after a PASS, and does not pass itself.
LEMMA EdgeDrop ==
    ASSUME DropInv, EndedIsDone,
           UNCHANGED <<patches, work, disk, todo, resultVars>>,
           pc # "done",
           outcome' \in {outcome, "HITL", "CRASH"},
           \/ pc' \in {"planner", "hitl", "hitl_last", "except", "done"}
           \/ pc = "after_drift" /\ drift = "no-drift" /\ pc' = "sandbox"
           \/ /\ pc = "after_reviewer" /\ review.verdict = "PASS"
              /\ pc' = "artifact"
    PROVE  DropInv'
<1>1. /\ PatchedFiles' = PatchedFiles /\ outcome' # "PASS"
      /\ UNCHANGED <<drift, sandbox, review>>
    BY DEF PatchedFiles, EndedIsDone, resultVars
<1>2. WholeInv'
    BY DEF DropInv, WholeInv
<1>3. Carries(work, PatchedFiles) => Carries(work, PatchedFiles)'
    BY <1>1 DEF Carries
<1>4. StagedInv'
    BY <1>1, <1>3 DEF DropInv, StagedInv
<1>5. DroppedInv'
    BY <1>1 DEF DroppedInv
<1> QED  BY <1>2, <1>4, <1>5 DEF DropInv

\* A human adds a line and takes no section away.
LEMMA HumanDrop ==
    ASSUME NodesInv, DropInv, NEW f \in Files, HumanEdit(f)
    PROVE  DropInv'
<1> DEFINE c == disk.tree[f].lines
<1>1. disk \in Disk /\ c \in Seq(Line) /\ HumanLine \in Line
    BY EndLineFact DEF NodesInv, NodesTypeOK, Disk, FileState
<1>2. /\ UNCHANGED <<patches, work, todo, pc, outcome, resultVars>>
      /\ PatchedFiles' = PatchedFiles /\ outcome # "PASS"
    BY DEF HumanEdit, stateVars, stagingVars, PatchedFiles
<1>3. /\ disk'.tree[f] = FileWith(Append(c, HumanLine))
      /\ \A g \in Files \ {f} : disk'.tree[g] = disk.tree[g]
    BY <1>1 DEF HumanEdit, Disk
<1>4. disk.tree[f] = [exists |-> disk.tree[f].exists, lines |-> c]
    BY <1>1 DEF Disk, FileState
<1> HIDE DEF c
<1>5. ASSUME NEW g \in Files, NEW p, HasSection(disk.tree[g], p)
      PROVE  HasSection(disk'.tree[g], p)
    <2>1. CASE g = f
        BY <1>1, <1>3, <1>4, <1>5, <2>1, AppendKeepsSection
    <2>2. CASE g # f
        BY <1>3, <1>5, <2>2
    <2> QED  BY <2>1, <2>2
<1>6. WholeInv'
    BY HumanWhole DEF DropInv
<1>7. StagedInv'
    BY <1>2 DEF DropInv, StagedInv, Carries, resultVars
<1>8. DroppedInv'
    <2>1. pc = "drop" => Carries(disk, PatchedFiles \ todo)'
        BY <1>2, <1>5 DEF DropInv, DroppedInv, Carries, PatchedFiles
    <2> QED  BY <1>2, <2>1 DEF DroppedInv
<1> QED  BY <1>6, <1>7, <1>8 DEF DropInv

LEMMA StutterDrop ==
    ASSUME DropInv, UNCHANGED nodeVars
    PROVE  DropInv'
BY DEF DropInv, WholeInv, StagedInv, DroppedInv, Carries, PatchedFiles,
       nodeVars, stateVars, stagingVars, resultVars, diskVars

LEMMA PassedFromInvariant == DropInv => PassMeansDropped
BY DEF DropInv, StagedInv, DroppedInv, Carries, PassMeansDropped

-----------------------------------------------------------------------------
\* What the run's own writes leave for the writer's next check

\* While the loop drops, only files it has still to drop may be torn.
TornInv ==
    edits = 0 => /\ Torn(disk) \subseteq PatchedFiles
                 /\ pc = "drop" => Torn(disk) \subseteq todo
                 /\ outcome = "PASS" => Torn(disk) = {}

LEMMA TornFact ==
    ASSUME NEW d
    PROVE  IntegrityOK(d) <=> Torn(d) = {}
BY DEF IntegrityOK, Torn

LEMMA NodesInitTorn ==
    ASSUME NodesInit, \A d \in InitDisks : IntegrityOK(d)
    PROVE  TornInv
BY TornFact DEF NodesInit, TornInv

\* A whole write leaves no file torn, one that was cut off its own.
LEMMA WriteTorn ==
    ASSUME NEW d \in Disk, IntegrityOK(d), NEW f \in Files, NEW p \in Patch
    PROVE  /\ Torn(WriteFile(d, f, p)) \subseteq {f}
           /\ Torn(WriteSection(d, f, p)) = {}
<1> DEFINE w == WriteFile(d, f, p)
           s == WriteSection(d, f, p)
<1>1. w \in Disk
    BY WriteFileType
<1>2. /\ w.manifest = d.manifest
      /\ \A g \in Files \ {f} : w.tree[g] = d.tree[g]
    BY DEF WriteFile, Disk
<1>3. s = [w EXCEPT !.manifest[f] = w.tree[f]]
    BY DEF WriteSection
<1> HIDE DEF w, s
<1>4. /\ s.manifest[f] = w.tree[f] /\ s.tree = w.tree
      /\ \A g \in Files \ {f} : s.manifest[g] = d.manifest[g]
    BY <1>1, <1>2, <1>3 DEF Disk
<1>5. Torn(w) \subseteq {f}
    BY <1>2 DEF Torn, IntegrityOK
<1>6. Torn(s) = {}
    BY <1>2, <1>4 DEF Torn, IntegrityOK
<1> QED  BY <1>5, <1>6 DEF w, s

LEMMA NodeTorn ==
    ASSUME NodesInv, EndedIsDone, TornInv, NodeStep
    PROVE  TornInv'
<1> USE DEF Goto, Raise
<1>a. PatchedFiles \subseteq PatchedFiles'
    BY PatchesAreKept
<1>1. CASE disk' = disk /\ edits' = edits /\ pc' # "drop" /\ outcome' # "PASS"
    BY <1>1, <1>a DEF TornInv, Torn
<1>2. CASE \E f \in Files : DropPatch(f)
    <2>1. PICK f \in Files : DropPatch(f)
        BY <1>2
    <2>2. /\ disk \in Disk /\ f \in PatchedFiles /\ patches[f] \in Patch
          /\ edits' = edits /\ outcome' # "PASS"
        BY <2>1, PatchedFact
        DEF DropPatch, NodesInv, NodesTypeOK, TodoPatched, EndedIsDone
    <2>3. ASSUME WriteError(disk, ProjectWritable, f) = "none"
          PROVE  /\ Torn(WriteFile(disk, f, patches[f])) \subseteq {f}
                 /\ Torn(WriteSection(disk, f, patches[f])) = {}
        <3>1. IntegrityOK(disk)
            BY <2>3 DEF WriteError
        <3> QED  BY <2>2, <3>1, WriteTorn
    <2>4. CASE DropWrite(f)
        <3>1. Torn(disk)' = {}
            BY <2>3, <2>4 DEF DropWrite, Torn
        <3> QED  BY <2>2, <3>1 DEF TornInv
    <2>5. CASE DropFault(f)
        <3>1. Torn(disk)' \subseteq Torn(disk) \cup {f}
            BY <2>3, <2>5 DEF DropFault, Torn
        <3>2. pc' # "drop"
            BY <2>5 DEF DropFault
        <3> QED  BY <1>a, <2>2, <3>1, <3>2 DEF TornInv
    <2>6. CASE DropTraversal(f) \/ DropRefused(f)
        BY <1>1, <2>2, <2>6 DEF DropTraversal, DropRefused
    <2> QED  BY <2>1, <2>4, <2>5, <2>6 DEF DropPatch
<1>3. CASE ArtifactEnter
    <2>1. /\ UNCHANGED <<disk, edits, patches>> /\ todo' = PatchedFiles
          /\ outcome' # "PASS"
        BY <1>3 DEF ArtifactEnter, stateVars, EndedIsDone
    <2> QED  BY <1>a, <2>1 DEF TornInv, Torn
<1>4. CASE ArtifactDone
    <2>1. /\ UNCHANGED <<disk, edits>> /\ pc = "drop" /\ todo = {}
          /\ pc' # "drop"
        BY <1>4 DEF ArtifactDone, diskVars
    <2> QED  BY <1>a, <2>1 DEF TornInv, Torn
<1>5. CASE \/ LoadSpec("planner") \/ Planner("engineer") \/ Engineer("drift")
           \/ DriftPrepare \/ DriftVerify("after_drift")
           \/ Sandbox("reviewer") \/ Reviewer("after_reviewer") \/ DoHitl
    BY <1>1, <1>5
    DEF diskVars, LoadSpec, Planner, Engineer, DriftPrepare, DriftVerify,
        Sandbox, Reviewer, DoHitl, EndedIsDone
<1>6. CASE \E f \in Files : StagePatch(f, "after_drift")
    BY <1>1, <1>6
    DEF StagePatch, StageWrite, StageTraversal, StageError, diskVars,
        EndedIsDone
<1> QED  BY <1>2, <1>3, <1>4, <1>5, <1>6 DEF NodeStep

\* An edge of a runner leaves the project alone, and does not pass.
LEMMA EdgeTorn ==
    ASSUME TornInv, UNCHANGED <<patches, disk, edits>>,
           pc' # "drop", outcome' # "PASS"
    PROVE  TornInv'
BY DEF TornInv, Torn, PatchedFiles

LEMMA HumanTorn ==
    ASSUME NodesInv, NEW f \in Files, HumanEdit(f)
    PROVE  TornInv'
BY NodesAssumption DEF HumanEdit, NodesInv, NodesTypeOK, TornInv

LEMMA StutterTorn ==
    ASSUME TornInv, UNCHANGED nodeVars
    PROVE  TornInv'
BY DEF TornInv, Torn, PatchedFiles, nodeVars, stateVars, diskVars

LEMMA IntegrityFromInvariant == TornInv => IntegrityKept
BY TornFact DEF TornInv, IntegrityKept

-----------------------------------------------------------------------------
\* With one section for each file, what is dropped is what was tested

\* Every answer of the engineer writes one section, of[f], of a file f.
OneSection(of) ==
    /\ of \in [Files -> Sections]
    /\ \A p \in Payloads : \A i \in DOMAIN p : p[i].sec = of[p[i].file]

\* Writing patch p to the file again does not change it.
Settled(f, p) == f = FileWith(Compose(f, p))

\* A patch of section s makes the same file of f and of g.
SameResult(f, g, s) ==
    \A b \in Bodies : Composed(f, s, b) = Composed(g, s, b)

\* A write settles the file, and makes the same of it as of the old one.
LEMMA WriteSettles ==
    ASSUME PlainBodies,
           NEW d \in Disk, WholeDisk(d), NEW f \in Files, NEW p \in Patch,
           NEW w, w = WriteFile(d, f, p)
    PROVE  /\ Settled(w.tree[f], p)
           /\ \A g \in FileState :
                  SameResult(d.tree[f], g, p.sec) => SameResult(w.tree[f], g, p.sec)
           /\ \A g \in FileState :
                  SameResult(g, d.tree[f], p.sec) => SameResult(g, w.tree[f], p.sec)
           /\ \A g \in Files \ {f} : w.tree[g] = d.tree[g]
<1> DEFINE x == d.tree[f]
           y == FileWith(Compose(x, p))
           s == p.sec
<1>1. x \in FileState /\ SectionsWhole(x.lines) /\ s \in Sections
    BY DEF Disk, WholeDisk, Patch
<1>2. w.tree[f] = y /\ \A g \in Files \ {f} : w.tree[g] = d.tree[g]
    BY DEF WriteFile, Disk
<1> HIDE DEF x
<1>3. Settled(y, p)
    BY <1>1, ComposeTwice DEF Settled
<1>4. ASSUME NEW b \in Bodies
      PROVE  Composed(y, s, b) = Composed(x, s, b)
    <2> DEFINE q == [sec |-> s, body |-> b]
    <2>1. q \in Patch /\ q.sec = p.sec
        BY <1>1 DEF Patch
    <2> HIDE DEF q
    <2>2. Compose(y, q) = Compose(x, q)
        BY <1>1, <2>1, ComposeTwice
    <2> QED  BY <2>2 DEF Composed, q
<1> HIDE DEF y
<1> QED  BY <1>2, <1>3, <1>4 DEF SameResult, x

\* Two files that a patch makes the same of, and that it is settled in, are the
\* same file.
LEMMA SettledSame ==
    ASSUME NEW f, NEW g, NEW p \in Patch,
           Settled(f, p), Settled(g, p), SameResult(f, g, p.sec)
    PROVE  f = g
<1>1. p.body \in Bodies /\ p = [sec |-> p.sec, body |-> p.body]
    BY DEF Patch
<1>2. Compose(f, p) = Compose(g, p)
    BY <1>1 DEF SameResult, Composed
<1> QED  BY <1>2 DEF Settled

SettledIn(d, S) == \A f \in S : Settled(d.tree[f], patches[f])
SameResults(of) ==
    \A f \in PlatformFiles : SameResult(work.tree[f], disk.tree[f], of[f])

\* Patches write the one section of their file.
PatchSections(of) == \A f \in PatchedFiles : patches[f].sec = of[f]

\* The staging directory, while it is named or in use, differs from the project
\* only by what the patches of both make of it; what was staged is settled in
\* it, what was dropped is settled in the project.
Staging == {"sandbox", "reviewer", "after_reviewer", "artifact", "drop"}

TestedNow(of) ==
    /\ stagingDir \/ pc \in Staging \cup {"stage", "after_drift"}
           => SameResults(of)
    /\ pc = "stage" => SettledIn(work, PatchedFiles \ todo)
    /\ pc = "after_drift" /\ drift = "no-drift" => SettledIn(work, PatchedFiles)
    /\ pc \in Staging => SettledIn(work, PatchedFiles)
    /\ pc = "drop" => SettledIn(disk, PatchedFiles \ todo)
    /\ outcome = "PASS" => \A f \in PatchedFiles \cap PlatformFiles :
                               disk.tree[f] = work.tree[f]

TestedInv(of) == PatchSections(of) /\ (edits = 0 => TestedNow(of))

LEMMA NodesInitTested ==
    ASSUME NEW of, NodesInit
    PROVE  TestedInv(of)
BY DEF NodesInit, TestedInv, PatchSections, TestedNow, PatchedFiles, Staging

\* The merge of an answer keeps the one section of each file.
LEMMA MergeSections ==
    ASSUME NEW of, OneSection(of), NodesInv, PatchSections(of),
           NEW p \in Payloads, patches' = Merge(patches, p)
    PROVE  PatchSections(of)'
<1> SUFFICES ASSUME NEW f \in Files, patches'[f] # NoPatch
             PROVE  patches'[f].sec = of[f]
    BY DEF PatchSections, PatchedFiles
<1>1. CASE \E i \in DOMAIN p : IsLastFor(p, f, i)
    <2>1. IsLastFor(p, f, LastFor(p, f))
        BY <1>1 DEF LastFor
    <2>2. LastFor(p, f) \in DOMAIN p /\ p[LastFor(p, f)].file = f
        BY <2>1 DEF IsLastFor
    <2>3. patches'[f] = PatchAt(p, LastFor(p, f))
        BY <1>1 DEF Merge
    <2> QED  BY <2>2, <2>3 DEF OneSection, PatchAt
<1>2. CASE ~\E i \in DOMAIN p : IsLastFor(p, f, i)
    <2>1. patches'[f] = patches[f]
        BY <1>2 DEF Merge
    <2> QED  BY <2>1 DEF PatchSections, PatchedFiles
<1> QED  BY <1>1, <1>2

LEMMA CopySame ==
    ASSUME NEW of, NEW d \in Disk, NEW f \in PlatformFiles
    PROVE  SameResult(CopyPlatform(d).tree[f], d.tree[f], of[f])
<1>1. CopyPlatform(d).tree[f] = d.tree[f]
    BY DEF CopyPlatform, Disk, Files
<1> QED  BY <1>1 DEF SameResult

\* A step that leaves patches and both trees alone.
LEMMA QuietTested ==
    ASSUME NEW of, NodesInv, TestedInv(of),
           UNCHANGED <<patches, work, disk, edits>>,
           EndedIsDone,
           stagingDir' \/ pc' \in Staging \cup {"stage", "after_drift"}
               => stagingDir \/ pc \in Staging \cup {"stage", "after_drift"},
           pc' = "stage" => pc = "stage" /\ todo' = todo,
           pc' = "after_drift" /\ drift' = "no-drift" =>
               \/ pc = "stage" /\ todo = {}
               \/ pc = "after_drift" /\ drift = "no-drift",
           pc' \in Staging =>
               pc \in Staging \/ (pc = "after_drift" /\ drift = "no-drift"),
           pc' = "drop" => \/ todo' = PatchedFiles
                           \/ pc = "drop" /\ todo' = todo,
           outcome' = "PASS" =>
               \/ outcome = "PASS"
               \/ pc = "drop" /\ todo = {}
    PROVE  TestedInv(of)'
<1>1. PatchedFiles' = PatchedFiles
    BY DEF PatchedFiles
<1>2. PatchSections(of)'
    BY <1>1 DEF TestedInv, PatchSections
<1>3. ASSUME edits' = 0 PROVE TestedNow(of)'
    <2>0. TestedNow(of)
        BY <1>3 DEF TestedInv
    <2>1. SameResults(of)' <=> SameResults(of)
        BY DEF SameResults
    <2>2. /\ SettledIn(work, PatchedFiles)' <=> SettledIn(work, PatchedFiles)
          /\ todo = {} => (SettledIn(work, PatchedFiles \ todo)
                               => SettledIn(work, PatchedFiles))
        BY <1>1 DEF SettledIn
    <2>3. pc' = "stage" => SettledIn(work, PatchedFiles \ todo)'
        BY <1>1, <2>0 DEF TestedNow, SettledIn
    <2>4. pc' = "drop" => SettledIn(disk, PatchedFiles \ todo)'
        BY <1>1, <2>0 DEF TestedNow, SettledIn
    <2>5. outcome' = "PASS" => \A f \in PatchedFiles \cap PlatformFiles :
                                   disk.tree[f] = work.tree[f]
        <3>1. CASE outcome = "PASS"
            BY <2>0, <3>1 DEF TestedNow
        <3>2. CASE pc = "drop" /\ todo = {}
            <4>1. /\ SettledIn(work, PatchedFiles)
                  /\ SettledIn(disk, PatchedFiles) /\ SameResults(of)
                BY <2>0, <3>2 DEF TestedNow, Staging, SettledIn
            <4>2. ASSUME NEW f \in PatchedFiles \cap PlatformFiles
                  PROVE  work.tree[f] = disk.tree[f]
                <5>1. patches[f] \in Patch /\ patches[f].sec = of[f]
                    BY PatchedFact
                    DEF NodesInv, NodesTypeOK, TestedInv, PatchSections
                <5>2. /\ Settled(work.tree[f], patches[f])
                      /\ Settled(disk.tree[f], patches[f])
                      /\ SameResult(work.tree[f], disk.tree[f], of[f])
                    BY <4>1 DEF SettledIn, SameResults
                <5> QED  BY <5>1, <5>2, SettledSame
            <4> QED  BY <1>1, <4>2
        <3> QED  BY <3>1, <3>2
    <2> QED  BY <1>1, <2>0, <2>1, <2>2, <2>3, <2>4, <2>5 DEF TestedNow
<1> QED  BY <1>2, <1>3 DEF TestedInv

LEMMA NodeTested ==
    ASSUME PlainBodies, NEW of, OneSection(of), NodesInv, EndedIsDone, WholeInv,
           TestedInv(of), NodeStep
    PROVE  TestedInv(of)'
<1> USE DEF Goto, Raise
<1>a. work \in Disk /\ disk \in Disk /\ WholeDisk(work) /\ WholeDisk(disk)
    BY DEF NodesInv, NodesTypeOK, WholeInv
<1>1. CASE \/ LoadSpec("planner") \/ Planner("engineer")
           \/ DriftVerify("after_drift") \/ Sandbox("reviewer")
           \/ Reviewer("after_reviewer") \/ ArtifactEnter
           \/ ArtifactDone \/ DoHitl
    <2>1. /\ UNCHANGED <<patches, work, disk, edits>>
          /\ PatchedFiles' = PatchedFiles
        BY <1>1
        DEF LoadSpec, Planner, DriftVerify, Sandbox, Reviewer, ArtifactEnter,
            ArtifactDone, DoHitl, CleanupStaging, AbandonStaging, stateVars,
            stagingVars, diskVars, PatchedFiles
    <2>2. CASE \/ LoadSpec("planner") \/ Planner("engineer") \/ DoHitl
        <3>1. /\ pc' \in {"planner", "engineer", "except", "done"}
              /\ stagingDir' => stagingDir
              /\ outcome' # "PASS"
            BY <2>2 DEF LoadSpec, Planner, DoHitl, CleanupStaging, stagingVars,
                        EndedIsDone
        <3> QED  BY <2>1, <3>1, QuietTested DEF Staging
    <2>3. CASE DriftVerify("after_drift")
        <3>1. /\ pc = "stage" /\ todo = {} /\ pc' \in {"after_drift", "except"}
              /\ outcome' # "PASS"
            BY <2>3 DEF DriftVerify, EndedIsDone
        <3> QED  BY <2>1, <3>1, QuietTested DEF Staging
    <2>4. CASE Sandbox("reviewer") \/ Reviewer("after_reviewer")
        <3>1. /\ pc \in Staging
              /\ pc' \in {"reviewer", "after_reviewer", "except"}
              /\ outcome' # "PASS"
            BY <2>4 DEF Sandbox, Reviewer, Staging, EndedIsDone
        <3> QED  BY <2>1, <3>1, QuietTested DEF Staging
    <2>5. CASE ArtifactEnter
        <3>1. /\ pc \in Staging /\ pc' = "drop" /\ todo' = PatchedFiles
              /\ outcome' # "PASS"
            BY <2>5 DEF ArtifactEnter, Staging, EndedIsDone
        <3> QED  BY <2>1, <3>1, QuietTested DEF Staging
    <2>6. CASE ArtifactDone
        <3>1. /\ pc = "drop" /\ todo = {} /\ pc' \in {"done", "except"}
              /\ stagingDir' = FALSE
            BY <2>6 DEF ArtifactDone, CleanupStaging
        <3> QED  BY <2>1, <3>1, QuietTested DEF Staging
    <2> QED  BY <1>1, <2>2, <2>3, <2>4, <2>5, <2>6
<1>2. CASE Engineer("drift")
    <2>1. /\ UNCHANGED <<work, disk, edits, stagingDir>> /\ pc = "engineer"
          /\ pc' \in {"drift", "except"} /\ outcome' # "PASS"
        BY <1>2 DEF Engineer, stagingVars, diskVars, EndedIsDone
    <2>2. PatchSections(of)'
        <3>1. CASE \E p \in Payloads : patches' = Merge(patches, p)
            BY <3>1, MergeSections DEF TestedInv
        <3>2. CASE UNCHANGED patches
            BY <3>2 DEF TestedInv, PatchSections, PatchedFiles
        <3> QED  BY <1>2, <3>1, <3>2 DEF Engineer
    <2> QED  BY <2>1, <2>2 DEF TestedInv, TestedNow, SameResults, Staging
<1>3. CASE DriftPrepare
    <2>1. /\ UNCHANGED <<patches, disk, edits, stagingDir>>
          /\ PatchedFiles' = PatchedFiles /\ outcome' # "PASS"
          /\ pc' \in {"stage", "except"}
        BY <1>3 DEF DriftPrepare, stateVars, stagingVars, diskVars,
                    PatchedFiles, EndedIsDone
    <2>2. PatchSections(of)'
        BY <2>1 DEF TestedInv, PatchSections
    <2>3. ASSUME edits' = 0 PROVE TestedNow(of)'
        <3>0. TestedNow(of)
            BY <2>1, <2>3 DEF TestedInv
        <3>1. CASE pc' = "stage"
            <4>1. /\ work' = IF stagingDir THEN work ELSE CopyPlatform(disk)
                  /\ todo' = PatchedFiles
                BY <1>3, <3>1 DEF DriftPrepare
            <4>2. SameResults(of)'
                <5>1. CASE stagingDir
                    BY <2>1, <3>0, <4>1, <5>1 DEF TestedNow, SameResults
                <5>2. CASE ~stagingDir
                    BY <1>a, <2>1, <4>1, <5>2, CopySame DEF SameResults
                <5> QED  BY <5>1, <5>2
            <4>3. SettledIn(work, PatchedFiles \ todo)'
                BY <2>1, <4>1 DEF SettledIn
            <4> QED  BY <2>1, <3>1, <4>2, <4>3 DEF TestedNow, Staging
        <3>2. CASE pc' = "except"
            <4>1. stagingDir' = FALSE
                BY <1>3, <2>1, <3>2 DEF DriftPrepare, NodesInv, NodesTypeOK
            <4> QED  BY <2>1, <3>2, <4>1 DEF TestedNow, Staging
        <3> QED  BY <2>1, <3>1, <3>2
    <2> QED  BY <2>2, <2>3 DEF TestedInv
<1>4. CASE \E f \in Files : StagePatch(f, "after_drift")
    <2>1. PICK f \in Files : StagePatch(f, "after_drift")
        BY <1>4
    <2>2. /\ UNCHANGED <<patches, disk, edits>> /\ pc = "stage"
          /\ PatchedFiles' = PatchedFiles /\ outcome' # "PASS"
          /\ f \in PatchedFiles /\ patches[f] \in Patch
        BY <2>1, PatchedFact
        DEF StagePatch, diskVars, PatchedFiles, EndedIsDone, NodesInv,
            NodesTypeOK, TodoPatched
    <2>3. PatchSections(of)' /\ patches[f].sec = of[f]
        BY <2>2 DEF TestedInv, PatchSections
    <2>4. ASSUME edits' = 0 PROVE TestedNow(of)'
        <3> DEFINE w == WriteFile(work, f, patches[f])
        <3>0. SameResults(of) /\ SettledIn(work, PatchedFiles \ todo)
            BY <2>2, <2>4 DEF TestedInv, TestedNow
        <3>1. /\ Settled(w.tree[f], patches[f])
              /\ \A g \in FileState :
                     SameResult(work.tree[f], g, of[f])
                         => SameResult(w.tree[f], g, of[f])
              /\ \A g \in Files \ {f} : w.tree[g] = work.tree[g]
            BY <1>a, <2>2, <2>3, WriteSettles
        <3>2. WriteSection(work, f, patches[f]).tree = w.tree
            BY <1>a, <2>2, WriteSectionTree
        <3> HIDE DEF w
        <3>3. work'.tree \in {work.tree, w.tree}
            BY <2>1, <3>2
            DEF StagePatch, StageWrite, StageTraversal, StageError, w
        <3>4. SameResults(of)'
            <4>1. \A g \in PlatformFiles : disk.tree[g] \in FileState
                BY <1>a DEF Disk, Files
            <4> QED  BY <2>2, <3>0, <3>1, <3>3, <4>1 DEF SameResults, Files
        <3>5. CASE StageWrite(f)
            <4>1. work'.tree = w.tree /\ todo' = todo \ {f} /\ pc' = "stage"
                BY <2>2, <3>2, <3>5 DEF StageWrite
            <4>2. SettledIn(work, PatchedFiles \ todo)'
                BY <2>2, <3>0, <3>1, <4>1 DEF SettledIn, PatchedFiles
            <4> QED  BY <2>2, <3>4, <4>1, <4>2 DEF TestedNow, Staging
        <3>6. CASE StageTraversal(f, "after_drift")
            <4>1. pc' = "after_drift" /\ drift' # "no-drift"
                BY <3>6 DEF StageTraversal
            <4> QED  BY <2>2, <3>4, <4>1 DEF TestedNow, Staging
        <3>7. CASE StageError(f)
            <4>1. pc' = "except"
                BY <3>7 DEF StageError
            <4> QED  BY <2>2, <3>4, <4>1 DEF TestedNow, Staging
        <3> QED  BY <2>1, <3>5, <3>6, <3>7 DEF StagePatch
    <2> QED  BY <2>3, <2>4 DEF TestedInv
<1>5. CASE \E f \in Files : DropPatch(f)
    <2>1. PICK f \in Files : DropPatch(f)
        BY <1>5
    <2>2. /\ UNCHANGED <<patches, work, edits>> /\ pc = "drop"
          /\ PatchedFiles' = PatchedFiles /\ outcome' # "PASS"
          /\ f \in PatchedFiles /\ patches[f] \in Patch
        BY <2>1, PatchedFact
        DEF DropPatch, stagingVars, PatchedFiles, EndedIsDone, NodesInv,
            NodesTypeOK, TodoPatched
    <2>3. PatchSections(of)' /\ patches[f].sec = of[f]
        BY <2>2 DEF TestedInv, PatchSections
    <2>4. ASSUME edits' = 0 PROVE TestedNow(of)'
        <3> DEFINE w == WriteFile(disk, f, patches[f])
        <3>0. /\ SameResults(of) /\ SettledIn(work, PatchedFiles)
              /\ SettledIn(disk, PatchedFiles \ todo)
            BY <2>2, <2>4 DEF TestedInv, TestedNow, Staging
        <3>1. /\ Settled(w.tree[f], patches[f])
              /\ \A g \in FileState :
                     SameResult(g, disk.tree[f], of[f])
                         => SameResult(g, w.tree[f], of[f])
              /\ \A g \in Files \ {f} : w.tree[g] = disk.tree[g]
            BY <1>a, <2>2, <2>3, WriteSettles
        <3>2. WriteSection(disk, f, patches[f]).tree = w.tree
            BY <1>a, <2>2, WriteSectionTree
        <3> HIDE DEF w
        <3>3. disk'.tree \in {disk.tree, w.tree}
            BY <2>1, <3>2
            DEF DropPatch, DropWrite, DropTraversal, DropRefused, DropFault, w
        <3>4. SameResults(of)'
            <4>1. \A g \in PlatformFiles : work.tree[g] \in FileState
                BY <1>a DEF Disk, Files
            <4> QED  BY <2>2, <3>0, <3>1, <3>3, <4>1 DEF SameResults, Files
        <3>5. SettledIn(work, PatchedFiles)'
            BY <2>2, <3>0 DEF SettledIn
        <3>6. CASE DropWrite(f)
            <4>1. disk'.tree = w.tree /\ todo' = todo \ {f} /\ pc' = "drop"
                BY <2>2, <3>2, <3>6 DEF DropWrite
            <4>2. SettledIn(disk, PatchedFiles \ todo)'
                BY <2>2, <3>0, <3>1, <4>1 DEF SettledIn, PatchedFiles
            <4> QED  BY <2>2, <3>4, <3>5, <4>1, <4>2 DEF TestedNow, Staging
        <3>7. CASE ~DropWrite(f)
            <4>1. pc' = "except"
                BY <2>1, <3>7
                DEF DropPatch, DropTraversal, DropRefused, DropFault
            <4> QED  BY <2>2, <3>4, <4>1 DEF TestedNow, Staging
        <3> QED  BY <3>6, <3>7
    <2> QED  BY <2>3, <2>4 DEF TestedInv
<1> QED  BY <1>1, <1>2, <1>3, <1>4, <1>5 DEF NodeStep

\* An edge of a runner, which at most releases the staging directory, keeps it
\* if it starts tests only on a tree without drift and a drop only after them.
LEMMA EdgeTested ==
    ASSUME NEW of, NodesInv, TestedInv(of), EndedIsDone,
           UNCHANGED <<patches, work, disk, edits, todo, drift>>,
           stagingDir' => stagingDir,
           pc # "done", outcome' \in {outcome, "HITL", "CRASH"},
           \/ pc' \in {"planner", "hitl", "hitl_last", "except", "done"}
           \/ pc = "after_drift" /\ drift = "no-drift" /\ pc' = "sandbox"
           \/ pc = "after_reviewer" /\ pc' = "artifact"
    PROVE  TestedInv(of)'
<1>1. outcome' # "PASS"
    BY DEF EndedIsDone
<1> QED  BY <1>1, QuietTested DEF Staging

LEMMA HumanTested ==
    ASSUME NEW of, NodesInv, TestedInv(of), NEW f \in Files, HumanEdit(f)
    PROVE  TestedInv(of)'
<1>1. PatchSections(of)'
    BY DEF HumanEdit, stateVars, TestedInv, PatchSections, PatchedFiles
<1>2. edits' # 0
    BY NodesAssumption DEF HumanEdit, NodesInv, NodesTypeOK
<1> QED  BY <1>1, <1>2 DEF TestedInv

LEMMA StutterTested ==
    ASSUME NEW of, TestedInv(of), UNCHANGED nodeVars
    PROVE  TestedInv(of)'
BY DEF TestedInv, PatchSections, TestedNow, SameResults, SettledIn,
       PatchedFiles, nodeVars, stateVars, stagingVars, resultVars, diskVars
=============================================================================
