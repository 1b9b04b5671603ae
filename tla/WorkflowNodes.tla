---------------------------- MODULE WorkflowNodes ----------------------------
(***************************************************************************)
(* The nodes of FactoryWorkflow (graph/workflow.py) and the state they     *)
(* share.  The nodes are driven by two runners that differ only in their   *)
(* edges: RunOnce.tla (run_once) and FactoryGraph.tla (as_graph).  Each    *)
(* node is an action that takes the program point its runner goes to next; *)
(* a node that raises leaves the exception in exc and goes to "except".    *)
(*                                                                         *)
(* What a language model answers, what the drift detector and the sandbox  *)
(* find, and which operation fails are choices of the environment.         *)
(***************************************************************************)
EXTENDS FailurePolicy, ArtifactStore, FiniteSets

CONSTANTS
    Payloads,         \* patch lists the engineer may parse from an answer
    Exceptions,       \* exceptions a node may raise
    SandboxFailures,  \* failure types the sandbox may classify
    InitDisks,        \* project trees a run may start from
    Setups,           \* environments a factory may be started in, see below
    DiskFaults,       \* whether a disk operation of the artifact node may fail
    MaxEdits          \* bound: edits of the project by a human during the run

\* STORAGE_TRACES_DIR names storage/traces ("default"), another directory of
\* the project ("inProject"), or one outside of it ("external"); without an
\* injected LLM adapter the agents get the stub.
TraceDirs == {"default", "inProject", "external"}
Setup == [traces : TraceDirs, adapter : {"stub", "vendor"}]

Payload == Seq([file : Files, sec : Sections, body : Bodies])

ASSUME NodesAssumption ==
    /\ IsFiniteSet(Files)
    /\ Payloads \subseteq Payload
    /\ Exceptions \subseteq Exception
    /\ SandboxFailures \subseteq FailureType \ {"SPEC_DRIFT"}
    /\ InitDisks \subseteq Disk
    /\ Setups \subseteq Setup
    /\ DiskFaults \in BOOLEAN
    /\ MaxEdits \in Nat

VARIABLES
    setup,         \* the environment of this factory; never changes
    pc,            \* the node, or the decision of the runner, to execute next
    counters,      \* persistent.counters
    history,       \* persistent.failure_history
    lastFailure,   \* ephemeral.last_failure
    patches,       \* state["patches"]: for each file its patch, or NoPatch
    stagingDir,    \* whether state["staging_dir"] names a staging directory
    work,          \* the staging directory in use
    leaked,        \* staging directories that state never came to name
    undeleted,     \* staging directories that could not be removed
    todo,          \* files whose patch the current loop has still to write
    drift,         \* state["drift_result"]: its summary
    sandbox,       \* state["sandbox_result"]
    review,        \* state["review"]
    disk,          \* the real project tree and its manifest
    written,       \* files written by the current artifact node
    entryCount,    \* persistent.manifest.entry_count
    exc,           \* the exception in flight
    outcome,       \* how the run ended
    edits          \* environment: human edits so far

stateVars   == <<counters, history, lastFailure, patches, entryCount>>
stagingVars == <<stagingDir, work, leaked, undeleted>>
resultVars  == <<drift, sandbox, review>>
diskVars    == <<disk, written, edits>>
nodeVars    == <<setup, pc, stateVars, stagingVars, resultVars, diskVars,
                 todo, exc, outcome>>

DriftSummary == {"none", "no-drift", "drift", "path-traversal"}
NoResult   == [passed |-> FALSE, ftype |-> "NONE"]
SandboxResult == [passed : BOOLEAN, ftype : FailureType \cup {"NONE"}]
NoReview   == [verdict |-> "NONE", ftype |-> "NONE"]
ReviewResult ==
    [verdict : {"NONE", "PASS", "FAIL"}, ftype : FailureType \cup {"NONE"}]
NoException == [cls |-> "None", multiline |-> FALSE]
Outcome == {"running", "PASS", "HITL", "CRASH"}

\* Where a run may be: a node, a step of one, or a decision of its runner.
PC == {"load_spec", "planner", "engineer", "drift", "stage", "after_drift",
       "sandbox", "reviewer", "after_reviewer", "artifact", "drop", "hitl",
       "hitl_last", "except", "done"}

NodesTypeOK ==
    /\ setup \in Setups
    /\ pc \in PC
    /\ counters \in Counters
    /\ history \in Seq(FailureRecord)
    /\ lastFailure \in FailureRecord \cup {NoFailure}
    /\ patches \in [Files -> Patch \cup {NoPatch}]
    /\ stagingDir \in BOOLEAN
    /\ work \in Disk
    /\ leaked \in Nat /\ undeleted \in Nat
    /\ todo \in SUBSET Files
    /\ drift \in DriftSummary
    /\ sandbox \in SandboxResult
    /\ review \in ReviewResult
    /\ disk \in Disk
    /\ written \in SUBSET Files
    /\ entryCount \in Nat
    /\ exc \in Exception \cup {NoException}
    /\ outcome \in Outcome
    /\ edits \in 0..MaxEdits

NodesInit ==
    /\ setup \in Setups
    /\ pc = "load_spec"
    /\ counters = ZeroCounters /\ history = <<>> /\ lastFailure = NoFailure
    /\ patches = [f \in Files |-> NoPatch]
    /\ stagingDir = FALSE /\ work = EmptyDisk /\ leaked = 0 /\ undeleted = 0
    /\ todo = {} /\ drift = "none" /\ sandbox = NoResult /\ review = NoReview
    /\ disk \in InitDisks /\ written = {} /\ entryCount = 0
    /\ exc = NoException /\ outcome = "running" /\ edits = 0

-----------------------------------------------------------------------------
\* Helpers of the nodes

\* The relative trace path that _to_storage_rel makes is refused by
\* FailureRecord when the traces directory is elsewhere in the project; the
\* one the sandbox makes is only accepted for the default directory.
TraceOK == setup.traces # "inProject"
SandboxTraceOK == setup.traces = "default"

\* _record_failure for a valid record; its attempt number is the total of the
\* counters, a node that bumps its own counter has done so before.
RecordFailure(ft, n, attempt) ==
    LET r == [type |-> ft, node |-> n, attempt |-> attempt]
    IN /\ history' = RememberFailure(history, r)
       /\ lastFailure' = r

NothingRecorded == UNCHANGED <<history, lastFailure>>

\* What _record_failure raises: the trace it writes first may fail, then the
\* record may be refused.
RecordingErrors(multiline) ==
    Exceptions \cup (IF ValidRecord(counters.total, multiline, TraceOK) THEN {}
                     ELSE {ValidationError})

Raise(e) == exc' = e /\ pc' = "except"
Goto(p) == pc' = p /\ UNCHANGED exc

\* Files that have a patch.
PatchedFiles == {f \in Files : patches[f] # NoPatch}

\* The patches of state and answer in one dictionary by file: the last patch of
\* a file in the answer replaces the one kept so far.
IsLastFor(payload, f, i) ==
    /\ i \in DOMAIN payload /\ payload[i].file = f
    /\ \A j \in DOMAIN payload : j > i => payload[j].file # f

LastFor(payload, f) == CHOOSE i \in DOMAIN payload : IsLastFor(payload, f, i)

PatchAt(payload, i) == [sec |-> payload[i].sec, body |-> payload[i].body]

\* Mutant: the patches kept so far are forgotten.
MergeForgets(old, payload) ==
    [f \in Files |-> IF \E i \in DOMAIN payload : IsLastFor(payload, f, i)
                     THEN PatchAt(payload, LastFor(payload, f))
                     ELSE NoPatch]

Merge(old, payload) ==
    [f \in Files |-> IF \E i \in DOMAIN payload : IsLastFor(payload, f, i)
                     THEN PatchAt(payload, LastFor(payload, f))
                     ELSE old[f]]

\* Mutant: the directory is still named.
CleanupKeepsName == UNCHANGED stagingVars

\* _cleanup_staging removes the directory that state["staging_dir"] names, and
\* forgets the name whether or not it could be removed.
CleanupStaging ==
    /\ stagingDir' = FALSE
    /\ undeleted' \in IF stagingDir THEN {undeleted, undeleted + 1}
                                   ELSE {undeleted}
    /\ UNCHANGED <<work, leaked>>

\* A drift node that does not store its staging directory loses a new one.
AbandonStaging ==
    /\ leaked' = IF stagingDir THEN leaked ELSE leaked + 1
    /\ UNCHANGED <<stagingDir, undeleted>>

-----------------------------------------------------------------------------
\* load_spec, planner and engineer

LoadSpec(next) ==
    /\ pc = "load_spec"
    /\ \/ Goto(next)
       \/ \E e \in Exceptions : Raise(e)
    /\ UNCHANGED <<stateVars, stagingVars, resultVars, diskVars, todo, outcome>>

\* The planner and the engineer pass the LLM three arguments, the stub takes
\* two: calling it raises TypeError.
StubError == [cls |-> "TypeError", multiline |-> FALSE]
AgentErrors == IF setup.adapter = "stub" THEN {StubError} ELSE Exceptions

Planner(next) ==
    /\ pc = "planner"
    /\ counters' = Bump(counters, "planner")
    /\ \/ setup.adapter = "vendor" /\ Goto(next)
       \/ \E e \in AgentErrors : Raise(e)
    /\ UNCHANGED <<history, lastFailure, patches, entryCount, stagingVars,
                   resultVars, diskVars, todo, outcome>>

Engineer(next) ==
    /\ pc = "engineer"
    /\ counters' = Bump(counters, "engineer")
    /\ \/ /\ setup.adapter = "vendor"
          /\ \E p \in Payloads : patches' = Merge(patches, p)
          /\ Goto(next)
       \/ /\ \E e \in AgentErrors : Raise(e)
          /\ UNCHANGED patches
    /\ UNCHANGED <<history, lastFailure, entryCount, stagingVars, resultVars,
                   diskVars, todo, outcome>>

-----------------------------------------------------------------------------
\* drift: prepare a staging directory, apply every patch to it, verify it

DriftPrepare ==
    /\ pc = "drift"
    /\ \/ /\ work' = IF stagingDir THEN work ELSE CopyPlatform(disk)
          /\ todo' = PatchedFiles
          /\ Goto("stage")
          /\ UNCHANGED <<stagingDir, leaked>>
       \/ /\ ~stagingDir
          /\ \E e \in Exceptions : Raise(e)
          /\ leaked' \in {leaked, leaked + 1}    \* mkdtemp or copytree fails
          /\ UNCHANGED <<stagingDir, work, todo>>
    /\ UNCHANGED <<stateVars, undeleted, resultVars, diskVars, outcome>>

\* One patch applied to the staging directory.
StageWrite(f) ==
    /\ WriteError(work, StagingWritable, f) = "none"
    /\ work' = WriteSection(work, f, patches[f])
    /\ todo' = todo \ {f}
    /\ UNCHANGED <<pc, exc, history, lastFailure, stagingDir, leaked, undeleted,
                   drift>>

\* A path outside of the writable roots ends the node with a drift result.
StageTraversal(f, next) ==
    /\ WriteError(work, StagingWritable, f) = "traversal"
    /\ ValidRecord(counters.total, FALSE, TraceOK)
    /\ RecordFailure("SECURITY_VIOLATION", "drift", counters.total)
    /\ drift' = "path-traversal"
    /\ todo' = {}
    /\ AbandonStaging
    /\ Goto(next)
    /\ UNCHANGED work

\* What the drift node raises instead: a traversal it cannot record, a refused
\* write, or a failing one, which may come after the file was replaced.
StageError(f) ==
    /\ \/ /\ WriteError(work, StagingWritable, f) = "traversal"
          /\ \E e \in RecordingErrors(FALSE) : Raise(e)
          /\ UNCHANGED work
       \/ /\ WriteError(work, StagingWritable, f) = "overwrite"
          /\ Raise(OverwriteError)
          /\ UNCHANGED work
       \/ /\ WriteError(work, StagingWritable, f) = "none"
          /\ \E e \in Exceptions : Raise(e)
          /\ work' \in {work, WriteFile(work, f, patches[f])}
    /\ todo' = {}
    /\ AbandonStaging
    /\ NothingRecorded
    /\ UNCHANGED drift

StagePatch(f, next) ==
    /\ pc = "stage"
    /\ f \in todo
    /\ StageWrite(f) \/ StageTraversal(f, next) \/ StageError(f)
    /\ UNCHANGED <<counters, patches, entryCount, sandbox, review, diskVars,
                   outcome>>

\* The result and the directory are stored before the event that may raise.
DriftVerify(next) ==
    /\ pc = "stage"
    /\ todo = {}
    /\ \/ /\ drift' \in {"no-drift", "drift"}
          /\ stagingDir' = TRUE
          /\ Goto(next) \/ \E e \in Exceptions : Raise(e)
          /\ UNCHANGED <<leaked, undeleted>>
       \/ /\ \E e \in Exceptions : Raise(e)
          /\ AbandonStaging
          /\ UNCHANGED drift
    /\ UNCHANGED <<stateVars, work, sandbox, review, diskVars, todo, outcome>>

-----------------------------------------------------------------------------
\* sandbox and reviewer

\* What run_tests may return: every error in it becomes a failed result.
SandboxResults ==
    {[passed |-> TRUE, ftype |-> "NONE"]}
      \cup {[passed |-> FALSE, ftype |-> ft] : ft \in SandboxFailures}

Sandbox(next) ==
    /\ pc = "sandbox"
    /\ counters' = Bump(counters, "sandbox")
    /\ \/ /\ sandbox' \in SandboxResults
          /\ Goto(next)
       \/ /\ \E e \in Exceptions : Raise(e)
          /\ UNCHANGED sandbox
    /\ UNCHANGED <<history, lastFailure, patches, entryCount, stagingVars,
                   drift, review, diskVars, todo, outcome>>

\* Mutant: the test result is not looked at.
VerdictWithoutTests ==
    IF drift # "no-drift" THEN [verdict |-> "FAIL", ftype |-> "SPEC_DRIFT"]
                          ELSE [verdict |-> "PASS", ftype |-> "NONE"]

\* The verdict the rules decide; the LLM only comments on a PASS.
Verdict ==
    CASE drift # "no-drift" -> [verdict |-> "FAIL", ftype |-> "SPEC_DRIFT"]
      [] drift = "no-drift" /\ ~sandbox.passed ->
             [verdict |-> "FAIL", ftype |-> sandbox.ftype]
      [] OTHER -> [verdict |-> "PASS", ftype |-> "NONE"]

Reviewer(next) ==
    /\ pc = "reviewer"
    /\ counters' = Bump(counters, "reviewer")
    /\ \/ /\ Verdict.verdict = "PASS"
          /\ review' = Verdict
          /\ Goto(next)
          /\ NothingRecorded
       \/ /\ Verdict.verdict = "FAIL"
          /\ review' = Verdict
          /\ \/ /\ ValidRecord(counters'.total, FALSE, SandboxTraceOK)
                /\ RecordFailure(Verdict.ftype, "reviewer", counters'.total)
                /\ Goto(next)
             \/ /\ ~ValidRecord(counters'.total, FALSE, SandboxTraceOK)
                /\ NothingRecorded
                /\ Raise(ValidationError)
       \/ /\ \E e \in Exceptions : Raise(e)
          /\ NothingRecorded
          /\ UNCHANGED review
    /\ UNCHANGED <<patches, entryCount, stagingVars, drift, sandbox, diskVars,
                   todo, outcome>>

-----------------------------------------------------------------------------
\* artifact: drop every patch on the real project, one file at a time

ArtifactEnter ==
    /\ pc = "artifact"
    /\ todo' = PatchedFiles
    /\ written' = {}
    /\ Goto("drop")
    /\ UNCHANGED <<stateVars, stagingVars, resultVars, disk, edits, outcome>>

DropWrite(f) ==
    /\ WriteError(disk, ProjectWritable, f) = "none"
    /\ disk' = WriteSection(disk, f, patches[f])
    /\ written' = written \cup {f}
    /\ todo' = todo \ {f}
    /\ UNCHANGED <<pc, exc, history, lastFailure>>

\* A traversal is recorded here and, since it is raised again, once more by
\* the runner.
DropTraversal(f) ==
    /\ WriteError(disk, ProjectWritable, f) = "traversal"
    /\ \/ /\ ValidRecord(counters.total, FALSE, TraceOK)
          /\ RecordFailure("SECURITY_VIOLATION", "artifact", counters.total)
          /\ Raise(PathTraversalError)
       \/ /\ NothingRecorded
          /\ \E e \in RecordingErrors(FALSE) : Raise(e)
    /\ todo' = {}
    /\ UNCHANGED <<disk, written>>

DropRefused(f) ==
    /\ WriteError(disk, ProjectWritable, f) = "overwrite"
    /\ Raise(OverwriteError)
    /\ NothingRecorded
    /\ todo' = {}
    /\ UNCHANGED <<disk, written>>

\* An operation of the write fails before or after the file is replaced; the
\* manifest entry is not recorded either way.
DropFault(f) ==
    /\ DiskFaults
    /\ WriteError(disk, ProjectWritable, f) = "none"
    /\ disk' \in {disk, WriteFile(disk, f, patches[f])}
    /\ \E e \in Exceptions : Raise(e)
    /\ NothingRecorded
    /\ todo' = {}
    /\ UNCHANGED written

DropPatch(f) ==
    /\ pc = "drop"
    /\ f \in todo
    /\ DropWrite(f) \/ DropTraversal(f) \/ DropRefused(f) \/ DropFault(f)
    /\ UNCHANGED <<counters, patches, entryCount, stagingVars, resultVars,
                   edits, outcome>>

\* The node's last steps, and its runner's: the run has passed, unless one of
\* the last two events raises after everything was dropped.
ArtifactDone ==
    /\ pc = "drop"
    /\ todo = {}
    /\ entryCount' = entryCount + Cardinality(written)
    /\ CleanupStaging
    /\ \/ outcome' = "PASS" /\ Goto("done")
       \/ (\E e \in Exceptions : Raise(e)) /\ UNCHANGED outcome
    /\ UNCHANGED <<counters, history, lastFailure, patches, resultVars,
                   diskVars, todo>>

-----------------------------------------------------------------------------
\* hitl: release the staging directory, log, and interrupt the run

DoHitl ==
    /\ pc = "hitl"
    /\ CleanupStaging
    /\ \/ outcome' = "HITL" /\ Goto("done")
       \/ (\E e \in Exceptions : Raise(e)) /\ UNCHANGED outcome
    /\ UNCHANGED <<stateVars, resultVars, diskVars, todo>>

-----------------------------------------------------------------------------
\* The environment: a human works on the project while the factory runs, in
\* the files that exist and, without the marker, in new ones.

HumanEdit(f) ==
    /\ edits < MaxEdits
    /\ outcome = "running"
    /\ f \in ProjectWritable
    /\ disk' = [disk EXCEPT !.tree[f] =
                   FileWith(Append(disk.tree[f].lines, HumanLine))]
    /\ edits' = edits + 1
    /\ UNCHANGED <<setup, pc, stateVars, stagingVars, resultVars, written,
                   todo, exc, outcome>>

\* An ended run stays ended.
Ended == outcome # "running" /\ UNCHANGED nodeVars

-----------------------------------------------------------------------------
\* Safety properties that do not depend on the edges of the runner

\* A patch that leaves the writable roots stays in the accumulated patches, so
\* a run that met one, in staging or on the real disk, never passes, however
\* often it retries and whether or not HITL is enabled.
TraversalRecords ==
    {i \in DOMAIN history : /\ history[i].type = "SECURITY_VIOLATION"
                            /\ history[i].node \in {"drift", "artifact"}}
SecurityNeverPasses ==
    outcome = "PASS" =>
        TraversalRecords = {} /\ PatchedFiles \subseteq ProjectWritable

\* A run that passes has put every patch it accumulated, and only those that
\* staging also carried, on the real disk.
PassMeansDropped ==
    outcome = "PASS" =>
        \A f \in PatchedFiles : /\ HasSection(disk.tree[f], patches[f])
                                /\ HasSection(work.tree[f], patches[f])

\* Files that differ from their entry in the manifest.
Torn(d) == {f \in Files : /\ d.manifest[f].exists /\ d.tree[f].exists
                          /\ d.tree[f] # d.manifest[f]}

\* If no human interfered, only a write of the run's own that was cut off
\* between the file and its entry leaves a file that fails the writer's check;
\* its patch is then still among those to drop, and as every write is refused,
\* no later attempt passes.
IntegrityKept ==
    edits = 0 => /\ Torn(disk) \subseteq PatchedFiles
                 /\ outcome = "PASS" => IntegrityOK(disk)

-----------------------------------------------------------------------------
\* What the nodes rely on, whichever runner drives them: parts of the inductive
\* invariants of both

\* The loops over the patches go over files that have one.
TodoPatched == pc \in {"stage", "drop"} => todo \subseteq PatchedFiles

\* The except clause has an exception to handle.
ExceptHasException == pc = "except" => exc \in Exception

\* The reviewer gets a failure type with a failed test run.
ReviewerInput ==
    pc = "reviewer" /\ ~sandbox.passed => sandbox.ftype \in FailureType

NodesInv == NodesTypeOK /\ TodoPatched /\ ExceptHasException /\ ReviewerInput

\* A run has ended when it has an outcome.
EndedIsDone == outcome # "running" <=> pc = "done"

\* Once a traversal is on record, some patch leaves the writable roots.
TraversalKeepsPatch ==
    TraversalRecords # {} => ~(PatchedFiles \subseteq ProjectWritable)

\* Every patch the drop has written, or a run has passed with, is inside.
DroppedWritable ==
    /\ pc = "drop" => PatchedFiles \ todo \subseteq ProjectWritable
    /\ outcome = "PASS" => PatchedFiles \subseteq ProjectWritable
=============================================================================
