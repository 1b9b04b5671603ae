# MultiAgent-harness-factory in TLA+

The repository is a code factory: agents backed by a language model plan and
write patches, a drift detector and a sandbox judge them in a staging copy, and
what passes is written to the real project. This directory holds the TLA+
modules of its core, the TLC configurations that check them, and proofs of all
the safety properties that the passing ones check. Paths below are relative to `src/`.

## 1. Inventory

| Component | Source | State it keeps | Operations |
|---|---|---|---|
| Failure taxonomy | `harness_engine/state/failure_types.py` | - | `from_exception`, `hitl_triggers`, the field constraints of `FailureRecord` |
| Counters, history | `harness_engine/state/persistent_state.py` | attempt counters, the last 32 failure records, entry count | `bump`, `exceeded`, `record_failure`, `should_interrupt` |
| Ephemeral state | `harness_engine/state/ephemeral_state.py` | last failure, breadcrumb ring | `push`, `clear_failure` (never called) |
| Routing, HITL | `harness_engine/graph/routing.py`, `hitl.py` | `enabled` | `decide_after_review`, `should_interrupt`, `trigger` |
| Workflow nodes | `harness_engine/graph/workflow.py` 243-556 | patches, staging directory, drift, test and review results | one per node, staging helpers, `_record_failure` |
| Sequential runner | `workflow.py` 193-241 | loop variable | edges, except clause |
| Graph runner | `workflow.py` 143-189 | LangGraph's superstep count | edges |
| Artifact writer | `harness_engine/services/artifact_writer.py`, `agent_runtime/policy_engine/filesystem_policy.py` | files, `.generated_manifest.json`, temporary files | `write_section`, `verify_existing` (no caller) |
| Agents | `harness_engine/agents/*.py` | - | `plan`, `synthesize`, `review` |
| Sandbox | `harness_engine/services/sandbox_runner.py` | container, trace file | `run_tests` |
| Drift detector | `harness_engine/services/drift_detector.py` | domain specification | `verify` |
| Loaders, replays, telemetry | `harness_engine/services/{spec_loader,prompt_loader,replay_store,telemetry}.py` | log files, process-wide telemetry object | `load_many`, `load`, `save`, `event` |
| Adapters, import policy, memory | `infrastructure/adapters`, `agent_runtime/policy_engine/import_policy.py`, `agent_runtime/memory` | - | `complete`; the last two have no caller |

How they interact. A runner calls the nodes one after the other in one thread
and passes them one state dictionary. The drift node copies
`my-harness-platform` to a staging directory and applies *all* patches
accumulated so far with an artifact writer rooted there; the sandbox tests that
copy; the reviewer turns both results into a verdict; the artifact node applies
the patches again, with the writer of the real project. Failures go to a bounded
history and to `last_failure`, which the planner reads. The runner, `routing.py`
and `hitl.py` decide from counters and history between a further attempt, the
end, and a human.

What is hard: the loop has three ways back (drift, review, exception), each
guarded by a different condition; results, patches and failures of earlier
attempts stay in the state; any call may raise at any point, also inside the
except clause; staging and drop write file by file and may stop half way; files
and manifest are replaced one after the other and a process may be killed in
between; a container outlives the program that started it; a report of a failure
may fail itself; a log line is cut off and takes the next one with it; humans edit
the same files. Nothing in `run_once` is concurrent, so the
interleavings are those of the program with its disk, with crashes and with
humans. A section body is whatever the model answered, tokens included. The repository has no tests of these paths. `PROJECT.json` lists each
hazard at its line with the properties aimed at it.

What makes each component correct:

- policy: an attempt is counted before it is made and compared the same way by
  every decider; the newest failure survives the cut of the history;
- runner: attempts are bounded, triggers stop the loop, every hand-over is
  justified, every run ends;
- nodes: only what this attempt staged, verified, tested and reviewed reaches the
  real disk; what leaves the writable roots never leads to a pass; staging
  directories are released;
- writer: a section write is atomic up to the manifest entry, keeps human lines,
  and notices changes that are not its own;
- import policy: nothing, as it has no caller; it is in the table for the record;
- sandbox: one answer to each call, "passed" only for tests that passed, an
  overrun reported as one, no container left behind, a trace that explains the
  answer;
- drift detector: "no-drift" means that the contracts are honoured, and every line
  of a report is about the tree;
- agents: the model is sent the contract of the guide and nothing else; timeline
  and snapshots agree on what happened.

## 2. Modules

| Module | Models | Correspondence |
|---|---|---|
| `FailurePolicy` | taxonomy, counters, history, deciders | pure operators; `Bump`, `Exceeded`, `ShouldInterrupt`, `DecideAfterReview`, `RememberFailure`, `ValidRecord` carry the names of the code |
| `ArtifactStore` | `_compose`, path policy, integrity check, manifest | pure operators on a *disk*: a tree of files and, for each file, the content its manifest hash was computed from |
| `WorkflowNodes` | the nodes and the state they share | one action per node; drift and drop are split into one action per patch |
| `RunOnce` | `run_once` | the edges as actions between the nodes, the except clause as `HandleException` and `CrashInHandler`; what raises outside of it as `IterStartFails` and `DoHitlLast` |
| `FactoryGraph` | `as_graph` | the same nodes with the edges of the graph and LangGraph's recursion limit |
| `ArtifactWriter` | `write_section`, one action per file-system operation, the manifest's own temporary file included; unlinking a temporary file may fail and is then swallowed | `pc` names the next operation; `Crash` and `Fail` may come between any two, `HumanEdit` and `LoseManifest` too; `unrecorded` and `raced` only observe which edits the writer could know of |
| `SectionStore` | what the writer promises | a section write is one step; a cut-off one may have changed the file alone |
| `SandboxRunner` | `run_tests`, with Docker and locally | `pc` names the next call that leaves the process; `Caught` is the except clause of the try body, `Propagate` an exception that leaves, `Finally` the clause of that name |
| `TestService` | what the workflow assumes of `run_tests` | a call, what the tests did, one answer |
| `DriftDetector` | `verify` | one action for each turn of its loops: look an index up, index a file, check a contract, finish |
| `PromptLoader` | `load`, `PromptContract`, `render` | pure operators on a guide, a sequence of lines |
| `AgentCall` | `plan`, `synthesize`, `review` with the timeline, the snapshot and the adapter's routing | one action for each operation that leaves the process; `role` says whose call it is |
| `MCNodes`, `MCRunOnce`, `MCFactoryGraph`, `MCArtifactWriter`, `MCSandboxRunner`, `MCDriftDetector`, `MCAgentCall` | instances for TLC | files, answers, exceptions, starting projects |
| `StoreLemmas`, `NodeProofs`, `RunOnceProofs`, `GraphProofs`, `WriterProofs`, `SandboxProofs`, `DriftProofs`, `AgentProofs` | proofs | section 5 |

`RunOnce` and `FactoryGraph` compose `WorkflowNodes` with their edges: a node is
an action with the program point that follows as a parameter. `WorkflowNodes`
uses the whole `WriteSection`, because within one process nothing interrupts it
but an error; `ArtifactWriter` shows what it is made of. In the same way
`WorkflowNodes` takes the result of a test run, of a drift check and of an
agent's call to be any of a set; `SandboxRunner` implements `TestService`, which says what that set may hold (`SandboxResults`),
and `DriftDetector` and `AgentCall` show where drift summaries and payloads come
from. An exception of any of them is one of the exceptions of the node that calls
it.

Abstractions, the same in all modules:

- A file is a sequence of lines; a line is the `@generated` marker, a begin or
  end token of a section, or a piece of text. That is what `_compose` can tell
  apart. The tokens of the section `default` are prefixes of those of all others,
  which `Matches` keeps, also that the suffix of a matched end token stays.
- A SHA-256 is the content it was computed from.
- A path is a name in one of four sets, by what `assert_writable` and the copy to
  staging tell apart: platform files, files under `storage/` (writable, not
  copied), relative paths elsewhere, and platform files that leave the project
  through a symlink (writable in staging, where the link's copy is a file, and
  refused on the real disk). Absolute paths and `..` never get past the
  engineer's parser.
- A section body is one line. It may be a token, of its own section or of another
  one, or the marker: no code keeps a model from writing one. What is only true
  without such bodies says so (`PlainBodies`).
- An exception is its class, as far as `from_exception` looks, and whether its
  message has several lines, as far as `FailureRecord` looks.
- `patches` is the merged dictionary by file. Loops over it take the files in any
  order, which covers the order of the dictionary.
- Answers of the model, drift and test results are any of a set. In the workflow
  modules prompts, telemetry, replays and breadcrumbs only matter as calls that
  may raise, each where it stands: the event of an iteration's start before the
  try clause (`IterStartFails`), the warning of a hand-over inside of it (`DoHitl`)
  or outside (`DoHitlLast`), the events of the drift and artifact nodes after
  their results are stored (`DriftVerify`, `ArtifactDone`), and the trace file of a
  failure before its record (`RecordingErrors`).
- Removing a staging directory may fail without a word; its name is forgotten all
  the same, and `undeleted` counts it. `leaked` counts the directories that the
  state never came to name.
- With Docker only `tests/` of the staging directory is uploaded
  (`sandbox_runner.py:213`), so the tests see no source of it; locally they run in
  that directory. The models speak of the tree that was *staged* for the tests.
- `setup` is chosen at the start and never changes: whether an adapter was
  injected, and where `STORAGE_TRACES_DIR` points, because `_to_storage_rel` and
  the sandbox's `_rel` treat directories elsewhere in the project and directories
  outside it differently. The default assumes that the factory is started in its
  project root, as `main` and the sandbox do.
- The output of a test run is the set of words that `_classify` looks for. A test
  run has passed, failed, or not returned; with Docker, "not returned" also stands
  for a connection lost while waiting, which the code does not tell apart.
- A source file is the fragments of its path that policies look for, its
  definitions in the order of `ast.walk`, and its imports. An import is its root
  and the set of its components.
- A guide is a sequence of lines, each a header or text that says some phrases.
  What has not exactly the form of a header is text, the title included. What the
  loader refuses for its wording is one phrase.
- A timeline is a sequence of appends, each whole or cut off; a record that
  follows a cut-off one is on the same line and cannot be read.
- One call of the sandbox and of an agent follows the other: the workflow has one
  thread.

A definition whose comment begins with "Mutant" is a plausible mistake in the
definition that follows; no specification uses it. Each property of a passing run
is violated when the mutant that `PROJECT.json` names takes the place of the
definition.

## 3. Runs

Passing runs:

| Run | Question | Bounds |
|---|---|---|
| `RunOnceRepair` | the repair loop with HITL on, at the code's own limits, with an adapter or the stub, traces in any of three places, every event, trace and clean-up able to fail | 3 attempts, 6 iterations, 32 records; 5 answers, 3 exceptions, 2 test failures; a new and a used project (1.5 million states) |
| `RunOnceNoHitl` | HITL off, failing disk operations, one human edit, a history of 2 records | 3 iterations, 3 answers |
| `GraphInvocation` | the graph at LangGraph's default limit of 25 | 3 answers, one edit |
| `WriterSteps` | `write_section` with crashes, failing operations whose clean-up may fail too, edits and losses of the manifest between writes | 3 writes, 2 crashes, 2 edits or losses |
| `WriterRaces` | the same with edits, removals and losses at any step of a write, and a body that is a token | 2 writes, 1 crash, 3 edits or losses |
| `SandboxRuns` | `run_tests` in a container and locally, with every operation failing, interrupts (of the finally clause too) and kills | all outputs over 8 words, 4 exception classes; any number of calls |
| `DriftReports` | `verify` on small trees and specifications | 2 modules, up to 2 files in one of them, up to 3 contracts |
| `AgentCalls` | calls of the three agents, guides near the shipped one, failing files, kills | 3 calls over all processes, a few dozen guides |

What they show.

- *Attempts.* `AttemptsBounded`, `HitlJustified`, `TriggersStopRepair`: three ways
  back to the planner, one bound. The only trigger that does not stop the loop is
  the drift of the first iteration, which is always the first record.
- *What reaches the disk.* `DropsOnlyTested` (every step that changes the real
  tree), `PassMeansDropped`, `DroppedIsTested` (with one section for each file and
  no token in a body, the tree dropped is line for line the tree staged for the
  tests), `SecurityNeverPasses`. `DropsOnlyTested` compares the patches with the
  staging directory but reads the *stored* results of drift, tests and review; it
  would not see a stale one that happens to fit. The last one is worth a remark: a traversal in the first iteration does not stop the loop, but its patch
  stays in the accumulated patches, so every later attempt meets it again.
- *Failure handling.* `UnrecordableStops`, `LastFailureIsLatest`,
  `StagingAccounted`, `IntegrityKept`: what the except clause can and cannot record;
  that each staging directory lost has a failure that explains it, and those that
  could not be removed are at most one for each iteration; and that a failing drop
  leaves no file torn but one whose patch is still to be dropped, with which no run
  passes, as every later write is refused.
- *Graph.* `ReviewsBounded` and `DriftLoopBounded`: the loop through the reviewer
  is bounded by the counters, the loop through the drift node by LangGraph alone
  (eight plans at the default limit, where `run_once` makes three).
- *Writer.* `ImplementsStore` is a refinement: `SectionStore`'s disk is the
  concrete one, except that the file being replaced still has its old content
  until its entry is recorded or the write is cut off. `HumanTextKept`,
  `OrphansBounded` and `WritesEnd` complete it. `NoEditVouchedFor`, in a run of its
  own with edits at any step, says which edits of a human the manifest may come to
  vouch for: those of the very file being written, in two windows in which the
  writer does not look, and nothing else as long as there is a manifest; one made
  before the manifest was lost can no longer be told.
- *Sandbox.* `ImplementsService`: whatever fails in a call, its answer is one that
  the workflow expects, and a pass is a pass of this call's tests. `TimeoutReported`
  and `ContainersReleased` name the only ways around: a report that cannot be
  written, output that cannot be decoded (`BugTimeoutUndecodable`), an interrupt, a
  kill, and a create or a remove whose answer is lost, refused or cut off.
  `TraceExplains`: the trace a later attempt reads fits the answer, also when the
  report of a finished run failed and was replaced.
- *Drift.* `NoDriftIsSound` and `DriftIsReal` compare the reports with a reference
  definition that knows nothing of indexes, their cache and `setdefault`.
- *Agents.* `AuditTrail` relates three files of one call, over kills and restarts;
  a record that follows a cut-off one is lost with it, which the property allows.
  `SentIsContract` compares the loader's sections with a reference definition; both
  take a line that has not the exact form of a header for text.
- *Termination.* `Terminates`, in both runners; `WritesEnd` and `CallsEnd`.

Why the bounds are enough. The limits of the loop are those of the code in
`RunOnceRepair`. A second file, a second body and a second section are the
smallest at which a patch can be lost, kept or replaced. A new project, a
generated file with a human's lines below, and a handwritten file are the three
states `_compose` distinguishes. More writes or crashes in `WriterSteps` only
repeat the first: between writes nothing is kept but the disk. `run_tests` keeps
nothing between calls but what Docker has, so its run needs no bound on them.
Two contracts of one module, with one of another between them, are the smallest
specification in which the kept index matters, two files the smallest directory
in which a name is defined twice. Three calls are the smallest number at which a
cut-off record, the one it spoils and one after that can be told apart; the
guides are all those one edit away from the engineer's.

Fairness. `run_once` is one thread and every call it makes returns or raises: the
adapters and the sandbox have timeouts, the rest are file operations. So
`WF_vars(Run)` on the program's steps, none on humans. The same for LangGraph,
which runs the nodes of this graph one after the other, and for the steps of
`write_section` (`WF_vars(Step)`, none on `Fail` or `Crash`) and of `run_tests`:
Docker's client and `subprocess.run` have timeouts, so every call in it returns or
raises (`WF_vars(Step)`, none on `Call`, `Interrupt` or `Stop`). `DriftReports` and
`AgentCalls` check safety only and assume no fairness.

No run disables the deadlock check: an ended run stutters, an idle writer too, the
sandbox can always be called again, and an agent's process always be killed.

Runs that end in a violation; each is a finding in `PROJECT.json`:

| Run | What the repository says | What happens |
|---|---|---|
| `BugSecurityDeferred` | a security violation interrupts at once | that of the first iteration is deferred as if it were a drift |
| `BugMergeLosesSection` | merging keeps earlier repairs | a patch of another section of the same file replaces the earlier one |
| `BugEditLost` | human text is never overwritten | a line saved between the read and the replace is lost |
| `BugTimeoutUndecodable` | INFRA_TIMEOUT interrupts at once | a local overrun whose output ends within a character raises instead |

Other disagreements of code and comments met on the way, visible in the models
but without a run of their own: `_stub_llm`, which is to let the shape of the pipeline be
checked, has two parameters and is called with three arguments, so no run without
an adapter gets past the planner (`workflow.py:69`; `AgentErrors`); the adapter that
sends the engineer's questions to the smart model looks for words of the guide's
title, which the prompt never carries, so they go to the cheap one
(`hybrid/__init__.py:23`; `Route`); a drift is not recorded if the last failure, which
is never cleared, was a security violation of an earlier attempt, such as a
PermissionError, though "all others" are to be (`workflow.py:205`;
`AlreadyRecorded`); an edit that a human saves between the check and the read, or
the replace and the hash, of a write is recorded as generated, though external
changes are to be detected (`artifact_writer.py:95`, `:99`; `raced`); a body that
holds the begin token of another section makes the second write of that section
run over all that stands behind, human lines included (`artifact_writer.py:139`;
`PlainBodies`); `_n_artifact` calls its drop atomic, and a write
that is refused half way leaves the files before it written
(`workflow.py:406`, `:416`); a drift node that ends early leaves its staging
directory unnamed (`workflow.py:315`; the models count it in `leaked`); two comments call
a human in after "more than 3" attempts (`routing.py:7`, `persistent_state.py:24`)
where the code compares with `>= 3`, as a third one says
(`persistent_state.py:46`); the graph does not bound
the drift loop by the counters (`workflow.py:164`); a
failure of `load_spec` in the first iteration cannot be recorded, as its `attempt`
would be 0, and `run_once` raises (`workflow.py:237`), as it does when the event of
an iteration's start fails (`workflow.py:197`); with HITL off, a hand-over whose
warning fails leads to another attempt (`workflow.py:232`, `DoHitl`); an event that
fails after the last write of a drop makes a run whose patches are all in the
project go on (`workflow.py:439`, `ArtifactDone`); the manifest is recorded "atomically" after the
file was replaced, and a failure in between makes every later write refuse the
project (`artifact_writer.py:9`, `:98`; `TornWrite` of `SectionStore`); a log with both "failed" and "passed" and
no "assertionerror", such as pytest's "1 failed, 1 passed" of a plain assertion,
is classified UNKNOWN (`sandbox_runner.py:229`); a contract is compared with the
first definition of its name, wherever in the directory a better one is
(`drift_detector.py:126`); modules under no contract are not checked for forbidden
imports, though `ImportPolicy`'s docstring says that the writer checks each file:
nothing calls it (`import_policy.py:5`); a question that fails leaves no snapshot,
though the store is to have one for each (`replay_store.py:4`); a plan whose
`steps` are null is accepted, stored, and then cannot be counted
(`planner.py:53`), so the planner's call fails as a TYPE_ERROR.

## 4. Properties by kind

Type invariants: `TypeOK` of `RunOnce`, `FactoryGraph`, `ArtifactWriter`,
`SandboxRunner` and `AgentCall`. Inductive invariants, checked by `RunOnceNoHitl` and used by the proofs:
`AttemptInv`, `SecurityInv`. Action properties: `DropsOnlyTested`,
`LastFailureIsLatest`, `HumanTextKept`, `NoEditVouchedFor`. Liveness:
`Terminates`, `WritesEnd`, `CallsEnd`. Refinement: `ImplementsStore`,
`ImplementsService`. The others are state
invariants.

## 5. Proofs

Every invariant, refinement and action property that a passing run checks is
also proved, for every value of the constants. The
assumptions are those the modules name (`PolicyBounds`, `StoreAssumption`,
`NodesAssumption`, `RunOnceAssumption`, `WriterAssumption`, `RunnerAssumption`,
`DriftAssumption`, `LoaderAssumption`, `CallAssumption`), which say of which
types the constants are, and where a row says so a hypothesis of the theorem.
`PolicyBounds` also asks for `MaxRepair` and `RecentWindow` of at least 2 (3 and 5 in
the code): with a smaller limit the deferred first drift would already use the
attempts up, with a smaller window a trigger behind a newer record would be missed.

| Module | Theorem | Property | Hypothesis |
|---|---|---|---|
| `RunOnceProofs` | `TypeCorrect` | `TypeOK` | |
| | `AttemptInvariant`, `AttemptsAreBounded` | `AttemptInv`, `AttemptsBounded` | |
| | `SecurityInvariant`, `SecurityNeverPassesHolds` | `SecurityInv`, `SecurityNeverPasses` | |
| | `TriggersStopTheRepair` | `TriggersStopRepair` | |
| | `HandoversAreJustified` | `HitlJustified` | |
| | `LatestFailureLast` | `LastFailureIsLatest` | |
| | `UnrecordableFailuresStop` | `UnrecordableStops` | |
| | `PassedIsDropped` | `PassMeansDropped` | `ProjectsWhole`, `PlainBodies` |
| | `DropsAreTested` | `DropsOnlyTested` | `ProjectsWhole`, `PlainBodies` |
| | `DroppedWasTested` | `DroppedIsTested` | `ProjectsWhole`, `PlainBodies`, `OneSection(of)` |
| | `WritesKeepIntegrity` | `IntegrityKept` | `IntegrityOK` at the start |
| | `DirectoriesAreAccounted` | `StagingAccounted` | `2 * MaxIterations <= MaxFailures` |
| `GraphProofs` | `TypeCorrect` | `TypeOK` | |
| | `ReviewsAreBounded` | `ReviewsBounded` | |
| | `DriftLoopIsBounded` | `DriftLoopBounded` | |
| | `SecurityNeverPassesHolds` | `SecurityNeverPasses` | |
| | `PassedIsDropped` | `PassMeansDropped` | `ProjectsWhole`, `PlainBodies` |
| `WriterProofs` | `TypeCorrect` | `TypeOK` | |
| | `OrphansAreBounded` | `OrphansBounded` | |
| | `NoEditIsVouchedFor` | `NoEditVouchedFor` | |
| | `RefinesStore` | `ImplementsStore` | no `EditsAnytime` |
| | `HumanTextIsKept` | `HumanTextKept` | no `EditsAnytime`, `PlainBodies`, `TidyDisk` at the start, `HumanLine` no body |
| `SandboxProofs` | `TypeCorrect` | `TypeOK` | |
| | `NoContainerLost` | `ContainersReleased` | |
| | `OverrunsReported` | `TimeoutReported` | |
| | `TracesFit` | `TraceExplains` | |
| | `RefinesService` | `ImplementsService` | |
| `DriftProofs` | `CleanReportIsSound` | `NoDriftIsSound` | |
| | `ReportsAreReal` | `DriftIsReal` | |
| `AgentProofs` | `TypeCorrect` | `TypeOK` | |
| | `TheTrailIsTrue` | `AuditTrail` | |
| | `TheContractIsSent` | `SentIsContract` | |

The hypotheses are those under which the properties hold, and the runs that check
these properties satisfy them.

- `ProjectsWhole`: in the project a run starts from, a begin token is followed by
  a body and an end token, as in every file the factory writes. Without it the
  pattern of a section may run across others, and what a write puts there need not
  be found again.
- `OneSection(of)`: every answer of the engineer writes the same section of a
  file. Otherwise a staging directory kept through a drift may hold a section of an
  earlier attempt that merging has replaced since: it is tested, and never dropped
  (`BugMergeLosesSection`).
- `PlainBodies`: no body of a section is a token. With one, a section may not be
  found again, or be found in the wrong place, by the next write (section 3),
  and the drop, which writes on another starting tree than a kept staging
  directory, may give another file. Nothing in the code guarantees it.
- `IntegrityOK` at the start: the project passes the writer's check. One that does
  not is refused by the first write.
- no `EditsAnytime`: an edit in the middle of a write is lost (`BugEditLost`).
- `TidyDisk`: in the project a write starts from, sections are whole, as above, and
  hold what the factory wrote, no text of a human: a write replaces the body of its
  section. A handwritten file without sections is tidy. That `HumanLine` is no body
  only says that the model tells the two apart.
- `2 * MaxIterations <= MaxFailures`: an iteration records at most two failures,
  so nothing is cut from the history; 12 and 32 in the code. With a shorter
  history the failures that explain the lost directories may be forgotten.

### The argument for each module

`StoreLemmas` has the facts about the operators of `ArtifactStore`: the types of
`Compose`, `WriteFile`, `WriteSection` and `CopyPlatform`; that in a file of whole
sections the pattern of a section matches its first section and nothing else;
that a write keeps sections whole, adds its own and takes none away; that writing
a patch again changes nothing.

`NodeProofs` has what holds of the nodes whichever runner drives them, so that
`RunOnceProofs` and `GraphProofs` only treat their edges. Its lemmas come in
families, one for each invariant, with a lemma for the start, a node's step, a
human's edit and a step that changes nothing.

- `NodesInv` adds to the types what those of later states depend on: the loops
  over patches only visit files that have one (else `WriteSection` would be given
  `NoPatch`), the except clause has an exception, and a failed test run has a
  failure type when the reviewer reads it.
- `TraversalKeepsPatch`: a traversal on record implies a patch outside of the
  writable roots; merging never removes a file, so this survives further attempts.
  `DroppedWritable`: everything the drop has written so far is inside. The drop
  writes every patched file before the run passes, so at a pass the second
  contradicts the first.
- `DropInv` says at each program point which patches the staging tree and the real
  disk carry: those the loop has been through, and all of them from the end of
  the loop on, together with the results that led there. `PassMeansDropped` and
  `DropsOnlyTested` speak of the last of these points only.
- `TestedInv(of)` compares the two trees. They need not be equal before the drop:
  a kept staging directory has patches of earlier attempts, the real disk those of
  a half-done drop. What is invariant is that they give the same result for any
  patch of the file's one section (`SameResults`), and that what has been written
  is *settled*: writing it again would not change it. Both together make the trees
  equal at a pass.

`RunOnceProofs` adds the loop.

- `AttemptInv`: the planner's counter is the number of iterations that reached it
  (`AttemptsMatchIterations`), and it is below `MaxRepair` wherever the planner may
  be next (`PlannerHasRoom`). `AttemptsBounded` alone is not inductive: nothing in
  it says that the planner does not start when the counter is at the bound. A step
  that leads back to the planner has, with HITL on, just seen `Exceeded` to be
  false.
- `EscalationInv`: `TriggersStopRepair` speaks of the planner only; a trigger is
  recorded several steps before. `NoTriggerWaits` says where one may be on record
  besides the deferred one, and that there it is the verdict, the last failure or
  the exception in flight, which the next decision looks at. `FirstAttempt` is why
  the deferred one is the first record. `HandedOver` is `HitlJustified` from the
  decision on.
- `RecordInv`: with traces elsewhere the first failure that would have to be
  recorded ends the run (`NothingRecordable`).
- `AccountInv`: `HistoryLength` bounds the history by the iteration and the program
  point, so that no record is cut off and each adds one to the count that
  `StagingAccounted` compares with the directories never named; `DirectoriesBounded`
  counts those that could not be removed as well, one for each iteration that got
  past its drift node, as removing a directory never makes one more
  (`CleanupTotal`).
- For `IntegrityKept`, `TornInv` of `NodeProofs`: a file that fails the check is among
  those still to be written while the drop goes on, and a write is only made when
  there is none, so none is left when the loop ends.

`GraphProofs` has the supersteps instead: `ReviewsLeft` is `ReviewsBounded` with
one review to spare until the reviewer ran, `StepsTaken` counts what each turn of
the loop has used up at each node.

`WriterProofs`. `UnrecordedInv`: an edit that the writer could know of differs from
what it holds for its own at each program point, or was made in one of the two
windows. `OrphanInv` counts the write under way as one that may still leave a file. `ComposedInv` says for each operation what has been computed so far of
the content that the abstract store writes in one step: from the composition on the
text is the composition of what the *abstract* disk holds, and from the check on
that disk is intact. The step of the abstract store is that of `Record`, or of the
kill or failure between `Replace` and `Record`; every other step but an edit and
the loss of a manifest leaves the abstract disk as it was. Its operators are an instance's copies of those
of `ArtifactStore`, and the `Same...` lemmas say that they are the same. `TidyInv`
keeps the text of humans out of sections. A write appends a section, or replaces the
two first lines of one where they stand; so every line of a human stays at its place,
the set of these places only grows, and with it the number that `HumanTextKept`
compares.

`SandboxProofs`. `ContainersReleased`, `TimeoutReported` and `TraceExplains` only
speak of the end of a call. The inductive invariant says what leads there at each
operation:

- `TestsInv`: what the tests have done so far, and that the failure in hand is one
  `run_tests` may report there; every exception that the except clause catches is
  reported as a failure of the sandbox itself (`CaughtFact`);
- `AnswerInv`: the answer in the finally clause is justified by the tests;
- `ContainerInv`: a container exists only if the local variable holds it, or its
  making failed; one with tests that overran is still running only on the way to
  the kill, or after the kill failed or was interrupted;
- `TimeoutInv` and `TraceInv`: the failure in hand after an overrun, and the content
  of the trace file, are those of the answer to come.

For the refinement every step is a call, the end of one, or does nothing the caller
sees but that the tests run (`Silent`); `AnswerInv` is the guard of the end.
`Raisable` may hold any exception class. An exception of the runner itself is given
the type of its class, as an error in the tests is, so a TypeError of Docker's client
is reported as TYPE_ERROR although no test may have run. `TestVerdicts`, which the
refinement hands to `TestService`, is therefore the set of those verdict types that
no exception in `Raisable` is given; only these are promised to come from tests that
ran and failed. In `SandboxRuns` a TypeError may be raised, and SYNTAX and
IMPORT_ERROR are left.

`DriftProofs`. The invariant is the loop invariant of `verify`: each index kept is
that of its whole module (`IndexInv`; the one being built, of the files read so
far), and each contract checked so far is either reported or honoured by the
definition that comes first (`ReportInv`). `IndexedUpTo` says what an index of some
files is without reference to the order they were added in; the least-number
principle turns "some file has it" into "a first file has it".

`AgentProofs`. `AuditInv` fixes the order of the three files: no snapshot before the
call's end is reached, one from there on, and no end in the timeline without one,
whole or cut off. `SentInv`: while there is an agent its guide was accepted. The
rest is `SaysBody`: the text below a header as the loader cuts it out is what a
reader would say stands under that header, for every guide.

### What is only model-checked

- `Terminates`, `WritesEnd`, `CallsEnd`: liveness needs fairness and `ENABLED`.
- The disagreements of section 3: they are counterexamples.

## 6. Not modelled

- `SpecLoader` reads files and keeps nothing; the workflow models have its failure.
- The agent memory is a port without an implementation or a caller.
- The import policy has no caller, and its policy file is not in the repository.
- The vendor adapters call remote services: any text, any exception.
- The breadcrumb ring of 64 entries: a run makes at most 32, and nothing reads it.
- The locks of the telemetry object: the workflow has one thread.
- Two factories on one project at the same time: nothing in the code provides for
  it, and the manifest is read and replaced as a whole, so entries would be lost.
- A specification with malformed contracts, or a source file that is not UTF-8:
  `verify` raises, which is an exception of the drift node.
- Wording: prompts, messages, excerpts, the command line of the container.

## 7. Plan

Done: all modules of section 2 and their runs; the theorems of section 5.

Left: of `AgentCall` what each question's adapter is told; and how far
`OneSection` can be weakened.
