--------------------------- MODULE SandboxRunner ---------------------------
(***************************************************************************)
(* SandboxRunner.run_tests (services/sandbox_runner.py): pytest in a new   *)
(* container, or in a local subprocess with USE_DOCKER=false.  One action  *)
(* for each call that leaves the process; every one of them may fail, and  *)
(* the code turns most failures into a result: an exception of the try     *)
(* body is reported by its except clause, a failure of that report leaves  *)
(* run_tests.  One call is modelled after the other; nothing is kept       *)
(* between two calls but what Docker keeps.                                *)
(***************************************************************************)
CONSTANTS
    Docker,    \* the values of use_docker the runner may be configured with
    Logs,      \* outputs of a test run, each the set of the words in it
    Raisable   \* exception classes an operation may raise

\* The failure taxonomy, with the limits of the code.
Policy == INSTANCE FailurePolicy
              WITH MaxRepair <- 3, MaxFailures <- 32, RecentWindow <- 5

\* The words that _classify looks for.
Word == {"syntaxerror", "importerror", "modulenotfounderror", "typeerror",
         "assertionerror", "failed", "passed", "killed", "memoryerror",
         "permission denied"}

ASSUME RunnerAssumption ==
    /\ Docker \subseteq BOOLEAN
    /\ Logs \subseteq SUBSET Word
    /\ Raisable \subseteq Policy!ExceptionClass

\* The failures that only the tests' own output can lead to: an exception of
\* the runner is given the type of its class, so a TypeError of Docker's client
\* is reported as TYPE_ERROR, as one in the generated code is.
TestVerdicts ==
    {"SYNTAX", "IMPORT_ERROR", "TYPE_ERROR"}
        \ {Policy!FromException([cls |-> c, multiline |-> FALSE]) : c \in Raisable}

VARIABLES
    pc,         \* the operation that comes next, "idle" between calls
    useDocker,  \* config.use_docker; never changes
    container,  \* Docker's container of this call
    handle,     \* whether the local variable container holds it
    tests,      \* what the tests did, see TestService
    ft,         \* the failure type to report, "NONE" if there is none
    guarded,    \* whether the report runs inside the try body
    trace,      \* content of the trace file: nothing, the log, a cut-off
                \* write, or the message of a failure type
    answer,     \* the result of the call
    mishaps     \* history: what failed in this call besides the tests

vars == <<pc, useDocker, container, handle, tests, ft, guarded, trace, answer,
          mishaps>>

Service == INSTANCE TestService
    WITH FailureType <- Policy!FailureType,
         Verdicts <- TestVerdicts,
         busy <- pc # "idle",
         answer <- IF pc = "idle" THEN answer
                   ELSE [passed |-> FALSE, ftype |-> "PENDING"]

PC == {"idle", "connect", "spawn", "create", "start", "wait", "kill", "logs",
       "run", "trace", "exit", "fail_trace", "fail_event", "finally"}

TypeOK ==
    /\ pc \in PC
    /\ useDocker \in Docker
    /\ container \in {"none", "created", "running"}
    /\ handle \in BOOLEAN
    /\ tests \in Service!Tests
    /\ ft \in Policy!FailureType \cup {"NONE"}
    /\ guarded \in BOOLEAN
    /\ trace \in Policy!FailureType \cup {"none", "log", "cut"}
    /\ answer \in {Service!Pending, Service!Raised, Service!Passed}
                    \cup {Service!Failed(t) : t \in Policy!FailureType}
    /\ mishaps \subseteq {"create", "kill", "remove", "report", "decode",
                          "interrupt", "stopped"}

Init ==
    /\ pc = "idle" /\ useDocker \in Docker
    /\ container = "none" /\ handle = FALSE
    /\ tests = "none" /\ ft = "NONE" /\ guarded = FALSE /\ trace = "none"
    /\ answer = Service!Pending /\ mishaps = {}

-----------------------------------------------------------------------------
\* Helpers

\* Mutant: no final default.
ClassifyNoDefault(log) ==
    CASE "syntaxerror" \in log -> "SYNTAX"
      [] OTHER -> "NONE"

\* The first match counts; "and" binds closer than "or".
Classify(log) ==
    IF "syntaxerror" \in log THEN "SYNTAX"
    ELSE IF log \cap {"importerror", "modulenotfounderror"} # {}
         THEN "IMPORT_ERROR"
    ELSE IF "typeerror" \in log THEN "TYPE_ERROR"
    ELSE IF \/ "assertionerror" \in log
            \/ "failed" \in log /\ "passed" \notin log THEN "TEST_ASSERTION"
    ELSE IF log \cap {"killed", "memoryerror"} # {} THEN "RESOURCE_LIMIT"
    ELSE IF "permission denied" \in log THEN "SECURITY_VIOLATION"
    ELSE "UNKNOWN"

\* _fail begins, and whether the except clause of the try body is around it.
Fail(t, inTry) == ft' = t /\ guarded' = inTry /\ pc' = "fail_trace"

\* The except clause: report the exception.
Caught ==
    \E c \in Raisable :
        Fail(Policy!FromException([cls |-> c, multiline |-> FALSE]), FALSE)

\* An exception leaves run_tests, through the finally clause if there is one.
Propagate ==
    /\ answer' = Service!Raised
    /\ pc' = "finally"
    /\ UNCHANGED <<ft, guarded>>

Goto(p) == pc' = p /\ UNCHANGED <<ft, guarded>>

Mishap(m) == mishaps' = mishaps \cup {m}

-----------------------------------------------------------------------------
\* Up to the start of the tests

Call ==
    /\ pc = "idle"
    /\ container' = "none" /\ handle' = FALSE /\ tests' = "none"
    /\ trace' = "none" /\ answer' = Service!Pending /\ mishaps' = {}
    /\ \/ Fail("UNKNOWN", FALSE)    \* the target does not exist
       \/ /\ pc' = IF useDocker THEN "connect" ELSE "spawn"
          /\ ft' = "NONE" /\ guarded' = FALSE
    /\ UNCHANGED useDocker

\* import docker, and ping: outside of the try body.
Connect ==
    /\ pc = "connect"
    /\ \/ Fail("SECURITY_VIOLATION", FALSE)    \* the SDK is missing
       \/ Fail("INFRA_TIMEOUT", FALSE)         \* the daemon is out of reach
       \/ Goto("spawn")
    /\ UNCHANGED <<useDocker, container, handle, tests, trace, answer, mishaps>>

\* The spawn event is not guarded either: a failing log file raises.
Spawn ==
    /\ pc = "spawn"
    /\ \/ /\ Goto(IF useDocker THEN "create" ELSE "run")
          /\ UNCHANGED answer
       \/ Propagate
    /\ UNCHANGED <<useDocker, container, handle, tests, trace, mishaps>>

\* A create that fails may have made a container that the program never
\* learns of.
Create ==
    /\ pc = "create"
    /\ \/ /\ container' = "created" /\ handle' = TRUE
          /\ Goto("start")
          /\ UNCHANGED mishaps
       \/ /\ container' \in {"none", "created"}
          /\ Caught
          /\ Mishap("create")
          /\ UNCHANGED handle
    /\ UNCHANGED <<useDocker, tests, trace, answer>>

\* Upload of the workspace and start.
Start ==
    /\ pc = "start"
    /\ \/ container' = "running" /\ Goto("wait")
       \/ container' \in {"created", "running"} /\ Caught
    /\ UNCHANGED <<useDocker, handle, tests, trace, answer, mishaps>>

-----------------------------------------------------------------------------
\* The tests

\* Mutant: a timeout is handled by the outer except clause.
WaitUnguarded ==
    /\ pc = "wait"
    /\ \/ \E t \in {"passed", "failed"} :
              tests' = t /\ container' = "created" /\ Goto("logs")
       \/ tests' = "late" /\ Caught /\ UNCHANGED container
    /\ UNCHANGED <<useDocker, handle, trace, answer, mishaps>>

\* wait returns the exit code, or raises after the timeout or when the
\* connection is lost.
Wait ==
    /\ pc = "wait"
    /\ \/ \E t \in {"passed", "failed"} :
              tests' = t /\ container' = "created" /\ Goto("logs")
       \/ tests' = "late" /\ Goto("kill") /\ UNCHANGED container
    /\ UNCHANGED <<useDocker, handle, trace, answer, mishaps>>

\* _safe_kill swallows its own failure.
Kill ==
    /\ pc = "kill"
    /\ \/ container' = "created" /\ UNCHANGED mishaps
       \/ Mishap("kill") /\ UNCHANGED container
    /\ Fail("INFRA_TIMEOUT", TRUE)
    /\ UNCHANGED <<useDocker, handle, tests, trace, answer>>

\* The failure type of a test run with this exit code and output.
VerdictOn(t) ==
    IF t = "passed" THEN {"NONE"} ELSE {Classify(log) : log \in Logs}

FetchLogs ==
    /\ pc = "logs"
    /\ \/ ft' \in VerdictOn(tests) /\ pc' = "trace" /\ UNCHANGED guarded
       \/ Caught
    /\ UNCHANGED <<useDocker, container, handle, tests, trace, answer, mishaps>>

\* subprocess.run in _run_local.  Its except clauses are not guarded, and the
\* one for a timeout first decodes output that was cut off anywhere.
RunLocal ==
    /\ pc = "run"
    /\ \/ \E t \in {"passed", "failed"} :
              /\ tests' = t
              /\ ft' \in VerdictOn(t) /\ pc' = "trace"
              /\ UNCHANGED <<guarded, answer, mishaps>>
       \/ /\ tests' = "late" /\ Fail("INFRA_TIMEOUT", FALSE)
          /\ UNCHANGED <<answer, mishaps>>
       \/ tests' = "late" /\ Propagate /\ Mishap("decode")
       \/ Caught /\ UNCHANGED <<tests, answer, mishaps>>
    /\ UNCHANGED <<useDocker, container, handle, trace>>

-----------------------------------------------------------------------------
\* Reporting

WriteTrace ==
    /\ pc = "trace"
    /\ \/ trace' = "log" /\ Goto("exit") /\ UNCHANGED mishaps
       \/ trace' \in {"none", "cut"} /\ Caught /\ Mishap("report")
    /\ UNCHANGED <<useDocker, container, handle, tests, answer>>

\* Mutant: a test run that wrote its log has passed.
ExitWithoutCode ==
    /\ pc = "exit"
    /\ answer' = Service!Passed /\ Goto("finally")
    /\ UNCHANGED <<useDocker, container, handle, tests, trace, mishaps>>

\* The exit event, then the result.  If the event fails, the except clause
\* reports that failure instead of the result, and overwrites the log.
ExitEvent ==
    /\ pc = "exit"
    /\ \/ /\ answer' = IF tests = "passed" THEN Service!Passed
                                           ELSE Service!Failed(ft)
          /\ Goto("finally")
          /\ UNCHANGED mishaps
       \/ Caught /\ Mishap("report") /\ UNCHANGED answer
    /\ UNCHANGED <<useDocker, container, handle, tests, trace>>

\* Mutant: every failing report is reported.
ReportFailsAgain == Caught /\ UNCHANGED answer /\ Mishap("report")

\* A report that fails itself: inside the try body the except clause reports
\* once more, elsewhere the exception leaves.
ReportFails ==
    /\ IF guarded THEN Caught /\ UNCHANGED answer ELSE Propagate
    /\ Mishap("report")

\* Mutant: a trace that was written is kept.
FailTraceOnce ==
    /\ pc = "fail_trace"
    /\ \/ trace' = (IF trace = "none" THEN ft ELSE trace)
          /\ Goto("fail_event") /\ UNCHANGED <<answer, mishaps>>
       \/ trace' \in {trace, "cut"} /\ ReportFails
    /\ UNCHANGED <<useDocker, container, handle, tests>>

FailTrace ==
    /\ pc = "fail_trace"
    /\ \/ trace' = ft /\ Goto("fail_event") /\ UNCHANGED <<answer, mishaps>>
       \/ trace' \in {trace, "cut"} /\ ReportFails
    /\ UNCHANGED <<useDocker, container, handle, tests>>

FailEvent ==
    /\ pc = "fail_event"
    /\ \/ /\ answer' = Service!Failed(ft) /\ Goto("finally")
          /\ UNCHANGED mishaps
       \/ ReportFails
    /\ UNCHANGED <<useDocker, container, handle, tests, trace>>

\* Mutant: the container is removed at the end of the try body only.
FinallyAfterAnswer ==
    /\ pc = "finally"
    /\ IF handle /\ answer # Service!Raised
       THEN container' = "none" /\ UNCHANGED mishaps
       ELSE UNCHANGED <<container, mishaps>>
    /\ Goto("idle")
    /\ UNCHANGED <<useDocker, handle, tests, trace, answer>>

\* _safe_remove swallows its own failure; paths that have no finally clause
\* have no container either.
Finally ==
    /\ pc = "finally"
    /\ \/ handle /\ container' = "none" /\ UNCHANGED mishaps
       \/ handle /\ Mishap("remove") /\ UNCHANGED container
       \/ ~handle /\ UNCHANGED <<container, mishaps>>
    /\ Goto("idle")
    /\ UNCHANGED <<useDocker, handle, tests, trace, answer>>

-----------------------------------------------------------------------------
\* The environment stops the program

\* Ctrl-C: no except clause is for it, the finally clause is.  It may come
\* before the program learns of the container it made, or while the finally
\* clause removes it: _safe_remove swallows an Exception, which it is not.
Interrupt ==
    /\ pc # "idle"
    /\ \/ /\ pc = "create"
          /\ container' \in {"none", "created"}
          /\ mishaps' = mishaps \cup {"interrupt", "create"}
       \/ /\ pc = "finally" /\ handle
          /\ container' \in {"none", container}
          /\ mishaps' = mishaps \cup {"interrupt", "remove"}
       \/ /\ pc # "create" /\ ~(pc = "finally" /\ handle)
          /\ Mishap("interrupt")
          /\ UNCHANGED container
    /\ answer' = Service!Raised
    /\ Goto(IF pc = "finally" THEN "idle" ELSE "finally")
    /\ UNCHANGED <<useDocker, handle, tests, trace>>

\* The process is killed.
Stop ==
    /\ pc # "idle"
    /\ answer' = Service!Raised
    /\ Mishap("stopped")
    /\ Goto("idle")
    /\ UNCHANGED <<useDocker, container, handle, tests, trace>>

Step ==
    \/ Connect \/ Spawn \/ Create \/ Start \/ Wait \/ Kill \/ FetchLogs
    \/ RunLocal \/ WriteTrace \/ ExitEvent \/ FailTrace \/ FailEvent
    \/ Finally

Next == Call \/ Step \/ Interrupt \/ Stop

Spec == Init /\ [][Next]_vars

\* Docker's client, subprocess.run and file operations return or raise: the
\* first two have timeouts.
FairSpec == Spec /\ WF_vars(Step)

-----------------------------------------------------------------------------
\* Properties

\* Every path out of a call, an interrupt included, removes the container it
\* made, but for three: Docker never said that it had made one, the removal
\* itself was refused or interrupted, the process was killed.  Tests that
\* overran are left running only if killing them failed as well, or was cut off
\* by an interrupt.
ContainersReleased ==
    pc = "idle" =>
        /\ container # "none" => mishaps \cap {"create", "remove", "stopped"} # {}
        /\ container = "running" /\ tests = "late"
               => mishaps \cap {"kill", "interrupt", "stopped"} # {}

\* Tests that do not return are reported as INFRA_TIMEOUT, for which a human is
\* called, and as nothing else, unless the report could not be written, the
\* output they left could not be decoded, or the program was stopped; and
\* whatever happened they have not passed.
TimeoutReported ==
    pc = "idle" /\ tests = "late" =>
        /\ mishaps \cap {"report", "decode", "interrupt", "stopped"} = {}
               => answer = Service!Failed("INFRA_TIMEOUT")
        /\ ~answer.passed

\* The same without the exception for the output: what failure_types.py:35
\* promises of INFRA_TIMEOUT needs an overrun to be reported as one.
OverrunIsTimeout ==
    pc = "idle" /\ tests = "late"
        /\ mishaps \cap {"report", "interrupt", "stopped"} = {}
            => answer = Service!Failed("INFRA_TIMEOUT")

\* The trace file, all that later attempts see of a test run, fits the result:
\* the log of the tests that decided it, or the failure it reports.
TraceExplains ==
    pc = "idle" /\ answer \notin {Service!Pending, Service!Raised} =>
        \/ trace = "log" /\ tests \in {"passed", "failed"}
        \/ trace = answer.ftype

\* run_tests is a test service as the workflow assumes it.
ImplementsService == Service!Spec

\* Every call returns or raises.
CallsEnd == pc # "idle" ~> pc = "idle"
=============================================================================
