--------------------------- MODULE SandboxProofs ---------------------------
(***************************************************************************)
(* Proofs about the sandbox runner, for every set of outputs, exceptions   *)
(* and configurations: its safety properties, and that it implements       *)
(* TestService.                                                            *)
(***************************************************************************)
EXTENDS SandboxRunner, TLAPS

\* Every failure that run_tests reports.
Reported == Policy!FailureType \ {"SPEC_DRIFT"}

\* Those that it may report of itself, without tests that failed.
OwnFailure == Reported \ TestVerdicts

\* Where nothing has been made or run yet, and where only the container has.
BeforeContainer == {"connect", "spawn", "create", "run"}
BeforeTests     == BeforeContainer \cup {"start", "wait"}

Failing == {"fail_trace", "fail_event"}

\* What is known of the tests, and of the failure in hand, at each operation.
TestsInv ==
    /\ pc \in BeforeTests => tests = "none"
    /\ pc = "logs" => tests \in {"passed", "failed"}
    /\ pc \in {"trace", "exit"} =>
          /\ tests \in {"passed", "failed"}
          /\ tests = "failed" => ft \in Reported
    /\ pc = "kill" => tests = "late"
    /\ pc \in Failing => ft \in OwnFailure

\* The answer that the finally clause lets through.
AnswerInv ==
    pc = "finally" =>
        \/ answer = Service!Raised
        \/ answer = Service!Passed /\ tests = "passed"
        \/ \E t \in Reported :
              /\ t \in TestVerdicts => tests = "failed"
              /\ answer = Service!Failed(t)

\* The container is known, or its making failed.
ContainerInv ==
    /\ pc \in BeforeContainer => container = "none"
    /\ pc \in {"start", "wait", "kill"} => handle
    /\ pc # "idle" /\ container # "none" => handle \/ "create" \in mishaps
    /\ pc \notin {"idle", "kill"} /\ container = "running" /\ tests = "late" =>
          mishaps \cap {"kill", "interrupt"} # {}

\* An overrun is on its way to be reported as one.
TimeoutInv ==
    tests = "late" /\ mishaps \cap {"report", "decode", "interrupt", "stopped"} = {} =>
        /\ pc \in Failing => ft = "INFRA_TIMEOUT"
        /\ pc = "finally" => answer = Service!Failed("INFRA_TIMEOUT")

\* The trace file is that of the report in hand.
TraceInv ==
    /\ pc = "exit" => trace = "log"
    /\ pc = "fail_event" => trace = ft
    /\ pc = "finally" =>
          \/ answer = Service!Raised
          \/ trace = "log" /\ tests \in {"passed", "failed"}
          \/ trace = answer.ftype

Inv ==
    /\ TypeOK
    /\ TestsInv
    /\ AnswerInv
    /\ ContainerInv
    /\ TimeoutInv
    /\ TraceInv
    /\ ContainersReleased
    /\ TimeoutReported
    /\ TraceExplains

-----------------------------------------------------------------------------
\* Facts about the operators

\* Every failed output is classified as a failure that the sandbox reports.
LEMMA ClassifyFact ==
    ASSUME NEW log
    PROVE  Classify(log) \in Reported
BY DEF Classify, Reported, Policy!FailureType

\* What the code reports by name is no verdict on the tests.
LEMMA OwnFacts ==
    /\ {"UNKNOWN", "SECURITY_VIOLATION", "INFRA_TIMEOUT"} \subseteq OwnFailure
    /\ OwnFailure \subseteq Reported
    /\ OwnFailure \cap TestVerdicts = {}
    /\ Reported \subseteq Policy!FailureType
BY DEF OwnFailure, Reported, TestVerdicts, Policy!FailureType

\* The except clause reports a failure of the sandbox itself, by the definition
\* of those: the type of an exception that may be raised is no test verdict.
LEMMA CaughtFact ==
    ASSUME Caught
    PROVE  ft' \in OwnFailure /\ guarded' = FALSE /\ pc' = "fail_trace"
<1>1. PICK c \in Raisable :
          Fail(Policy!FromException([cls |-> c, multiline |-> FALSE]), FALSE)
    BY DEF Caught
<1> DEFINE t == Policy!FromException([cls |-> c, multiline |-> FALSE])
<1>2. c \in {"SyntaxError", "ImportError", "TypeError", "AssertionError",
             "TimeoutError", "PermissionError", "MemoryError", "Other"}
    BY RunnerAssumption DEF Policy!ExceptionClass, Policy!FailureOfClass
<1>3. t \in Reported
    BY <1>2 DEF Policy!FromException, Policy!FailureOfClass, Reported,
                Policy!FailureType
<1>4. t \notin TestVerdicts
    BY DEF TestVerdicts
<1>5. ft' = t /\ guarded' = FALSE /\ pc' = "fail_trace"
    BY <1>1 DEF Fail
<1> QED  BY <1>3, <1>4, <1>5 DEF OwnFailure

\* A report that fails is reported once more, or its exception leaves.
LEMMA ReportFailsFact ==
    ASSUME ReportFails
    PROVE  /\ mishaps' = mishaps \cup {"report"}
           /\ \/ /\ ft' \in OwnFailure /\ guarded' = FALSE
                 /\ pc' = "fail_trace" /\ answer' = answer
              \/ /\ answer' = Service!Raised /\ pc' = "finally"
                 /\ ft' = ft /\ guarded' = guarded
BY CaughtFact DEF ReportFails, Propagate, Mishap

-----------------------------------------------------------------------------
\* The inductive invariant

LEMMA InitInv == Init => Inv
BY DEF Init, Inv, TypeOK, TestsInv, AnswerInv, ContainerInv, TimeoutInv,
       TraceInv, ContainersReleased, TimeoutReported, TraceExplains, PC,
       BeforeContainer, BeforeTests, Failing, Service!Pending, Service!Tests,
       Service!Raised

\* A call reports a failure type: ft is one whenever it is about to be answered.
LEMMA TypeStep == TypeOK /\ TestsInv /\ [Next]_vars => TypeOK'
<1> SUFFICES ASSUME TypeOK, TestsInv, [Next]_vars PROVE TypeOK'
    OBVIOUS
<1> USE DEF TypeOK, TestsInv, Failing, PC, Service!Tests
<1>0. /\ OwnFailure \subseteq Policy!FailureType
      /\ Reported \subseteq Policy!FailureType
      /\ {"UNKNOWN", "SECURITY_VIOLATION", "INFRA_TIMEOUT"} \subseteq Policy!FailureType
    BY OwnFacts
<1>1. CASE Call
    BY <1>1, <1>0 DEF Call, Fail
<1>2. CASE Connect
    BY <1>2, <1>0 DEF Connect, Fail, Goto
<1>3. CASE Spawn
    BY <1>3 DEF Spawn, Propagate, Goto
<1>4. CASE Create
    BY <1>4, <1>0, CaughtFact DEF Create, Goto, Mishap
<1>5. CASE Start
    BY <1>5, <1>0, CaughtFact DEF Start, Goto
<1>6. CASE Wait
    BY <1>6 DEF Wait, Goto
<1>7. CASE Kill
    BY <1>7, <1>0 DEF Kill, Fail, Mishap
<1>8. CASE FetchLogs
    BY <1>8, <1>0, CaughtFact, ClassifyFact DEF FetchLogs, VerdictOn
<1>9. CASE RunLocal
    BY <1>9, <1>0, CaughtFact, ClassifyFact
       DEF RunLocal, VerdictOn, Fail, Propagate, Mishap
<1>10. CASE WriteTrace
    BY <1>10, <1>0, CaughtFact DEF WriteTrace, Goto, Mishap
<1>11. CASE ExitEvent
    BY <1>11, <1>0, CaughtFact DEF ExitEvent, Goto, Mishap
<1>12. CASE FailTrace
    BY <1>12, <1>0, ReportFailsFact DEF FailTrace, Goto
<1>13. CASE FailEvent
    BY <1>13, <1>0, ReportFailsFact DEF FailEvent, Goto
<1>14. CASE Finally
    BY <1>14 DEF Finally, Goto, Mishap
<1>15. CASE Interrupt
    BY <1>15 DEF Interrupt, Goto, Mishap
<1>16. CASE Stop
    BY <1>16 DEF Stop, Goto, Mishap
<1>17. CASE UNCHANGED vars
    BY <1>17 DEF vars
<1> QED
    BY <1>1, <1>2, <1>3, <1>4, <1>5, <1>6, <1>7, <1>8, <1>9, <1>10,
       <1>11, <1>12, <1>13, <1>14, <1>15, <1>16, <1>17
       DEF Next, Step

LEMMA StepInv == Inv /\ [Next]_vars => Inv'
<1> SUFFICES ASSUME Inv, [Next]_vars PROVE Inv'
    OBVIOUS
<1> USE DEF Inv, TypeOK, TestsInv, AnswerInv, ContainerInv, TimeoutInv, TraceInv,
            ContainersReleased, TimeoutReported, TraceExplains, PC,
            BeforeContainer, BeforeTests, Failing, Service!Tests,
            Service!Pending, Service!Raised, Service!Passed, Service!Failed
<1> USE OwnFacts
<1>1. CASE Call
    BY <1>1 DEF Call, Fail
<1>2. CASE Connect
  <2>1. TestsInv' /\ AnswerInv'
    BY <1>2 DEF Connect, Fail, Goto
  <2>2. ContainerInv' /\ ContainersReleased'
    BY <1>2 DEF Connect, Fail, Goto
  <2>3. TimeoutInv' /\ TimeoutReported' /\ TraceInv' /\ TraceExplains'
    BY <1>2 DEF Connect, Fail, Goto
  <2> QED  BY TypeStep, <2>1, <2>2, <2>3 DEF Inv
<1>3. CASE Spawn
    BY <1>3 DEF Spawn, Propagate, Goto
<1>4. CASE Create
  <2>1. TestsInv'
    BY <1>4, CaughtFact DEF Create, Goto, Mishap
  <2>2. AnswerInv'
    BY <1>4, CaughtFact DEF Create, Goto, Mishap
  <2>3. ContainerInv' /\ ContainersReleased'
    BY <1>4, CaughtFact DEF Create, Goto, Mishap
  <2>4. TimeoutInv' /\ TimeoutReported'
    BY <1>4, CaughtFact DEF Create, Goto, Mishap
  <2>5. TraceInv' /\ TraceExplains'
    BY <1>4, CaughtFact DEF Create, Goto, Mishap
  <2> QED  BY TypeStep, <2>1, <2>2, <2>3, <2>4, <2>5 DEF Inv
<1>5. CASE Start
  <2>1. TestsInv'
    BY <1>5, CaughtFact DEF Start, Goto
  <2>2. AnswerInv'
    BY <1>5, CaughtFact DEF Start, Goto
  <2>3. ContainerInv' /\ ContainersReleased'
    BY <1>5, CaughtFact DEF Start, Goto
  <2>4. TimeoutInv' /\ TimeoutReported'
    BY <1>5, CaughtFact DEF Start, Goto
  <2>5. TraceInv' /\ TraceExplains'
    BY <1>5, CaughtFact DEF Start, Goto
  <2> QED  BY TypeStep, <2>1, <2>2, <2>3, <2>4, <2>5 DEF Inv
<1>6. CASE Wait
    BY <1>6 DEF Wait, Goto
<1>7. CASE Kill
  <2>1. TestsInv'
    BY <1>7 DEF Kill, Fail, Mishap
  <2>2. AnswerInv'
    BY <1>7 DEF Kill, Fail, Mishap
  <2>3. ContainerInv' /\ ContainersReleased'
    BY <1>7 DEF Kill, Fail, Mishap
  <2>4. TimeoutInv' /\ TimeoutReported'
    BY <1>7 DEF Kill, Fail, Mishap
  <2>5. TraceInv' /\ TraceExplains'
    BY <1>7 DEF Kill, Fail, Mishap
  <2> QED  BY TypeStep, <2>1, <2>2, <2>3, <2>4, <2>5 DEF Inv
<1>8. CASE FetchLogs
  <2>1. TestsInv'
    BY <1>8, CaughtFact, ClassifyFact DEF FetchLogs, VerdictOn
  <2>2. AnswerInv'
    BY <1>8, CaughtFact, ClassifyFact DEF FetchLogs, VerdictOn
  <2>3. ContainerInv' /\ ContainersReleased'
    BY <1>8, CaughtFact, ClassifyFact DEF FetchLogs, VerdictOn
  <2>4. TimeoutInv' /\ TimeoutReported'
    BY <1>8, CaughtFact, ClassifyFact DEF FetchLogs, VerdictOn
  <2>5. TraceInv' /\ TraceExplains'
    BY <1>8, CaughtFact, ClassifyFact DEF FetchLogs, VerdictOn
  <2> QED  BY TypeStep, <2>1, <2>2, <2>3, <2>4, <2>5 DEF Inv
<1>9. CASE RunLocal
  <2>1. TestsInv'
    BY <1>9, CaughtFact, ClassifyFact
       DEF RunLocal, VerdictOn, Fail, Propagate, Mishap
  <2>2. AnswerInv'
    BY <1>9, CaughtFact, ClassifyFact
       DEF RunLocal, VerdictOn, Fail, Propagate, Mishap
  <2>3. ContainerInv' /\ ContainersReleased'
    BY <1>9, CaughtFact, ClassifyFact
       DEF RunLocal, VerdictOn, Fail, Propagate, Mishap
  <2>4. TimeoutInv' /\ TimeoutReported'
    BY <1>9, CaughtFact, ClassifyFact
       DEF RunLocal, VerdictOn, Fail, Propagate, Mishap
  <2>5. TraceInv' /\ TraceExplains'
    BY <1>9, CaughtFact, ClassifyFact
       DEF RunLocal, VerdictOn, Fail, Propagate, Mishap
  <2> QED  BY TypeStep, <2>1, <2>2, <2>3, <2>4, <2>5 DEF Inv
<1>10. CASE WriteTrace
  <2>1. TestsInv'
    BY <1>10, CaughtFact DEF WriteTrace, Goto, Mishap
  <2>2. AnswerInv'
    BY <1>10, CaughtFact DEF WriteTrace, Goto, Mishap
  <2>3. ContainerInv' /\ ContainersReleased'
    BY <1>10, CaughtFact DEF WriteTrace, Goto, Mishap
  <2>4. TimeoutInv' /\ TimeoutReported'
    BY <1>10, CaughtFact DEF WriteTrace, Goto, Mishap
  <2>5. TraceInv' /\ TraceExplains'
    BY <1>10, CaughtFact DEF WriteTrace, Goto, Mishap
  <2> QED  BY TypeStep, <2>1, <2>2, <2>3, <2>4, <2>5 DEF Inv
<1>11. CASE ExitEvent
  <2>1. TestsInv'
    BY <1>11, CaughtFact DEF ExitEvent, Goto, Mishap
  <2>2. AnswerInv'
    BY <1>11, CaughtFact DEF ExitEvent, Goto, Mishap
  <2>3. ContainerInv' /\ ContainersReleased'
    BY <1>11, CaughtFact DEF ExitEvent, Goto, Mishap
  <2>4. TimeoutInv' /\ TimeoutReported'
    BY <1>11, CaughtFact DEF ExitEvent, Goto, Mishap
  <2>5. TraceInv' /\ TraceExplains'
    BY <1>11, CaughtFact DEF ExitEvent, Goto, Mishap
  <2> QED  BY TypeStep, <2>1, <2>2, <2>3, <2>4, <2>5 DEF Inv
<1>12. CASE FailTrace
  <2>1. TestsInv'
    BY <1>12, ReportFailsFact DEF FailTrace, Goto
  <2>2. AnswerInv'
    BY <1>12, ReportFailsFact DEF FailTrace, Goto
  <2>3. ContainerInv' /\ ContainersReleased'
    BY <1>12, ReportFailsFact DEF FailTrace, Goto
  <2>4. TimeoutInv' /\ TimeoutReported'
    BY <1>12, ReportFailsFact DEF FailTrace, Goto
  <2>5. TraceInv' /\ TraceExplains'
    BY <1>12, ReportFailsFact DEF FailTrace, Goto
  <2> QED  BY TypeStep, <2>1, <2>2, <2>3, <2>4, <2>5 DEF Inv
<1>13. CASE FailEvent
  <2>1. TestsInv'
    BY <1>13, ReportFailsFact DEF FailEvent, Goto
  <2>2. AnswerInv'
    BY <1>13, ReportFailsFact DEF FailEvent, Goto
  <2>3. ContainerInv' /\ ContainersReleased'
    BY <1>13, ReportFailsFact DEF FailEvent, Goto
  <2>4. TimeoutInv' /\ TimeoutReported'
    BY <1>13, ReportFailsFact DEF FailEvent, Goto
  <2>5. TraceInv' /\ TraceExplains'
    <3>1. CASE answer' = Service!Failed(ft) /\ pc' = "finally"
      <4>1. trace' = answer'.ftype
        BY <1>13, <3>1 DEF FailEvent
      <4> QED  BY <3>1, <4>1
    <3>2. CASE ReportFails
        BY <1>13, <3>2, ReportFailsFact DEF FailEvent
    <3> QED  BY <1>13, <3>1, <3>2 DEF FailEvent, Goto
  <2> QED  BY TypeStep, <2>1, <2>2, <2>3, <2>4, <2>5 DEF Inv
<1>14. CASE Finally
  <2>1. TestsInv'
    BY <1>14 DEF Finally, Goto, Mishap
  <2>2. AnswerInv'
    BY <1>14 DEF Finally, Goto, Mishap
  <2>3. ContainerInv' /\ ContainersReleased'
    BY <1>14 DEF Finally, Goto, Mishap
  <2>4. TimeoutInv' /\ TimeoutReported'
    BY <1>14 DEF Finally, Goto, Mishap
  <2>5. TraceInv' /\ TraceExplains'
    BY <1>14 DEF Finally, Goto, Mishap
  <2> QED  BY TypeStep, <2>1, <2>2, <2>3, <2>4, <2>5 DEF Inv
<1>15. CASE Interrupt
  <2>1. TestsInv'
    BY <1>15 DEF Interrupt, Goto, Mishap
  <2>2. AnswerInv'
    BY <1>15 DEF Interrupt, Goto, Mishap
  <2>3. ContainerInv' /\ ContainersReleased'
    BY <1>15 DEF Interrupt, Goto, Mishap
  <2>4. TimeoutInv' /\ TimeoutReported'
    BY <1>15 DEF Interrupt, Goto, Mishap
  <2>5. TraceInv' /\ TraceExplains'
    BY <1>15 DEF Interrupt, Goto, Mishap
  <2> QED  BY TypeStep, <2>1, <2>2, <2>3, <2>4, <2>5 DEF Inv
<1>16. CASE Stop
    BY <1>16 DEF Stop, Goto, Mishap
<1>17. CASE UNCHANGED vars
    BY <1>17 DEF vars
<1> QED
    BY <1>1, <1>2, <1>3, <1>4, <1>5, <1>6, <1>7, <1>8, <1>9, <1>10,
       <1>11, <1>12, <1>13, <1>14, <1>15, <1>16, <1>17 DEF Next, Step

LEMMA InvHolds == Spec => []Inv
<1> QED  BY InitInv, StepInv, PTL DEF Spec

-----------------------------------------------------------------------------
\* The refinement

\* Between its start and its end a call does nothing that its caller sees, but
\* that the tests run.
Silent ==
    /\ pc # "idle" /\ pc' # "idle"
    /\ tests' # tests => tests = "none" /\ tests' \in Service!Tests \ {"none"}

LEMMA SilentStep == Silent => [Service!Next]_(Service!vars)
<1> SUFFICES ASSUME Silent PROVE [Service!Next]_(Service!vars)
    OBVIOUS
<1>1. CASE tests' = tests
    BY <1>1 DEF Silent, Service!vars
<1>2. CASE tests' # tests
    BY <1>2 DEF Silent, Service!Next, Service!RunTests
<1> QED  BY <1>1, <1>2

\* The steps that are silent.
LEMMA StepSilent ==
    ASSUME Inv, Step \/ Interrupt, pc # "finally"
    PROVE  Silent
<1> USE DEF Inv, TestsInv, BeforeTests, BeforeContainer, Silent, Service!Tests
<1>1. CASE Connect \/ Spawn
    BY <1>1 DEF Connect, Spawn, Fail, Goto, Propagate
<1>2. CASE Create \/ Start
    BY <1>2, CaughtFact DEF Create, Start, Goto
<1>3. CASE Wait \/ Kill
    BY <1>3 DEF Wait, Kill, Fail, Goto
<1>4. CASE FetchLogs \/ RunLocal
    BY <1>4, CaughtFact DEF FetchLogs, RunLocal, Fail, Propagate
<1>5. CASE WriteTrace \/ ExitEvent
    BY <1>5, CaughtFact DEF WriteTrace, ExitEvent, Goto
<1>6. CASE FailTrace \/ FailEvent
    BY <1>6, ReportFailsFact DEF FailTrace, FailEvent, Goto
<1>7. CASE Finally
    BY <1>7 DEF Finally
<1>8. CASE Interrupt
    BY <1>8 DEF Interrupt, Goto
<1> QED  BY <1>1, <1>2, <1>3, <1>4, <1>5, <1>6, <1>7, <1>8 DEF Step

\* A step of the runner is one of a test service, or none.
LEMMA StepImplements == Inv /\ [Next]_vars => [Service!Next]_(Service!vars)
<1> SUFFICES ASSUME Inv, [Next]_vars PROVE [Service!Next]_(Service!vars)
    OBVIOUS
<1>1. CASE Call
  <2>1. pc = "idle" /\ pc' # "idle" /\ tests' = "none"
    BY <1>1 DEF Call, Fail
  <2> QED  BY <2>1 DEF Service!Next, Service!Call, Service!Pending
<1>2. CASE (Step \/ Interrupt) /\ pc # "finally"
    BY <1>2, StepSilent, SilentStep
<1>3. CASE Finally
  <2>1. pc = "finally" /\ pc' = "idle" /\ answer' = answer /\ tests' = tests
    BY <1>3 DEF Finally, Goto
  <2>2. \/ answer = Service!Raised
        \/ answer = Service!Passed /\ tests = "passed"
        \/ \E t \in Policy!FailureType \ {"SPEC_DRIFT"} :
              /\ t \in TestVerdicts => tests = "failed"
              /\ answer = Service!Failed(t)
    BY <2>1 DEF Inv, AnswerInv, Reported
  <2> QED  BY <2>1, <2>2 DEF Service!Next, Service!Answer
<1>4. CASE Stop \/ (Interrupt /\ pc = "finally")
  <2>1. pc # "idle" /\ pc' = "idle" /\ answer' = Service!Raised /\ tests' = tests
    BY <1>4 DEF Stop, Interrupt, Goto
  <2> QED  BY <2>1 DEF Service!Next, Service!Answer
<1>5. CASE UNCHANGED vars
    BY <1>5 DEF vars, Service!vars
<1>6. ASSUME pc = "finally", Step PROVE Finally
    BY <1>6 DEF Step, Connect, Spawn, Create, Start, Wait, Kill, FetchLogs,
                RunLocal, WriteTrace, ExitEvent, FailTrace, FailEvent
<1> QED  BY <1>1, <1>2, <1>3, <1>4, <1>5, <1>6 DEF Next

LEMMA InitImplements == Init => Service!Init
BY DEF Init, Service!Init

-----------------------------------------------------------------------------
\* The properties

\* Every state of a call has its type, for all outputs and exceptions.
THEOREM TypeCorrect == Spec => []TypeOK
<1>1. Inv => TypeOK
    BY DEF Inv
<1> QED  BY <1>1, InvHolds, PTL

\* No path out of run_tests, by Ctrl-C or a failure in any operation, the finally
\* clause included, leaves a container behind, or tests running, but those that
\* ContainersReleased names.
THEOREM NoContainerLost == Spec => []ContainersReleased
<1>1. Inv => ContainersReleased
    BY DEF Inv
<1> QED  BY <1>1, InvHolds, PTL

\* An overrun is answered with INFRA_TIMEOUT, not with another type nor with an
\* exception, but where the report, the decoding or the program was cut short.
THEOREM OverrunsReported == Spec => []TimeoutReported
<1>1. Inv => TimeoutReported
    BY DEF Inv
<1> QED  BY <1>1, InvHolds, PTL

\* The trace that later attempts read is that of the answer they were given.
THEOREM TracesFit == Spec => []TraceExplains
<1>1. Inv => TraceExplains
    BY DEF Inv
<1> QED  BY <1>1, InvHolds, PTL

\* run_tests is a test service as the workflow assumes it: whatever Docker, the
\* file system and the tests do, a call ends with one of the results that the
\* workflow knows or with an exception, and with a verdict on the tests, which
\* is a failure type that no exception of the runner has, only if they ran.
THEOREM RefinesService == Spec => ImplementsService
<1> QED
    BY InvHolds, InitImplements, StepImplements, PTL
       DEF Spec, ImplementsService, Service!Spec
=============================================================================
