---------------------------- MODULE TestService ----------------------------
(***************************************************************************)
(* What a caller of run_tests may rely on, however the tests are run: each *)
(* call is answered once, with one of the results that the workflow        *)
(* expects or with an exception, and "passed" only if the tests of this    *)
(* very call ran and passed.                                               *)
(***************************************************************************)
CONSTANTS FailureType, Verdicts

Pending == [passed |-> FALSE, ftype |-> "PENDING"]
Raised  == [passed |-> FALSE, ftype |-> "RAISED"]
Passed  == [passed |-> TRUE, ftype |-> "NONE"]
Failed(ft) == [passed |-> FALSE, ftype |-> ft]

\* What the tests of the call did, as far as the runner has seen it: nothing
\* yet, pass, fail, or not return in time.
Tests == {"none", "passed", "failed", "late"}

VARIABLES busy, tests, answer

vars == <<busy, tests, answer>>

Init == ~busy /\ tests = "none" /\ answer = Pending

Call ==
    /\ ~busy /\ busy'
    /\ tests' = "none"
    /\ answer' = Pending

RunTests ==
    /\ busy /\ tests = "none"
    /\ tests' \in Tests \ {"none"}
    /\ UNCHANGED <<busy, answer>>

\* A verdict on the tests needs tests that failed; SPEC_DRIFT is not the
\* sandbox's to find; any other failure may keep the tests from being reported.
Answer ==
    /\ busy /\ ~busy'
    /\ \/ tests = "passed" /\ answer' = Passed
       \/ \E ft \in FailureType \ {"SPEC_DRIFT"} :
              /\ ft \in Verdicts => tests = "failed"
              /\ answer' = Failed(ft)
       \/ answer' = Raised
    /\ UNCHANGED tests

Next == Call \/ RunTests \/ Answer

Spec == Init /\ [][Next]_vars
=============================================================================
