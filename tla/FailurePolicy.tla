---------------------------- MODULE FailurePolicy ----------------------------
(***************************************************************************)
(* The failure vocabulary of the harness and the rules that decide, from   *)
(* the attempt counters and the failure history, whether a run repairs     *)
(* itself, ends, or is handed to a human (HITL).  Everything here is a     *)
(* pure function of state/failure_types.py, state/persistent_state.py,     *)
(* graph/routing.py and graph/hitl.py; the two runners share it.           *)
(***************************************************************************)
EXTENDS Integers, Sequences

CONSTANTS
    MaxRepair,      \* AttemptCounters.max_repair_attempts (3 in the code)
    MaxFailures,    \* PersistentState.MAX_FAILURES (32 in the code)
    RecentWindow    \* how many records should_interrupt looks at (5)

\* A repair loop needs room for the first attempt and one repair; the window
\* reaches past the record of a hand-over that raised.
ASSUME PolicyBounds ==
    /\ MaxRepair \in Nat /\ MaxRepair >= 2
    /\ MaxFailures \in Nat \ {0}
    /\ RecentWindow \in Nat /\ RecentWindow >= 2

-----------------------------------------------------------------------------
\* Failure types

FailureType == {"SYNTAX", "IMPORT_ERROR", "TYPE_ERROR", "TEST_ASSERTION",
                "SECURITY_VIOLATION", "RESOURCE_LIMIT", "INFRA_TIMEOUT",
                "SPEC_DRIFT", "UNKNOWN"}

HitlTriggers == {"SECURITY_VIOLATION", "INFRA_TIMEOUT", "SPEC_DRIFT"}

\* Exceptions are told apart only by the isinstance tests of from_exception;
\* "Other" is every class it does not name.
FailureOfClass ==
    [SyntaxError     |-> "SYNTAX",
     ImportError     |-> "IMPORT_ERROR",
     TypeError       |-> "TYPE_ERROR",
     AssertionError  |-> "TEST_ASSERTION",
     TimeoutError    |-> "INFRA_TIMEOUT",
     PermissionError |-> "SECURITY_VIOLATION",
     MemoryError     |-> "RESOURCE_LIMIT",
     Other           |-> "UNKNOWN"]

ExceptionClass == DOMAIN FailureOfClass

\* An exception, with whether its message spans several lines.
Exception == [cls : ExceptionClass, multiline : BOOLEAN]

\* Mutant: no final default.
FromExceptionNoDefault(e) ==
    IF e.cls = "Other" THEN "NONE" ELSE FailureOfClass[e.cls]

FromException(e) == FailureOfClass[e.cls]

\* The exceptions the services raise themselves.  A pydantic ValidationError
\* always prints on several lines.
OverwriteError     == [cls |-> "Other", multiline |-> FALSE]
PathTraversalError == [cls |-> "PermissionError", multiline |-> FALSE]
ValidationError    == [cls |-> "Other", multiline |-> TRUE]

-----------------------------------------------------------------------------
\* Failure records

Node == {"drift", "reviewer", "artifact", "workflow"}

FailureRecord == [type : FailureType, node : Node, attempt : Nat]

\* No failure yet (last_failure is None).
NoFailure == [type |-> "NONE", node |-> "none", attempt |-> 0]

\* Mutant: the trace path unchecked.
ValidRecordAnyTrace(attempt, multiline, traceUnderStorage) ==
    attempt >= 1 /\ ~multiline

\* The field constraints of FailureRecord: attempt >= 1, a one-line summary
\* and a trace path under storage/traces/.
ValidRecord(attempt, multiline, traceUnderStorage) ==
    attempt >= 1 /\ ~multiline /\ traceUnderStorage

\* Mutant: the slice keeps the oldest records.
RememberOldest(h, r) ==
    IF Len(h) >= MaxFailures THEN SubSeq(Append(h, r), 1, MaxFailures)
                             ELSE Append(h, r)

\* record_failure keeps the MaxFailures most recent records.
RememberFailure(h, r) ==
    IF Len(h) >= MaxFailures
    THEN SubSeq(Append(h, r), Len(h) + 2 - MaxFailures, Len(h) + 1)
    ELSE Append(h, r)

-----------------------------------------------------------------------------
\* Attempt counters

CountedNode == {"planner", "engineer", "reviewer", "sandbox"}

Counters == [planner : Nat, engineer : Nat, reviewer : Nat, sandbox : Nat,
             total : Nat]

ZeroCounters == [planner |-> 0, engineer |-> 0, reviewer |-> 0,
                 sandbox |-> 0, total |-> 0]

CountNode(c, node) == [c EXCEPT ![node] = @ + 1]

Bump(c, node) == CountNode(CountNode(c, node), "total")

\* Mutant: one attempt too many.
ExceededTooLate(c) == \E n \in CountedNode : c[n] > MaxRepair

Exceeded(c) == \E n \in CountedNode : c[n] >= MaxRepair

-----------------------------------------------------------------------------
\* Escalation

RecentTrigger(h) ==
    \E i \in DOMAIN h : i > Len(h) - RecentWindow /\ h[i].type \in HitlTriggers

ShouldInterrupt(c, h) == Exceeded(c) \/ RecentTrigger(h)

\* Mutant: the total counter is compared instead of those of the nodes.
DecideByTotal(verdict, ftype, c) ==
    IF verdict = "PASS" THEN "end"
    ELSE IF ftype \in HitlTriggers \/ c.total >= MaxRepair THEN "hitl"
    ELSE "planner"

DecideAfterReview(verdict, ftype, c) ==
    IF verdict = "PASS" THEN "end"
    ELSE IF ftype \in HitlTriggers \/ Exceeded(c) THEN "hitl"
    ELSE "planner"
=============================================================================
