---------------------------- MODULE CircuitBreaker ----------------------------
(***************************************************************************)
(* backend/app/agents/circuit_breaker.py.  Every method body runs under    *)
(* an asyncio lock and never suspends while it holds it, so each is one    *)
(* step: an operator from the breaker before it to the breaker after it.   *)
(* The clock is one bit: cooled says that the cooldown which began when    *)
(* the breaker opened has elapsed.                                         *)
(***************************************************************************)
EXTENDS Naturals

CONSTANT Threshold   \* openrouter_circuit_failure_threshold

ASSUME ThresholdAssumption == Threshold \in Nat \ {0}

\* The code only compares the failure counter with the threshold and resets
\* it, so here it stops growing at the threshold.
Breaker == [state: {"CLOSED", "OPEN", "HALF_OPEN"}, failures: 0 .. Threshold,
            cooled: BOOLEAN, probe: BOOLEAN]

ClosedBreaker == [state |-> "CLOSED", failures |-> 0, cooled |-> FALSE, probe |-> FALSE]

\* acquire raises AI_CIRCUIT_OPEN.
Refuses(b) ==
    \/ b.state = "OPEN" /\ ~b.cooled
    \/ b.state # "CLOSED" /\ b.probe

\* acquire returns: the first call after the cooldown is the half-open probe.
Acquired(b) ==
    IF b.state = "CLOSED" THEN b ELSE [b EXCEPT !.state = "HALF_OPEN", !.probe = TRUE]

AfterSuccess(b) == ClosedBreaker

FaultCountsOnly(b) ==
    [b EXCEPT !.failures = IF b.failures < Threshold THEN b.failures + 1 ELSE Threshold,
              !.probe = FALSE]

AfterFailure(b) ==
    LET failures == IF b.failures < Threshold THEN b.failures + 1 ELSE Threshold IN
    IF b.state = "HALF_OPEN" \/ failures = Threshold
      THEN [state |-> "OPEN", failures |-> failures, cooled |-> FALSE, probe |-> FALSE]
      ELSE [b EXCEPT !.failures = failures, !.probe = FALSE]

AfterIgnoredFailure(b) == [b EXCEPT !.probe = FALSE]
===============================================================================
