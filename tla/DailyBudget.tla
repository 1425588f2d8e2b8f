----------------------------- MODULE DailyBudget ------------------------------
(***************************************************************************)
(* backend/app/agents/budgets.py: the counters of one process for one day. *)
(* As in the breaker, a method never suspends inside its lock and is one   *)
(* operator from the counters before it to the counters after it.          *)
(***************************************************************************)
EXTENDS Integers

CONSTANTS
    RequestLimit,   \* openrouter_daily_request_budget
    TokenLimit,     \* openrouter_daily_token_budget
    NoUsage         \* the provider reported no token usage

ASSUME LimitsAssumption ==
    /\ RequestLimit \in Nat
    /\ TokenLimit \in Nat
    /\ NoUsage \notin Nat

Counters == [day: Nat, requests: Nat, tokens: Nat]

FreshCounters(today) == [day |-> today, requests |-> 0, tokens |-> 0]

\* _roll_day: the first call of a day clears the counters of the day before.
Rolled(c, today) == IF c.day = today THEN c ELSE FreshCounters(today)

Affords(c, estimate) ==
    /\ c.requests + 1 <= RequestLimit
    /\ c.tokens + estimate <= TokenLimit

FaultReservesNoTokens(c, estimate) == [c EXCEPT !.requests = @ + 1]

Reserved(c, estimate) ==
    [c EXCEPT !.requests = @ + 1, !.tokens = @ + estimate]

FaultNoFloor(c, estimate, usage) ==
    IF usage = NoUsage THEN c ELSE [c EXCEPT !.tokens = (@ + usage) - estimate]

\* max(0, tokens - estimate + actual); the estimate stays when usage is None.
Reconciled(c, estimate, usage) ==
    IF usage = NoUsage THEN c
    ELSE [c EXCEPT !.tokens = IF @ + usage < estimate THEN 0 ELSE (@ + usage) - estimate]
===============================================================================
