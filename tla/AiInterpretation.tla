--------------------------- MODULE AiInterpretation ---------------------------
(***************************************************************************)
(* AgentInterpretationService.interpret (backend/app/agents/service.py):   *)
(* requests of one process that share the single-flight lock table and the *)
(* result cache of cache.py, the daily budget and the circuit breaker.     *)
(*                                                                         *)
(* All requests are coroutines of one event loop.  A coroutine runs alone  *)
(* until it really suspends - waiting for a key's lock, in a thread of the *)
(* cache repository, in the provider call - and locks whose critical       *)
(* section never suspends are never contended.  An action is therefore     *)
(* what runs between two suspension points: reserving the budget and       *)
(* acquiring the breaker are one step, and so are leaving the flight and   *)
(* reporting a failure to the breaker.                                     *)
(***************************************************************************)
EXTENDS CircuitBreaker, DailyBudget, FiniteSets

CONSTANTS
    Requests,      \* coroutines of POST /agent/interpret
    Keys,          \* cache ids: requests with one id are interchangeable
    Locks,         \* the asyncio.Lock objects that the table can hold
    NoLock,        \* no lock object
    CacheEnabled,  \* ai_cache_enabled, with an HMAC secret
    Estimate,      \* the tokens reserved for one interpretation
    Usages,        \* what a provider may report for it
    MaxDay         \* bound on the number of midnights

ASSUME RequestsAssumption ==
    /\ IsFiniteSet(Requests)
    /\ NoLock \notin Locks
    /\ CacheEnabled \in BOOLEAN

ASSUME UsageAssumption ==
    /\ Estimate \in Nat
    /\ Usages \subseteq Nat \cup {NoUsage}
    /\ MaxDay \in Nat

VARIABLES
    request,   \* where each coroutine is suspended, with its local state
    table,     \* _singleflight and _singleflight_users: a lock and its users, per key
    cached,    \* keys with a valid entry in the result cache
    circuit,   \* the circuit breaker
    budget,    \* the counters of the daily budget
    today,     \* the date
    spent,     \* history: tokens of the calls started today that gave an answer
    carried    \* history: a call was in flight at the last midnight

vars == <<request, table, cached, circuit, budget, today, spent, carried>>

-------------------------------------------------------------------------------
Days == 0 .. MaxDay

Idle == [step |-> "idle"]

Request ==
    {Idle}
    \cup [step: {"waiting", "looking", "storing"}, key: Keys, lock: Locks]
    \cup [step: {"ready"}, key: Keys, lock: Locks \cup {NoLock}]
    \cup [step: {"calling"}, key: Keys, lock: Locks \cup {NoLock}, day: Days]

TypeOK ==
    /\ request \in [Requests -> Request]
    /\ table \in [Keys -> [lock: Locks \cup {NoLock}, users: Nat]]
    /\ cached \subseteq Keys
    /\ circuit \in Breaker
    /\ budget \in Counters
    /\ today \in Days
    /\ spent \in Nat
    /\ carried \in BOOLEAN

Init ==
    /\ request = [p \in Requests |-> Idle]
    /\ table = [k \in Keys |-> [lock |-> NoLock, users |-> 0]]
    /\ cached \in SUBSET Keys
    /\ circuit = ClosedBreaker
    /\ budget = FreshCounters(0)
    /\ today = 0
    /\ spent = 0
    /\ carried = FALSE

-------------------------------------------------------------------------------
(* The single flight.                                                      *)

\* p is registered as a user of the lock of k: inside singleflight(k).
InFlight(p, k) == request[p].step # "idle" /\ request[p].key = k /\ request[p].lock # NoLock

\* p has acquired lock l and not released it.
Holds(p, l) ==
    request[p].step \in {"looking", "ready", "calling", "storing"} /\ request[p].lock = l

\* setdefault: the lock of the table, or a new object referenced nowhere.
LockFor(k) ==
    IF table[k].lock # NoLock THEN {table[k].lock}
    ELSE Locks \ ({table[j].lock : j \in Keys}
                  \cup {request[p].lock : p \in {q \in Requests : request[q].step # "idle"}})

Join(k, l) == table' = [table EXCEPT ![k] = [lock |-> l, users |-> table[k].users + 1]]

\* The finally clause: the last user removes the lock object from the table.
FaultDropOnRelease(entry) == [lock |-> NoLock, users |-> 0]

FaultKeepsTheLock(entry) == [lock |-> entry.lock, users |-> entry.users - 1]

WithoutOne(entry) ==
    IF entry.users <= 1 THEN [lock |-> NoLock, users |-> 0]
    ELSE [lock |-> entry.lock, users |-> entry.users - 1]

LeaveFlight(p) ==
    LET k == request[p].key IN
    table' = IF request[p].lock = NoLock THEN table
             ELSE [table EXCEPT ![k] = WithoutOne(table[k])]

Goto(p, r) == request' = [request EXCEPT ![p] = r]

\* The request is answered, with a result or an error, and is gone.
Answer(p) == Goto(p, Idle) /\ LeaveFlight(p)

Arrive(p, k) ==
    /\ request[p] = Idle
    /\ IF CacheEnabled
         THEN \E l \in LockFor(k) :
                 /\ Join(k, l)
                 /\ Goto(p, [step |-> "waiting", key |-> k, lock |-> l])
         ELSE /\ Goto(p, [step |-> "ready", key |-> k, lock |-> NoLock])
              /\ UNCHANGED table
    /\ UNCHANGED <<cached, circuit, budget, today, spent, carried>>

\* An input that is too large or raw MT text is refused before anything else,
\* and reported to the breaker as an ignored failure.
RefuseInput(p) ==
    /\ request[p] = Idle
    /\ circuit' = AfterIgnoredFailure(circuit)
    /\ UNCHANGED <<request, table, cached, budget, today, spent, carried>>

AcquireLock(p) ==
    /\ request[p].step = "waiting"
    /\ \A q \in Requests : ~Holds(q, request[p].lock)
    /\ Goto(p, [request[p] EXCEPT !.step = "looking"])
    /\ UNCHANGED <<table, cached, circuit, budget, today, spent, carried>>

\* CacheStampedeTimeout becomes AI_PROVIDER_UNAVAILABLE, a code that affects
\* the circuit.
StampedeTimeout(p) ==
    /\ request[p].step = "waiting"
    /\ \E q \in Requests : Holds(q, request[p].lock)
    /\ Answer(p)
    /\ circuit' = AfterFailure(circuit)
    /\ UNCHANGED <<cached, budget, today, spent, carried>>

-------------------------------------------------------------------------------
(* The cache.                                                              *)
Hit(p) ==
    /\ request[p].step = "looking"
    /\ request[p].key \in cached
    /\ Answer(p)
    /\ UNCHANGED <<cached, circuit, budget, today, spent, carried>>

\* No entry, or one that no longer validates, which invalidate deletes.
Miss(p) ==
    /\ request[p].step = "looking"
    /\ Goto(p, [request[p] EXCEPT !.step = "ready"])
    /\ cached' = cached \ {request[p].key}
    /\ UNCHANGED <<table, circuit, budget, today, spent, carried>>

\* AiCachePersistenceError: the request goes on outside the flight.
LookupFails(p) ==
    /\ request[p].step = "looking"
    /\ LeaveFlight(p)
    /\ Goto(p, [step |-> "ready", key |-> request[p].key, lock |-> NoLock])
    /\ UNCHANGED <<cached, circuit, budget, today, spent, carried>>

\* save: a failed write is logged and the answer given all the same.
Store(p, saved) ==
    /\ request[p].step = "storing"
    /\ cached' = IF saved THEN cached \cup {request[p].key} ELSE cached
    /\ Answer(p)
    /\ UNCHANGED <<circuit, budget, today, spent, carried>>

\* The entry's time to live runs out.
Expire(k) ==
    /\ k \in cached
    /\ cached' = cached \ {k}
    /\ UNCHANGED <<request, table, circuit, budget, today, spent, carried>>

-------------------------------------------------------------------------------
(* The live interpretation.                                                *)
OverBudget(p) ==
    /\ request[p].step = "ready"
    /\ ~Affords(Rolled(budget, today), Estimate)
    /\ budget' = Rolled(budget, today)
    /\ circuit' = AfterIgnoredFailure(circuit)
    /\ Answer(p)
    /\ UNCHANGED <<cached, today, spent, carried>>

\* AI_CIRCUIT_OPEN is raised after the reservation, which is kept, and is
\* reported to the breaker as an ignored failure.
CircuitRefuses(p) ==
    /\ request[p].step = "ready"
    /\ Affords(Rolled(budget, today), Estimate)
    /\ Refuses(circuit)
    /\ budget' = Reserved(Rolled(budget, today), Estimate)
    /\ circuit' = AfterIgnoredFailure(circuit)
    /\ Answer(p)
    /\ UNCHANGED <<cached, today, spent, carried>>

StartCall(p) ==
    /\ request[p].step = "ready"
    /\ Affords(Rolled(budget, today), Estimate)
    /\ ~Refuses(circuit)
    /\ budget' = Reserved(Rolled(budget, today), Estimate)
    /\ circuit' = Acquired(circuit)
    /\ Goto(p, [step |-> "calling", key |-> request[p].key, lock |-> request[p].lock,
                day |-> today])
    /\ UNCHANGED <<table, cached, today, spent, carried>>

CallSucceeds(p, usage) ==
    /\ request[p].step = "calling"
    /\ circuit' = AfterSuccess(circuit)
    /\ budget' = Reconciled(Rolled(budget, today), Estimate, usage)
    /\ spent' = IF usage # NoUsage /\ request[p].day = today THEN spent + usage ELSE spent
    /\ Goto(p, IF request[p].lock = NoLock THEN Idle
               ELSE [step |-> "storing", key |-> request[p].key, lock |-> request[p].lock])
    /\ UNCHANGED <<table, cached, today, carried>>

\* A provider error: rate limits, network errors and timeouts of the provider
\* affect the circuit, refusals and invalid answers do not.  Neither gives
\* the reservation back.
CallFails(p, affectsCircuit) ==
    /\ request[p].step = "calling"
    /\ circuit' = IF affectsCircuit THEN AfterFailure(circuit) ELSE AfterIgnoredFailure(circuit)
    /\ Answer(p)
    /\ UNCHANGED <<cached, budget, today, spent, carried>>

\* The provider's answer cannot become a scenario, a currency in lower case
\* for one: the request fails between success and reconcile, and what it has
\* really spent is never counted.
UnusableAnswer(p) ==
    /\ request[p].step = "calling"
    /\ circuit' = AfterIgnoredFailure(AfterSuccess(circuit))
    /\ Answer(p)
    /\ UNCHANGED <<cached, budget, today, spent, carried>>

FaultWaitsForever(p) ==
    /\ FALSE
    /\ Answer(p)
    /\ UNCHANGED <<cached, circuit, budget, today, spent, carried>>

\* wait_for: the timeout of the whole operation.
CallTimesOut(p) ==
    /\ request[p].step = "calling"
    /\ circuit' = AfterFailure(circuit)
    /\ Answer(p)
    /\ UNCHANGED <<cached, budget, today, spent, carried>>

\* An exception no handler catches, a database error of touch or delete or a
\* protocol error of the HTTP client: the breaker hears nothing of it.
Crash(p) ==
    /\ request[p].step \in {"looking", "calling"}
    /\ Answer(p)
    /\ UNCHANGED <<cached, circuit, budget, today, spent, carried>>

-------------------------------------------------------------------------------
(* The clock.                                                              *)
CoolDown ==
    /\ circuit.state = "OPEN"
    /\ ~circuit.cooled
    /\ circuit' = [circuit EXCEPT !.cooled = TRUE]
    /\ UNCHANGED <<request, table, cached, budget, today, spent, carried>>

Midnight ==
    /\ today < MaxDay
    /\ today' = today + 1
    /\ spent' = 0
    /\ carried' = \E p \in Requests : request[p].step = "calling"
    /\ UNCHANGED <<request, table, cached, circuit, budget>>

Next ==
    \/ \E p \in Requests :
          \/ RefuseInput(p) \/ AcquireLock(p) \/ StampedeTimeout(p)
          \/ Hit(p) \/ Miss(p) \/ LookupFails(p)
          \/ OverBudget(p) \/ CircuitRefuses(p) \/ StartCall(p)
          \/ UnusableAnswer(p) \/ CallTimesOut(p) \/ Crash(p)
          \/ \E k \in Keys : Arrive(p, k)
          \/ \E usage \in Usages : CallSucceeds(p, usage)
          \/ \E affectsCircuit \in BOOLEAN : CallFails(p, affectsCircuit)
          \/ \E saved \in BOOLEAN : Store(p, saved)
    \/ \E k \in Keys : Expire(k)
    \/ CoolDown
    \/ Midnight

Spec == Init /\ [][Next]_vars

\* The event loop runs every coroutine that can run, threads of the database
\* end, and both waits have a timeout.  Nothing is assumed of the provider.
Answering(p) ==
    \/ AcquireLock(p) \/ StampedeTimeout(p)
    \/ Hit(p) \/ Miss(p) \/ LookupFails(p)
    \/ OverBudget(p) \/ CircuitRefuses(p) \/ StartCall(p)
    \/ CallTimesOut(p)
    \/ \E saved \in BOOLEAN : Store(p, saved)

FairSpec == Spec /\ \A p \in Requests : WF_vars(Answering(p))

-------------------------------------------------------------------------------
\* Single flight: one request at a time looks up, calls the provider for and
\* stores a key, whichever lock objects the table drops and creates again.
OneHolderPerKey ==
    \A p, q \in Requests, k \in Keys :
        /\ InFlight(p, k) /\ request[p].step # "waiting"
        /\ InFlight(q, k) /\ request[q].step # "waiting"
        => p = q

\* The provider is never paid for an answer that the cache holds: while a
\* request in a flight calls it for a key, nobody else has stored that key.
CallsMissedTheCache ==
    \A p \in Requests, k \in Keys :
        InFlight(p, k) /\ request[p].step \in {"ready", "calling", "storing"} => k \notin cached

\* The table holds a lock exactly while some request uses the key: no entry
\* is left behind when requests time out, fail or leave the flight early.
TableHoldsLiveKeys ==
    \A k \in Keys : table[k].lock # NoLock <=> \E p \in Requests : InFlight(p, k)

\* The calls in flight that were started today.
Calls == {p \in Requests : request[p].step = "calling" /\ request[p].day = today}

\* A call starts only if what today's answers have cost leaves room for its
\* estimate and for that of every call in flight, whatever mixture of calls
\* is in flight, refused and failed - on any day whose midnight no call in
\* flight crossed.
HardStopWithinADay ==
    [][\A p \in Requests :
          StartCall(p) /\ ~carried =>
              spent + Estimate * (Cardinality(Calls) + 1) <= TokenLimit]_vars

\* The breaker is closed exactly while failures since the last success stay
\* below the threshold, also when calls admitted before it opened end late.
ClosedBelowThreshold == circuit.state = "CLOSED" <=> circuit.failures < Threshold

\* Every request is answered, even if the provider never answers and the
\* lock of its key is handed to others again and again.
EveryRequestIsAnswered ==
    \A p \in Requests : request[p].step # "idle" ~> request[p].step = "idle"

\* docs/ai-assistance.md: "Hard stop on tokens per day".  A call reserved
\* before midnight is reconciled against the next day's counter, which loses
\* tokens that day's calls have reserved.
HardStopOnTokens ==
    [][\A p \in Requests : StartCall(p) => spent + Estimate <= TokenLimit]_vars

===============================================================================
