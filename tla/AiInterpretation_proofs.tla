------------------------ MODULE AiInterpretation_proofs -------------------------
(* Theorems about interpret, for every number of requests, keys and locks, *)
(* every threshold, limit and estimate, and every number of midnights.     *)
EXTENDS AiInterpretation, FiniteSetTheorems, TLAPS

\* The step of a request tells which of the request records it is.
LEMMA RequestShape ==
    ASSUME NEW r \in Request
    PROVE  /\ r.step \in {"idle", "waiting", "looking", "ready", "calling", "storing"}
           /\ r.step = "idle" <=> r = Idle
           /\ r.step \in {"waiting", "looking", "storing"} =>
                r \in [step: {"waiting", "looking", "storing"}, key: Keys, lock: Locks]
           /\ r.step = "ready" =>
                r \in [step: {"ready"}, key: Keys, lock: Locks \cup {NoLock}]
           /\ r.step = "calling" =>
                r \in [step: {"calling"}, key: Keys, lock: Locks \cup {NoLock}, day: Days]
  BY DEF Request, Idle

\* Every request that is not idle has a key and a lock, or no lock.
LEMMA BusyRequest ==
    ASSUME NEW r \in Request, r.step # "idle"
    PROVE  r.key \in Keys /\ r.lock \in Locks \cup {NoLock}
  BY RequestShape

-------------------------------------------------------------------------------
(* Types.                                                                  *)

LEMMA BreakerType ==
    ASSUME NEW b \in Breaker
    PROVE  /\ Acquired(b) \in Breaker
           /\ AfterSuccess(b) \in Breaker
           /\ AfterFailure(b) \in Breaker
           /\ AfterIgnoredFailure(b) \in Breaker
<1>1. Acquired(b) \in Breaker /\ AfterIgnoredFailure(b) \in Breaker
  BY DEF Breaker, Acquired, AfterIgnoredFailure
<1>2. AfterSuccess(b) \in Breaker
  BY ThresholdAssumption DEF Breaker, AfterSuccess, ClosedBreaker
<1>3. AfterFailure(b) \in Breaker
  <2> DEFINE failures == IF b.failures < Threshold THEN b.failures + 1 ELSE Threshold
  <2>1. failures \in 0 .. Threshold
    BY ThresholdAssumption DEF Breaker
  <2>2. AfterFailure(b) = IF b.state = "HALF_OPEN" \/ failures = Threshold
          THEN [state |-> "OPEN", failures |-> failures, cooled |-> FALSE, probe |-> FALSE]
          ELSE [b EXCEPT !.failures = failures, !.probe = FALSE]
    BY DEF AfterFailure
  <2> HIDE DEF failures
  <2>3. [state |-> "OPEN", failures |-> failures, cooled |-> FALSE, probe |-> FALSE] \in Breaker
    BY <2>1 DEF Breaker
  <2>4. [b EXCEPT !.failures = failures] \in Breaker
    BY <2>1 DEF Breaker
  <2>5. \A c \in Breaker : [c EXCEPT !.probe = FALSE] \in Breaker
    BY DEF Breaker
  <2>6. [b EXCEPT !.failures = failures, !.probe = FALSE] \in Breaker
    BY <2>4, <2>5
  <2> QED
    BY <2>2, <2>3, <2>6
<1> QED
  BY <1>1, <1>2, <1>3

LEMMA BudgetType ==
    ASSUME NEW c \in Counters
    PROVE  /\ \A day \in Days : Rolled(c, day) \in Counters
           /\ Reserved(c, Estimate) \in Counters
           /\ \A usage \in Usages : Reconciled(c, Estimate, usage) \in Counters
<1>1. ASSUME NEW day \in Days
      PROVE  Rolled(c, day) \in Counters
  BY UsageAssumption DEF Counters, Days, Rolled, FreshCounters
<1>2. Reserved(c, Estimate) \in Counters
  <2>1. [c EXCEPT !.requests = @ + 1] \in Counters
    BY DEF Counters
  <2>2. \A d \in Counters : [d EXCEPT !.tokens = @ + Estimate] \in Counters
    BY UsageAssumption DEF Counters
  <2> QED
    BY <2>1, <2>2 DEF Reserved
<1>3. ASSUME NEW usage \in Usages
      PROVE  Reconciled(c, Estimate, usage) \in Counters
  <2>1. CASE usage = NoUsage
    BY <2>1 DEF Reconciled
  <2>2. CASE usage # NoUsage
    <3>1. usage \in Nat /\ Estimate \in Nat /\ c.tokens \in Nat
      BY <2>2, UsageAssumption DEF Counters
    <3>2. (IF c.tokens + usage < Estimate THEN 0 ELSE (c.tokens + usage) - Estimate) \in Nat
      BY <3>1
    <3> QED
      BY <2>2, <3>2 DEF Reconciled, Counters
  <2> QED
    BY <2>1, <2>2
<1> QED
  BY <1>1, <1>2, <1>3

LEMMA GotoType ==
    ASSUME TypeOK, NEW p \in Requests, NEW r \in Request, Goto(p, r)
    PROVE  request' \in [Requests -> Request]
  BY DEF TypeOK, Goto

LEMMA LeaveType ==
    ASSUME TypeOK, NEW p \in Requests, request[p] # Idle, LeaveFlight(p)
    PROVE  table' \in [Keys -> [lock: Locks \cup {NoLock}, users: Nat]]
<1>1. CASE request[p].lock = NoLock
  BY <1>1 DEF TypeOK, LeaveFlight
<1>2. CASE request[p].lock # NoLock
  <2>1. request[p].key \in Keys
    BY BusyRequest, RequestShape DEF TypeOK
  <2>2. WithoutOne(table[request[p].key]) \in [lock: Locks \cup {NoLock}, users: Nat]
    BY <2>1 DEF TypeOK, WithoutOne
  <2> QED
    BY <1>2, <2>1, <2>2 DEF TypeOK, LeaveFlight
<1> QED
  BY <1>1, <1>2

LEMMA AnswerType ==
    ASSUME TypeOK, NEW p \in Requests, request[p] # Idle, Answer(p)
    PROVE  /\ request' \in [Requests -> Request]
           /\ table' \in [Keys -> [lock: Locks \cup {NoLock}, users: Nat]]
<1>1. Idle \in Request
  BY DEF Request
<1> QED
  BY <1>1, GotoType, LeaveType DEF Answer

LEMMA InitType == Init => TypeOK
<1> SUFFICES ASSUME Init
             PROVE  TypeOK
  OBVIOUS
<1>1. circuit \in Breaker
  BY ThresholdAssumption DEF Init, Breaker, ClosedBreaker
<1>2. today \in Days /\ spent \in Nat
  BY UsageAssumption DEF Init, Days
<1>6. carried \in BOOLEAN
  BY DEF Init
<1>5. budget \in Counters
  BY DEF Init, Counters, FreshCounters
<1>3. request \in [Requests -> Request]
  <2>1. Idle \in Request
    BY DEF Request
  <2> QED
    BY <2>1 DEF Init
<1>4. table \in [Keys -> [lock: Locks \cup {NoLock}, users: Nat]] /\ cached \subseteq Keys
  BY DEF Init
<1> QED
  BY <1>1, <1>2, <1>3, <1>4, <1>5, <1>6 DEF TypeOK

\* Every step keeps the types.
LEMMA StepType == TypeOK /\ [Next]_vars => TypeOK'
<1> SUFFICES ASSUME TypeOK, [Next]_vars
             PROVE  TypeOK'
  OBVIOUS
<1> USE DEF TypeOK
<1>a. circuit \in Breaker /\ budget \in Counters /\ today \in Days /\ spent \in Nat
  OBVIOUS
<1>b. /\ AfterIgnoredFailure(circuit) \in Breaker /\ AfterFailure(circuit) \in Breaker
      /\ AfterSuccess(circuit) \in Breaker /\ Acquired(circuit) \in Breaker
  BY <1>a, BreakerType
<1>c. Rolled(budget, today) \in Counters
  BY <1>a, BudgetType
<1>1. ASSUME NEW p \in Requests, NEW k \in Keys, Arrive(p, k)
      PROVE  TypeOK'
  <2>1. CASE CacheEnabled
    <3>1. PICK l \in LockFor(k) :
            /\ Join(k, l)
            /\ Goto(p, [step |-> "waiting", key |-> k, lock |-> l])
      BY <1>1, <2>1 DEF Arrive
    <3>2. l \in Locks
      BY DEF LockFor
    <3>3. [step |-> "waiting", key |-> k, lock |-> l] \in Request
      BY <3>2 DEF Request
    <3>4. table' \in [Keys -> [lock: Locks \cup {NoLock}, users: Nat]]
      BY <3>1, <3>2 DEF Join
    <3> QED
      BY <1>1, <3>1, <3>3, <3>4, GotoType DEF Arrive
  <2>2. CASE ~CacheEnabled
    <3>1. [step |-> "ready", key |-> k, lock |-> NoLock] \in Request
      BY DEF Request
    <3> QED
      BY <1>1, <2>2, <3>1, GotoType DEF Arrive
  <2> QED
    BY <2>1, <2>2
<1>2. ASSUME NEW p \in Requests, RefuseInput(p)
      PROVE  TypeOK'
  BY <1>2, <1>b DEF RefuseInput
<1>3. ASSUME NEW p \in Requests, AcquireLock(p)
      PROVE  TypeOK'
  <2>1. [request[p] EXCEPT !.step = "looking"] \in Request
    BY <1>3, RequestShape DEF AcquireLock, Request
  <2> QED
    BY <1>3, <2>1, GotoType DEF AcquireLock
<1>4. ASSUME NEW p \in Requests, StampedeTimeout(p)
      PROVE  TypeOK'
  BY <1>4, <1>b, AnswerType DEF StampedeTimeout, Idle
<1>5. ASSUME NEW p \in Requests, Hit(p)
      PROVE  TypeOK'
  BY <1>5, AnswerType DEF Hit, Idle
<1>6. ASSUME NEW p \in Requests, Miss(p)
      PROVE  TypeOK'
  <2>1. [request[p] EXCEPT !.step = "ready"] \in Request
    BY <1>6, RequestShape DEF Miss, Request
  <2> QED
    BY <1>6, <2>1, GotoType DEF Miss
<1>7. ASSUME NEW p \in Requests, LookupFails(p)
      PROVE  TypeOK'
  <2>1. [step |-> "ready", key |-> request[p].key, lock |-> NoLock] \in Request
    BY <1>7, BusyRequest DEF LookupFails, Request
  <2> QED
    BY <1>7, <2>1, GotoType, LeaveType DEF LookupFails, Idle
<1>8. ASSUME NEW p \in Requests, NEW saved \in BOOLEAN, Store(p, saved)
      PROVE  TypeOK'
  <2>1. cached' \subseteq Keys
    BY <1>8, BusyRequest DEF Store
  <2> QED
    BY <1>8, <2>1, AnswerType DEF Store, Idle
<1>9. ASSUME NEW k \in Keys, Expire(k)
      PROVE  TypeOK'
  BY <1>9 DEF Expire
<1>10. ASSUME NEW p \in Requests, OverBudget(p)
       PROVE  TypeOK'
  <2>1. Rolled(budget, today) \in Counters
    BY <1>c
  <2> QED
    BY <1>10, <1>b, <2>1, AnswerType DEF OverBudget, Idle
<1>11. ASSUME NEW p \in Requests, CircuitRefuses(p)
       PROVE  TypeOK'
  <2>1. Reserved(Rolled(budget, today), Estimate) \in Counters
    BY <1>c, BudgetType
  <2> QED
    BY <1>11, <1>b, <2>1, AnswerType DEF CircuitRefuses, Idle
<1>12. ASSUME NEW p \in Requests, StartCall(p)
       PROVE  TypeOK'
  <2>1. Reserved(Rolled(budget, today), Estimate) \in Counters
    BY <1>c, BudgetType
  <2>2. request[p].key \in Keys /\ request[p].lock \in Locks \cup {NoLock}
    BY <1>12, BusyRequest DEF StartCall
  <2>3. [step |-> "calling", key |-> request[p].key, lock |-> request[p].lock,
         day |-> today] \in Request
    BY <2>2 DEF Request
  <2> QED
    BY <1>12, <1>b, <2>1, <2>3, GotoType DEF StartCall
<1>13. ASSUME NEW p \in Requests, NEW usage \in Usages, CallSucceeds(p, usage)
       PROVE  TypeOK'
  <2>1. Rolled(budget, today) \in Counters
    BY <1>c
  <2>2. Reconciled(Rolled(budget, today), Estimate, usage) \in Counters
    BY <2>1, BudgetType
  <2>3. spent' \in Nat
    BY <1>13, UsageAssumption DEF CallSucceeds
  <2>4. request[p].key \in Keys /\ request[p].lock \in Locks \cup {NoLock}
    BY <1>13, BusyRequest DEF CallSucceeds
  <2>5. (IF request[p].lock = NoLock THEN Idle
         ELSE [step |-> "storing", key |-> request[p].key, lock |-> request[p].lock]) \in Request
    BY <2>4 DEF Request
  <2> QED
    BY <1>13, <1>b, <2>2, <2>3, <2>5, GotoType DEF CallSucceeds
<1>14. ASSUME NEW p \in Requests, NEW affectsCircuit \in BOOLEAN, CallFails(p, affectsCircuit)
       PROVE  TypeOK'
  BY <1>14, <1>b, AnswerType DEF CallFails, Idle
<1>15. ASSUME NEW p \in Requests, CallTimesOut(p)
       PROVE  TypeOK'
  BY <1>15, <1>b, AnswerType DEF CallTimesOut, Idle
<1>16. ASSUME NEW p \in Requests, Crash(p)
       PROVE  TypeOK'
  BY <1>16, AnswerType DEF Crash, Idle
<1>20. ASSUME NEW p \in Requests, UnusableAnswer(p)
       PROVE  TypeOK'
  <2>1. AfterIgnoredFailure(AfterSuccess(circuit)) \in Breaker
    BY <1>b, BreakerType
  <2> QED
    BY <1>20, <2>1, AnswerType DEF UnusableAnswer, Idle
<1>17. CASE CoolDown
  BY <1>17 DEF CoolDown, Breaker
<1>18. CASE Midnight
  BY <1>18, UsageAssumption DEF Midnight, Days
<1>19. CASE UNCHANGED vars
  BY <1>19 DEF vars
<1> QED
  BY <1>1, <1>2, <1>3, <1>4, <1>5, <1>6, <1>7, <1>8, <1>9, <1>10, <1>11, <1>12, <1>13,
     <1>14, <1>15, <1>16, <1>17, <1>18, <1>19, <1>20 DEF Next

\* The type invariant, for every value of the constants.
THEOREM TypeCorrect == Spec => []TypeOK
<1> QED
  BY InitType, StepType, PTL DEF Spec

-------------------------------------------------------------------------------
(* The breaker.                                                            *)

\* Failures reach the threshold exactly when the breaker is not closed.
LEMMA InitBreaker == Init => ClosedBelowThreshold
  BY ThresholdAssumption DEF Init, ClosedBreaker, ClosedBelowThreshold

LEMMA BreakerKeepsThreshold ==
    ASSUME NEW b \in Breaker, b.state = "CLOSED" <=> b.failures < Threshold
    PROVE  \A c \in {Acquired(b), AfterSuccess(b), AfterFailure(b), AfterIgnoredFailure(b)} :
              c.state = "CLOSED" <=> c.failures < Threshold
<1>1. LET c == Acquired(b) IN c.state = "CLOSED" <=> c.failures < Threshold
  BY DEF Acquired, Breaker
<1>2. LET c == AfterSuccess(b) IN c.state = "CLOSED" <=> c.failures < Threshold
  BY ThresholdAssumption DEF AfterSuccess, ClosedBreaker
<1>3. LET c == AfterFailure(b) IN c.state = "CLOSED" <=> c.failures < Threshold
  <2> DEFINE failures == IF b.failures < Threshold THEN b.failures + 1 ELSE Threshold
  <2>1. failures \in 0 .. Threshold /\ Threshold \in Nat
    BY ThresholdAssumption DEF Breaker
  <2>2. CASE b.state = "HALF_OPEN" \/ failures = Threshold
    <3>1. failures = Threshold
      BY <2>2 DEF Breaker
    <3>2. AfterFailure(b) = [state |-> "OPEN", failures |-> failures, cooled |-> FALSE,
                             probe |-> FALSE]
      BY <2>2 DEF AfterFailure
    <3> HIDE DEF failures
    <3> QED
      BY <2>1, <3>1, <3>2
  <2>3. CASE ~(b.state = "HALF_OPEN" \/ failures = Threshold)
    <3>1. AfterFailure(b) = [b EXCEPT !.failures = failures, !.probe = FALSE]
      BY <2>3 DEF AfterFailure
    <3>2. b.state = "CLOSED"
      BY <2>3, ThresholdAssumption DEF Breaker
    <3>3. AfterFailure(b).failures = failures /\ AfterFailure(b).state = b.state
      BY <3>1 DEF Breaker
    <3> HIDE DEF failures
    <3> QED
      BY <2>1, <2>3, <3>2, <3>3
  <2> QED
    BY <2>2, <2>3
<1>4. LET c == AfterIgnoredFailure(b) IN c.state = "CLOSED" <=> c.failures < Threshold
  BY DEF AfterIgnoredFailure, Breaker
<1> QED
  BY <1>1, <1>2, <1>3, <1>4

LEMMA StepBreaker == TypeOK /\ ClosedBelowThreshold /\ [Next]_vars => ClosedBelowThreshold'
<1> SUFFICES ASSUME TypeOK, ClosedBelowThreshold, [Next]_vars
             PROVE  ClosedBelowThreshold'
  OBVIOUS
<1>1. circuit \in Breaker /\ (circuit.state = "CLOSED" <=> circuit.failures < Threshold)
  BY DEF TypeOK, ClosedBelowThreshold
<1>2. CASE CoolDown
  BY <1>1, <1>2 DEF CoolDown, Breaker, ClosedBelowThreshold
<1>3. ASSUME ~CoolDown
      PROVE  circuit' \in {circuit, Acquired(circuit), AfterSuccess(circuit),
                           AfterFailure(circuit), AfterIgnoredFailure(circuit)}
  BY <1>3 DEF Next, vars, Arrive, RefuseInput, AcquireLock, StampedeTimeout, Hit, Miss,
     LookupFails, Store, Expire, OverBudget, CircuitRefuses, StartCall, CallSucceeds,
     CallFails, UnusableAnswer, CallTimesOut, Crash, Midnight, AfterSuccess,
     AfterIgnoredFailure, ClosedBreaker
<1>4. CASE ~CoolDown
  BY <1>1, <1>3, <1>4, BreakerKeepsThreshold DEF ClosedBelowThreshold
<1> QED
  BY <1>2, <1>4

\* The breaker stays closed until Threshold failures have come without a
\* success between them, and never longer (circuit_breaker.py).
THEOREM BreakerOpensAtThreshold == Spec => []ClosedBelowThreshold
<1> QED
  BY InitBreaker, StepBreaker, TypeCorrect, PTL DEF Spec
-------------------------------------------------------------------------------
(* The single flight.                                                      *)

Users(k) == {p \in Requests : InFlight(p, k)}

Asking(p) == request[p].step \in {"ready", "calling", "storing"}

\* Whoever is in a flight uses the lock of the table, the count of a key is
\* the number of its users, one request holds a lock, and a request past the
\* lookup has a key the cache does not hold.
FlightInv ==
    /\ TypeOK
    /\ \A p \in Requests, k \in Keys : InFlight(p, k) => request[p].lock = table[k].lock
    /\ \A k \in Keys : table[k].users = Cardinality(Users(k))
    /\ \A k \in Keys : table[k].lock # NoLock => Users(k) # {}
    /\ \A p, q \in Requests, l \in Locks : Holds(p, l) /\ Holds(q, l) => p = q
    /\ \A p \in Requests, k \in Keys : InFlight(p, k) /\ Asking(p) => k \notin cached

\* Requests are finitely many, and so are the users of a key.
LEMMA UsersFinite ==
    ASSUME NEW k \in Keys
    PROVE  IsFiniteSet(Users(k)) /\ Cardinality(Users(k)) \in Nat
  BY RequestsAssumption, FS_Subset, FS_CardinalityType DEF Users

\* When a request goes from one record with a key and a lock to another with
\* the same key and lock, the users of every key stay the same.
LEMMA MoveKeepsUsers ==
    ASSUME TypeOK, NEW p \in Requests, NEW r \in Request, Goto(p, r),
           request[p].step # "idle", r.step # "idle",
           r.key = request[p].key, r.lock = request[p].lock
    PROVE  /\ \A q \in Requests, k \in Keys : InFlight(q, k)' <=> InFlight(q, k)
           /\ \A k \in Keys : Users(k)' = Users(k)
<1>1. /\ request'[p] = r
      /\ \A q \in Requests : q # p => request'[q] = request[q]
  BY DEF TypeOK, Goto
<1>2. \A q \in Requests, k \in Keys : InFlight(q, k)' <=> InFlight(q, k)
  BY <1>1 DEF InFlight
<1> QED
  BY <1>2 DEF Users

\* A move of one request that changes no lock, keeps the hold of it, or the
\* lack of a hold, and does not pass the lookup keeps the invariant.
LEMMA MoveKeeps ==
    ASSUME FlightInv, NEW p \in Requests, NEW r \in Request, Goto(p, r), TypeOK',
           request[p].step # "idle", r.step # "idle",
           r.key = request[p].key, r.lock = request[p].lock,
           r.step = "waiting" <=> request[p].step = "waiting",
           table' = table, cached' \subseteq cached,
           r.step \in {"ready", "calling", "storing"} =>
             Asking(p) \/ r.key \notin cached'
    PROVE  FlightInv'
<1>1. /\ request'[p] = r
      /\ \A q \in Requests : q # p => request'[q] = request[q]
  BY DEF FlightInv, TypeOK, Goto
<1>2. /\ \A q \in Requests, k \in Keys : InFlight(q, k)' <=> InFlight(q, k)
      /\ \A k \in Keys : Users(k)' = Users(k)
  BY MoveKeepsUsers DEF FlightInv
<1>3. \A q \in Requests, l \in Locks : Holds(q, l)' => Holds(q, l)
  BY <1>1, RequestShape DEF Holds, FlightInv, TypeOK
<1>4. \A q \in Requests, k \in Keys : InFlight(q, k)' => request'[q].lock = table'[k].lock
  BY <1>1, <1>2 DEF FlightInv
<1>5. \A k \in Keys : table'[k].users = Cardinality(Users(k)')
  BY <1>2 DEF FlightInv
<1>6. \A k \in Keys : table'[k].lock # NoLock => Users(k)' # {}
  BY <1>2 DEF FlightInv
<1>7. \A q, s \in Requests, l \in Locks : Holds(q, l)' /\ Holds(s, l)' => q = s
  BY <1>3 DEF FlightInv
<1>8. \A q \in Requests, k \in Keys : InFlight(q, k)' /\ Asking(q)' => k \notin cached'
  <2> SUFFICES ASSUME NEW q \in Requests, NEW k \in Keys, InFlight(q, k)', Asking(q)'
               PROVE  k \notin cached'
    OBVIOUS
  <2>1. CASE q # p
    BY <1>1, <1>2, <2>1 DEF FlightInv, Asking
  <2>2. CASE q = p
    BY <1>1, <1>2, <2>2 DEF FlightInv, Asking, InFlight
  <2> QED
    BY <2>1, <2>2
<1> QED
  BY <1>4, <1>5, <1>6, <1>7, <1>8 DEF FlightInv

\* A request that leaves its flight is no longer a user of its key, and the
\* table still counts the users of every key and keeps the locks in use.
LEMMA LeaveUsers ==
    ASSUME FlightInv, NEW p \in Requests, NEW r \in Request, Goto(p, r),
           r = Idle \/ r.lock = NoLock
    PROVE  /\ \A q \in Requests, k \in Keys : InFlight(q, k)' <=> InFlight(q, k) /\ q # p
           /\ \A k \in Keys : Users(k)' = Users(k) \ {p}
<1>1. /\ request'[p] = r
      /\ \A q \in Requests : q # p => request'[q] = request[q]
  BY DEF FlightInv, TypeOK, Goto
<1>2. \A q \in Requests, k \in Keys : InFlight(q, k)' <=> InFlight(q, k) /\ q # p
  BY <1>1 DEF InFlight, Idle
<1> QED
  BY <1>2 DEF Users

LEMMA LeaveTable ==
    ASSUME FlightInv, NEW p \in Requests, NEW r \in Request, Goto(p, r),
           r = Idle \/ r.lock = NoLock, request[p].step # "idle", LeaveFlight(p),
           NEW k \in Keys
    PROVE  /\ table'[k].users = Cardinality(Users(k)')
           /\ table'[k].lock # NoLock => Users(k)' # {}
           /\ Users(k)' # {} => table'[k].lock = table[k].lock
<1>1. Users(k)' = Users(k) \ {p}
  BY LeaveUsers
<1>2. CASE ~InFlight(p, k)
  <2>1. Users(k)' = Users(k)
    BY <1>1, <1>2 DEF Users
  <2>2. request[p].key \in Keys
    BY BusyRequest DEF FlightInv, TypeOK
  <2>3. table'[k] = table[k]
    BY <1>2, <2>2 DEF LeaveFlight, InFlight, FlightInv, TypeOK
  <2> QED
    BY <2>1, <2>3 DEF FlightInv
<1>3. CASE InFlight(p, k)
  <2>1. table'[k] = WithoutOne(table[k])
    BY <1>3 DEF LeaveFlight, InFlight, FlightInv, TypeOK
  <2>2. p \in Users(k)
    BY <1>3 DEF Users
  <2>3. /\ IsFiniteSet(Users(k)) /\ Cardinality(Users(k)) \in Nat
        /\ table[k].users = Cardinality(Users(k))
    BY UsersFinite DEF FlightInv
  <2>4. /\ IsFiniteSet(Users(k)')
        /\ Cardinality(Users(k)') = Cardinality(Users(k)) - 1
        /\ Cardinality(Users(k)') \in Nat
    BY <1>1, <2>2, <2>3, FS_RemoveElement, FS_CardinalityType
  <2>5. Cardinality(Users(k)') = 0 <=> Users(k)' = {}
    BY <2>4, FS_EmptySet
  <2>6. CASE table[k].users <= 1
    <3>1. Cardinality(Users(k)') = 0
      BY <2>3, <2>4, <2>6
    <3> QED
      BY <2>1, <2>5, <2>6, <3>1 DEF WithoutOne
  <2>7. CASE ~(table[k].users <= 1)
    <3>1. Cardinality(Users(k)') # 0
      BY <2>3, <2>4, <2>7
    <3>2. /\ table'[k].users = table[k].users - 1
          /\ table'[k].lock = table[k].lock
      BY <2>1, <2>7 DEF WithoutOne
    <3> QED
      BY <2>3, <2>4, <2>5, <3>1, <3>2
  <2> QED
    BY <2>6, <2>7
<1> QED
  BY <1>2, <1>3

\* Leaving a flight keeps the invariant, also when the request that leaves
\* has just stored its key: it was the only one past the lookup.
LEMMA LeaveKeeps ==
    ASSUME FlightInv, NEW p \in Requests, NEW r \in Request, Goto(p, r), TypeOK',
           r = Idle \/ r.lock = NoLock, request[p].step # "idle", LeaveFlight(p),
           \/ cached' \subseteq cached
           \/ request[p].step = "storing" /\ cached' \subseteq cached \cup {request[p].key}
    PROVE  FlightInv'
<1>1. /\ request'[p] = r
      /\ \A q \in Requests : q # p => request'[q] = request[q]
  BY DEF FlightInv, TypeOK, Goto
<1>2. /\ \A q \in Requests, k \in Keys : InFlight(q, k)' <=> InFlight(q, k) /\ q # p
      /\ \A k \in Keys : Users(k)' = Users(k) \ {p}
  BY LeaveUsers
<1>3. \A q \in Requests, l \in Locks : Holds(q, l)' => Holds(q, l) /\ q # p
  BY <1>1, RequestsAssumption DEF Holds, Idle
<1>4. \A q \in Requests, k \in Keys : InFlight(q, k)' => request'[q].lock = table'[k].lock
  <2> SUFFICES ASSUME NEW q \in Requests, NEW k \in Keys, InFlight(q, k)'
               PROVE  request'[q].lock = table'[k].lock
    OBVIOUS
  <2>1. InFlight(q, k) /\ q # p
    BY <1>2
  <2>2. q \in Users(k)'
    BY <1>2, <2>1 DEF Users
  <2>3. table'[k].lock = table[k].lock
    BY <2>2, LeaveTable
  <2> QED
    BY <1>1, <2>1, <2>3 DEF FlightInv
<1>5. /\ \A k \in Keys : table'[k].users = Cardinality(Users(k)')
      /\ \A k \in Keys : table'[k].lock # NoLock => Users(k)' # {}
  BY LeaveTable
<1>6. \A q, s \in Requests, l \in Locks : Holds(q, l)' /\ Holds(s, l)' => q = s
  BY <1>3 DEF FlightInv
<1>7. \A q \in Requests, k \in Keys : InFlight(q, k)' /\ Asking(q)' => k \notin cached'
  <2> SUFFICES ASSUME NEW q \in Requests, NEW k \in Keys, InFlight(q, k)', Asking(q)'
               PROVE  k \notin cached'
    OBVIOUS
  <2>1. InFlight(q, k) /\ q # p /\ Asking(q)
    BY <1>1, <1>2 DEF Asking
  <2>2. k \notin cached
    BY <2>1 DEF FlightInv
  <2>3. CASE cached' \subseteq cached
    BY <2>2, <2>3
  <2>4. CASE request[p].step = "storing" /\ cached' \subseteq cached \cup {request[p].key}
    <3>1. request[p].key \in Keys /\ request[p].lock \in Locks
      BY <2>4, RequestShape DEF FlightInv, TypeOK
    <3>2. CASE request[p].key = k
      <4>1. InFlight(p, k)
        BY <2>4, <3>1, <3>2, RequestsAssumption DEF InFlight
      <4>2. request[q].lock = request[p].lock
        BY <2>1, <4>1 DEF FlightInv
      <4>3. Holds(p, request[p].lock) /\ Holds(q, request[p].lock)
        BY <2>1, <2>4, <4>2 DEF Holds, Asking
      <4> QED
        BY <2>1, <3>1, <4>3 DEF FlightInv
    <3>3. CASE request[p].key # k
      BY <2>2, <2>4, <3>3
    <3> QED
      BY <3>2, <3>3
  <2> QED
    BY <2>3, <2>4
<1> QED
  BY <1>4, <1>5, <1>6, <1>7 DEF FlightInv

\* A request that joins a flight waits, holds nothing and asks for nothing.
LEMMA JoinKeeps ==
    ASSUME FlightInv, TypeOK', NEW p \in Requests, NEW k \in Keys, NEW l \in LockFor(k),
           request[p] = Idle, Join(k, l),
           Goto(p, [step |-> "waiting", key |-> k, lock |-> l]), cached' = cached
    PROVE  FlightInv'
<1>1. /\ request'[p] = [step |-> "waiting", key |-> k, lock |-> l]
      /\ \A q \in Requests : q # p => request'[q] = request[q]
      /\ table'[k] = [lock |-> l, users |-> table[k].users + 1]
      /\ \A j \in Keys : j # k => table'[j] = table[j]
  BY DEF FlightInv, TypeOK, Goto, Join
<1>2. l \in Locks /\ l # NoLock /\ (table[k].lock # NoLock => l = table[k].lock)
  BY RequestsAssumption DEF LockFor, FlightInv, TypeOK
<1>3. \A q \in Requests, j \in Keys :
        InFlight(q, j)' <=> InFlight(q, j) \/ (q = p /\ j = k)
  BY <1>1, <1>2 DEF InFlight, Idle
<1>4. /\ Users(k)' = Users(k) \cup {p} /\ p \notin Users(k)
      /\ \A j \in Keys : j # k => Users(j)' = Users(j)
  BY <1>3 DEF Users, InFlight, Idle
<1>5. \A q \in Requests, j \in Keys : InFlight(q, j)' => request'[q].lock = table'[j].lock
  <2> SUFFICES ASSUME NEW q \in Requests, NEW j \in Keys, InFlight(q, j)'
               PROVE  request'[q].lock = table'[j].lock
    OBVIOUS
  <2>1. CASE q = p
    BY <1>1, <1>3, <2>1 DEF InFlight, Idle
  <2>2. CASE q # p
    <3>1. InFlight(q, j) /\ request'[q] = request[q] /\ request[q].lock = table[j].lock
      BY <1>1, <1>3, <2>2 DEF FlightInv
    <3> QED
      BY <1>1, <1>2, <3>1 DEF InFlight
  <2> QED
    BY <2>1, <2>2
<1>6. \A j \in Keys : table'[j].users = Cardinality(Users(j)')
  <2>1. Cardinality(Users(k)') = Cardinality(Users(k)) + 1
    BY <1>4, UsersFinite, FS_AddElement
  <2>2. table[k].users = Cardinality(Users(k)) /\ table'[k].users = table[k].users + 1
    BY <1>1 DEF FlightInv
  <2>3. \A j \in Keys : j # k => table'[j].users = Cardinality(Users(j)')
    <3>1. \A j \in Keys : j # k => Cardinality(Users(j)') = Cardinality(Users(j))
      BY <1>4
    <3> QED
      BY <1>1, <3>1 DEF FlightInv
  <2>4. table'[k].users = Cardinality(Users(k)')
    BY <2>1, <2>2
  <2> QED
    BY <2>3, <2>4
<1>7. \A j \in Keys : table'[j].lock # NoLock => Users(j)' # {}
  BY <1>1, <1>4 DEF FlightInv
<1>8. \A q, s \in Requests, m \in Locks : Holds(q, m)' /\ Holds(s, m)' => q = s
  <2>1. \A q \in Requests, m \in Locks : Holds(q, m)' => Holds(q, m)
    BY <1>1 DEF Holds
  <2> QED
    BY <2>1 DEF FlightInv
<1>9. \A q \in Requests, j \in Keys : InFlight(q, j)' /\ Asking(q)' => j \notin cached'
  BY <1>1, <1>3 DEF FlightInv, Asking
<1> QED
  BY <1>5, <1>6, <1>7, <1>8, <1>9 DEF FlightInv

\* No request has started, nothing is in flight.
LEMMA InitFlight == Init => FlightInv
<1> SUFFICES ASSUME Init
             PROVE  FlightInv
  OBVIOUS
<1>1. \A p \in Requests : request[p].step = "idle"
  BY DEF Init, Idle
<1>2. \A k \in Keys : Users(k) = {} /\ table[k].users = 0 /\ table[k].lock = NoLock
  BY <1>1 DEF Init, Users, InFlight
<1>3. Cardinality({}) = 0
  BY FS_EmptySet
<1> QED
  BY <1>1, <1>2, <1>3, InitType DEF FlightInv, InFlight, Holds

\* Every step keeps the invariant of the single flight.
LEMMA StepFlight == FlightInv /\ [Next]_vars => FlightInv'
<1> SUFFICES ASSUME FlightInv, [Next]_vars
             PROVE  FlightInv'
  OBVIOUS
<1>a. TypeOK /\ TypeOK'
  BY StepType DEF FlightInv
<1>b. \A p \in Requests : request[p] \in Request
  BY <1>a DEF TypeOK
<1>c. Idle \in Request /\ (\A p \in Requests : Answer(p) => Goto(p, Idle) /\ LeaveFlight(p))
  BY DEF Request, Answer
<1>d. ASSUME request' = request, table' = table, cached' \subseteq cached
      PROVE  FlightInv'
  <2>1. /\ \A p \in Requests, k \in Keys : InFlight(p, k)' <=> InFlight(p, k)
        /\ \A p \in Requests, l \in Locks : Holds(p, l)' <=> Holds(p, l)
        /\ \A p \in Requests : Asking(p)' <=> Asking(p)
    BY <1>d DEF InFlight, Holds, Asking
  <2>2. \A k \in Keys : Users(k)' = Users(k)
    BY <2>1 DEF Users
  <2> QED
    BY <1>a, <1>d, <2>1, <2>2 DEF FlightInv
<1>1. ASSUME NEW p \in Requests, NEW k \in Keys, Arrive(p, k)
      PROVE  FlightInv'
  <2>1. CASE CacheEnabled
    <3>1. PICK l \in LockFor(k) :
            /\ Join(k, l)
            /\ Goto(p, [step |-> "waiting", key |-> k, lock |-> l])
      BY <1>1, <2>1 DEF Arrive
    <3> QED
      BY <1>1, <1>a, <3>1, JoinKeeps DEF Arrive
  <2>2. CASE ~CacheEnabled
    <3> DEFINE r == [step |-> "ready", key |-> k, lock |-> NoLock]
    <3>1. /\ request'[p] = r
          /\ \A q \in Requests : q # p => request'[q] = request[q]
          /\ request[p] = Idle /\ table' = table /\ cached' = cached
      BY <1>1, <1>a, <2>2 DEF Arrive, Goto, TypeOK
    <3>2. /\ \A q \in Requests, j \in Keys : InFlight(q, j)' <=> InFlight(q, j)
          /\ \A q \in Requests, j \in Keys : InFlight(q, j)' => q # p
      BY <3>1 DEF InFlight, Idle
    <3>3. \A q \in Requests, l \in Locks : Holds(q, l)' => Holds(q, l)
      BY <3>1, RequestsAssumption DEF Holds, Idle
    <3>4. \A j \in Keys : Users(j)' = Users(j)
      BY <3>2 DEF Users
    <3>5. \A q \in Requests, j \in Keys : InFlight(q, j)' => request'[q].lock = table'[j].lock
      BY <3>1, <3>2 DEF FlightInv
    <3>6. \A q \in Requests, j \in Keys : InFlight(q, j)' /\ Asking(q)' => j \notin cached'
      BY <3>1, <3>2 DEF FlightInv, Asking
    <3>7. \A j \in Keys : table'[j].users = Cardinality(Users(j)')
                          /\ (table'[j].lock # NoLock => Users(j)' # {})
      BY <3>1, <3>4 DEF FlightInv
    <3>8. \A q, s \in Requests, l \in Locks : Holds(q, l)' /\ Holds(s, l)' => q = s
      BY <3>3 DEF FlightInv
    <3> QED
      BY <1>a, <3>5, <3>6, <3>7, <3>8 DEF FlightInv
  <2> QED
    BY <2>1, <2>2
<1>2. ASSUME NEW p \in Requests, RefuseInput(p)
      PROVE  FlightInv'
  BY <1>2, <1>d DEF RefuseInput
<1>3. ASSUME NEW p \in Requests, AcquireLock(p)
      PROVE  FlightInv'
  <2> DEFINE r == [request[p] EXCEPT !.step = "looking"]
  <2>1. /\ r \in Request /\ r.step = "looking"
        /\ r.key = request[p].key /\ r.lock = request[p].lock
    BY <1>3, <1>b, RequestShape DEF AcquireLock, Request
  <2> HIDE DEF r
  <2>2. Goto(p, r) /\ table' = table /\ cached' = cached
    BY <1>3 DEF AcquireLock, r
  <2>3. /\ request'[p] = r
        /\ \A q \in Requests : q # p => request'[q] = request[q]
    BY <1>a, <2>2 DEF Goto, TypeOK
  <2>4. /\ \A q \in Requests, k \in Keys : InFlight(q, k)' <=> InFlight(q, k)
        /\ \A k \in Keys : Users(k)' = Users(k)
    BY <1>3, <1>a, <2>1, <2>2, MoveKeepsUsers DEF AcquireLock
  <2>5. \A q \in Requests : Asking(q)' <=> Asking(q)
    BY <1>3, <2>1, <2>3 DEF Asking, AcquireLock
  <2>6. \A q, s \in Requests, l \in Locks : Holds(q, l)' /\ Holds(s, l)' => q = s
    <3>1. \A q \in Requests, l \in Locks :
            Holds(q, l)' => Holds(q, l) \/ (q = p /\ l = request[p].lock)
      BY <2>1, <2>3 DEF Holds
    <3>2. \A q \in Requests : ~Holds(q, request[p].lock)
      BY <1>3 DEF AcquireLock
    <3> QED
      BY <3>1, <3>2 DEF FlightInv
  <2>7. \A q \in Requests, k \in Keys : InFlight(q, k)' => request'[q].lock = table'[k].lock
    BY <2>1, <2>2, <2>3, <2>4 DEF FlightInv
  <2> QED
    BY <1>a, <2>2, <2>4, <2>5, <2>6, <2>7 DEF FlightInv
<1>4. ASSUME NEW p \in Requests, StampedeTimeout(p)
      PROVE  FlightInv'
  BY <1>4, <1>a, <1>c, LeaveKeeps DEF StampedeTimeout
<1>5. ASSUME NEW p \in Requests, Hit(p)
      PROVE  FlightInv'
  BY <1>5, <1>a, <1>c, LeaveKeeps DEF Hit
<1>6. ASSUME NEW p \in Requests, Miss(p)
      PROVE  FlightInv'
  <2> DEFINE r == [request[p] EXCEPT !.step = "ready"]
  <2>1. /\ r \in Request /\ r.step = "ready"
        /\ r.key = request[p].key /\ r.lock = request[p].lock
    BY <1>6, <1>b, RequestShape DEF Miss, Request
  <2> HIDE DEF r
  <2>2. Goto(p, r) /\ table' = table /\ cached' = cached \ {r.key}
    BY <1>6, <2>1 DEF Miss, r
  <2> QED
    BY <1>6, <1>a, <2>1, <2>2, MoveKeeps DEF Miss
<1>7. ASSUME NEW p \in Requests, LookupFails(p)
      PROVE  FlightInv'
  <2> DEFINE r == [step |-> "ready", key |-> request[p].key, lock |-> NoLock]
  <2>1. r \in Request
    BY <1>7, <1>b, BusyRequest DEF LookupFails, Request
  <2> QED
    BY <1>7, <1>a, <2>1, LeaveKeeps DEF LookupFails
<1>8. ASSUME NEW p \in Requests, NEW saved \in BOOLEAN, Store(p, saved)
      PROVE  FlightInv'
  BY <1>8, <1>a, <1>c, LeaveKeeps DEF Store
<1>9. ASSUME NEW k \in Keys, Expire(k)
      PROVE  FlightInv'
  BY <1>9, <1>d DEF Expire
<1>10. ASSUME NEW p \in Requests, OverBudget(p) \/ CircuitRefuses(p)
       PROVE  FlightInv'
  BY <1>10, <1>a, <1>c, LeaveKeeps DEF OverBudget, CircuitRefuses
<1>11. ASSUME NEW p \in Requests, StartCall(p)
       PROVE  FlightInv'
  <2> DEFINE r == [step |-> "calling", key |-> request[p].key, lock |-> request[p].lock,
                   day |-> today]
  <2>1. r \in Request /\ r.step = "calling"
    BY <1>11, <1>a, <1>b, BusyRequest DEF StartCall, Request, TypeOK
  <2>2. r.key = request[p].key /\ r.lock = request[p].lock
    OBVIOUS
  <2>3. Goto(p, r) /\ table' = table /\ cached' = cached /\ request[p].step = "ready"
    BY <1>11 DEF StartCall
  <2> HIDE DEF r
  <2> QED
    BY <1>a, <2>1, <2>2, <2>3, MoveKeeps DEF Asking
<1>12. ASSUME NEW p \in Requests, NEW usage \in Usages, CallSucceeds(p, usage)
       PROVE  FlightInv'
  <2>1. CASE request[p].lock = NoLock
    <3>1. Goto(p, Idle) /\ LeaveFlight(p)
      BY <1>12, <2>1 DEF CallSucceeds, LeaveFlight
    <3> QED
      BY <1>12, <1>a, <1>c, <3>1, LeaveKeeps DEF CallSucceeds
  <2>2. CASE request[p].lock # NoLock
    <3> DEFINE r == [step |-> "storing", key |-> request[p].key, lock |-> request[p].lock]
    <3>1. r \in Request /\ r.step = "storing"
      BY <1>12, <1>b, <2>2, BusyRequest DEF CallSucceeds, Request
    <3>2. r.key = request[p].key /\ r.lock = request[p].lock
      OBVIOUS
    <3>3. Goto(p, r) /\ table' = table /\ cached' = cached /\ request[p].step = "calling"
      BY <1>12, <2>2 DEF CallSucceeds
    <3> HIDE DEF r
    <3> QED
      BY <1>a, <3>1, <3>2, <3>3, MoveKeeps DEF Asking
  <2> QED
    BY <2>1, <2>2
<1>13. ASSUME NEW p \in Requests, NEW affectsCircuit \in BOOLEAN, CallFails(p, affectsCircuit)
       PROVE  FlightInv'
  BY <1>13, <1>a, <1>c, LeaveKeeps DEF CallFails
<1>14. ASSUME NEW p \in Requests, CallTimesOut(p) \/ UnusableAnswer(p) \/ Crash(p)
       PROVE  FlightInv'
  BY <1>14, <1>a, <1>c, LeaveKeeps DEF CallTimesOut, UnusableAnswer, Crash
<1>15. CASE CoolDown \/ Midnight
  BY <1>15, <1>d DEF CoolDown, Midnight
<1>16. CASE UNCHANGED vars
  BY <1>16, <1>d DEF vars
<1> QED
  BY <1>1, <1>2, <1>3, <1>4, <1>5, <1>6, <1>7, <1>8, <1>9, <1>10, <1>11, <1>12, <1>13,
     <1>14, <1>15, <1>16 DEF Next

LEMMA FlightCorrect == Spec => []FlightInv
<1> QED
  BY InitFlight, StepFlight, PTL DEF Spec

\* What the invariant says of the flight, with lock objects left out.
LEMMA FlightSafety ==
    ASSUME FlightInv
    PROVE  OneHolderPerKey /\ CallsMissedTheCache /\ TableHoldsLiveKeys
<1>1. ASSUME NEW p \in Requests, NEW k \in Keys, InFlight(p, k), request[p].step # "waiting"
      PROVE  table[k].lock \in Locks /\ Holds(p, table[k].lock)
  <2>1. /\ request[p] \in Request
        /\ request[p].lock = table[k].lock /\ request[p].lock # NoLock
        /\ table[k].lock \in Locks \cup {NoLock}
    BY <1>1 DEF FlightInv, TypeOK, InFlight
  <2> QED
    BY <1>1, <2>1, RequestShape DEF Holds, InFlight
<1>2. OneHolderPerKey
  BY <1>1 DEF OneHolderPerKey, FlightInv
<1>3. CallsMissedTheCache
  BY DEF CallsMissedTheCache, FlightInv, Asking
<1>4. TableHoldsLiveKeys
  BY DEF TableHoldsLiveKeys, FlightInv, Users, InFlight
<1> QED
  BY <1>2, <1>3, <1>4

\* Single flight: at most one request looks up, asks for and stores a key,
\* for any number of requests, keys and lock objects (cache.py singleflight).
THEOREM FlightIsSingle == Spec => []OneHolderPerKey
<1> QED
  BY FlightCorrect, FlightSafety, PTL

\* A request calls the provider only for a key nobody has stored since it
\* looked the key up (service.py interpret, with the cache in use).
THEOREM NoCallForACachedAnswer == Spec => []CallsMissedTheCache
<1> QED
  BY FlightCorrect, FlightSafety, PTL

\* The lock table neither leaks an entry nor drops one in use (cache.py, the
\* finally clause of singleflight).
THEOREM NoLockIsLeaked == Spec => []TableHoldsLiveKeys
<1> QED
  BY FlightCorrect, FlightSafety, PTL

-------------------------------------------------------------------------------
(* The daily budget.                                                       *)

\* Unless a call crossed the last midnight, the day's counter covers what the
\* day's answers cost and what the calls in flight have reserved; before the
\* first call of a day rolls the counters, there is nothing to cover.
BudgetInv ==
    /\ TypeOK
    /\ budget.day <= today
    /\ ~carried =>
         /\ \A p \in Requests : request[p].step = "calling" => request[p].day = today
         /\ budget.day = today => spent + Estimate * Cardinality(Calls) <= budget.tokens
         /\ budget.day # today => spent = 0 /\ Calls = {}

LEMMA CallsFinite == IsFiniteSet(Calls) /\ Cardinality(Calls) \in Nat
  BY RequestsAssumption, FS_Subset, FS_CardinalityType DEF Calls

\* One call less, if it was one.
LEMMA CallsWithout ==
    ASSUME NEW p
    PROVE  /\ Cardinality(Calls \ {p}) \in Nat
           /\ Cardinality(Calls \ {p}) = IF p \in Calls THEN Cardinality(Calls) - 1
                                         ELSE Cardinality(Calls)
<1>1. IsFiniteSet(Calls)
  BY CallsFinite
<1>2. /\ IsFiniteSet(Calls \ {p})
      /\ Cardinality(Calls \ {p}) = IF p \in Calls THEN Cardinality(Calls) - 1
                                    ELSE Cardinality(Calls)
  BY <1>1, FS_RemoveElement
<1>3. Cardinality(Calls \ {p}) \in Nat
  BY <1>2, FS_CardinalityType
<1> QED
  BY <1>2, <1>3

\* How a move of one request changes the calls in flight.
LEMMA CallsAfter ==
    ASSUME TypeOK, NEW p \in Requests, NEW r \in Request, Goto(p, r), today' = today
    PROVE  /\ r.step # "calling" => Calls' = Calls \ {p}
           /\ r.step = "calling" /\ r.day = today => Calls' = Calls \cup {p}
<1>1. /\ request'[p] = r
      /\ \A q \in Requests : q # p => request'[q] = request[q]
  BY DEF TypeOK, Goto
<1> QED
  BY <1>1 DEF Calls

\* Steps that end a call, or never had one, and spend at least as much of the
\* counter as they add to what was spent, keep the invariant.
LEMMA BudgetKeeps ==
    ASSUME BudgetInv, TypeOK', NEW p \in Requests, NEW r \in Request, Goto(p, r),
           r.step # "calling", today' = today, carried' = carried, spent' = spent,
           \/ budget' = budget
           \/ /\ budget'.day = today
              /\ budget.day = today => budget'.tokens >= budget.tokens
    PROVE  BudgetInv'
<1>1. Calls' = Calls \ {p}
  BY CallsAfter DEF BudgetInv
<1>2. /\ request'[p] = r
      /\ \A q \in Requests : q # p => request'[q] = request[q]
  BY DEF BudgetInv, TypeOK, Goto
<1>3. /\ Cardinality(Calls) \in Nat /\ Cardinality(Calls') \in Nat
      /\ Cardinality(Calls') <= Cardinality(Calls)
  BY <1>1, CallsFinite, CallsWithout
<1>4. /\ Estimate \in Nat /\ spent \in Nat /\ today \in Nat
      /\ budget.tokens \in Nat /\ budget'.tokens \in Nat /\ budget.day \in Nat
  BY UsageAssumption DEF BudgetInv, TypeOK, Counters, Days
<1>5. Estimate * Cardinality(Calls') <= Estimate * Cardinality(Calls)
  BY <1>3, <1>4
<1>6. Estimate * Cardinality(Calls') \in Nat /\ Estimate * Cardinality(Calls) \in Nat
  BY <1>3, <1>4
<1>7. budget'.day <= today'
  BY <1>4 DEF BudgetInv
<1>8. ASSUME ~carried'
      PROVE  /\ \A q \in Requests : request'[q].step = "calling" => request'[q].day = today'
             /\ budget'.day = today' => spent' + Estimate * Cardinality(Calls') <= budget'.tokens
             /\ budget'.day # today' => spent' = 0 /\ Calls' = {}
  <2>1. \A q \in Requests : request'[q].step = "calling" => request'[q].day = today'
    BY <1>2, <1>8 DEF BudgetInv
  <2>2. CASE budget.day = today
    <3>1. spent + Estimate * Cardinality(Calls) <= budget.tokens
      BY <1>8, <2>2 DEF BudgetInv
    <3>2. budget'.tokens >= budget.tokens /\ budget'.day = today
      BY <1>4, <2>2
    <3>3. spent' + Estimate * Cardinality(Calls') <= budget'.tokens
      BY <1>4, <1>5, <1>6, <3>1, <3>2
    <3> QED
      BY <2>1, <3>2, <3>3
  <2>3. CASE budget.day # today
    <3>1. spent = 0 /\ Calls = {} /\ Calls' = {}
      BY <1>1, <1>8, <2>3 DEF BudgetInv
    <3>2. Estimate * Cardinality(Calls') = 0
      BY <1>4, <3>1, FS_EmptySet
    <3>3. spent' + Estimate * Cardinality(Calls') <= budget'.tokens
      BY <1>4, <3>1, <3>2
    <3> QED
      BY <2>1, <3>1, <3>3
  <2> QED
    BY <2>2, <2>3
<1> QED
  BY <1>7, <1>8 DEF BudgetInv

LEMMA InitBudget == Init => BudgetInv
<1> SUFFICES ASSUME Init
             PROVE  BudgetInv
  OBVIOUS
<1>1. Calls = {}
  BY DEF Init, Calls, Idle
<1>2. Estimate * Cardinality(Calls) = 0
  BY <1>1, FS_EmptySet, UsageAssumption
<1>3. /\ budget.day = 0 /\ budget.tokens = 0 /\ today = 0 /\ spent = 0
      /\ \A p \in Requests : request[p].step = "idle"
  BY DEF Init, FreshCounters, Idle
<1> QED
  BY <1>1, <1>2, <1>3, InitType DEF BudgetInv

\* Starting a call adds one estimate to both sides.
LEMMA StartKeepsBudget ==
    ASSUME BudgetInv, TypeOK', NEW p \in Requests, StartCall(p)
    PROVE  BudgetInv'
<1> DEFINE r == [step |-> "calling", key |-> request[p].key, lock |-> request[p].lock,
                 day |-> today]
           n == Cardinality(Calls)
<1>1. r \in Request /\ r.step = "calling" /\ r.day = today
  BY BusyRequest DEF StartCall, Request, BudgetInv, TypeOK
<1>2. Goto(p, r) /\ today' = today /\ carried' = carried /\ spent' = spent
  BY DEF StartCall
<1> HIDE DEF r
<1>3. Calls' = Calls \cup {p} /\ p \notin Calls
  <2>1. Calls' = Calls \cup {p}
    BY <1>1, <1>2, CallsAfter DEF BudgetInv
  <2>2. p \notin Calls
    BY DEF StartCall, Calls
  <2> QED
    BY <2>1, <2>2
<1>4. n \in Nat /\ Cardinality(Calls') = n + 1
  BY <1>3, CallsFinite, FS_AddElement
<1>5. /\ request'[p] = r
      /\ \A q \in Requests : q # p => request'[q] = request[q]
  BY <1>2 DEF BudgetInv, TypeOK, Goto
<1>6. /\ Estimate \in Nat /\ spent \in Nat /\ today \in Nat
      /\ budget \in Counters /\ budget.tokens \in Nat /\ budget.day \in Nat
  BY UsageAssumption DEF BudgetInv, TypeOK, Counters, Days
<1>7. /\ Rolled(budget, today).day = today
      /\ Rolled(budget, today).tokens = IF budget.day = today THEN budget.tokens ELSE 0
      /\ Rolled(budget, today) \in Counters
  <2>1. today \in Days
    BY DEF BudgetInv, TypeOK
  <2> QED
    BY <1>6, <2>1, BudgetType DEF Rolled, FreshCounters
<1>8. /\ budget'.day = today
      /\ budget'.tokens = Rolled(budget, today).tokens + Estimate
  <2>1. \A c \in Counters : /\ Reserved(c, Estimate).day = c.day
                            /\ Reserved(c, Estimate).tokens = c.tokens + Estimate
    BY DEF Counters, Reserved
  <2> QED
    BY <1>7, <2>1 DEF StartCall
<1>9. Estimate * (n + 1) = Estimate * n + Estimate /\ Estimate * n \in Nat
  BY <1>4, <1>6
<1>10. ASSUME ~carried
       PROVE  spent + Estimate * Cardinality(Calls') <= budget'.tokens
  <2>1. CASE budget.day = today
    <3>1. spent + Estimate * n <= budget.tokens
      BY <1>10, <2>1 DEF BudgetInv
    <3> HIDE DEF n
    <3> QED
      BY <1>4, <1>6, <1>7, <1>8, <1>9, <2>1, <3>1
  <2>2. CASE budget.day # today
    <3>1. spent = 0 /\ n = 0
      BY <1>10, <2>2, FS_EmptySet DEF BudgetInv
    <3> HIDE DEF n
    <3> QED
      BY <1>4, <1>6, <1>7, <1>8, <1>9, <2>2, <3>1
  <2> QED
    BY <2>1, <2>2
<1>11. budget'.day <= today'
  BY <1>2, <1>6, <1>8
<1>12. ~carried => \A q \in Requests : request'[q].step = "calling" => request'[q].day = today'
  BY <1>1, <1>2, <1>5 DEF BudgetInv
<1> QED
  BY <1>2, <1>8, <1>10, <1>11, <1>12 DEF BudgetInv

\* An answer moves the reported usage from the reservation to what was spent.
LEMMA SuccessKeepsBudget ==
    ASSUME BudgetInv, TypeOK', NEW p \in Requests, NEW usage \in Usages,
           CallSucceeds(p, usage)
    PROVE  BudgetInv'
<1> DEFINE r == IF request[p].lock = NoLock THEN Idle
                ELSE [step |-> "storing", key |-> request[p].key, lock |-> request[p].lock]
           n == Cardinality(Calls)
<1>1. r \in Request /\ r.step # "calling"
  BY BusyRequest DEF CallSucceeds, Request, BudgetInv, TypeOK, Idle
<1>2. Goto(p, r) /\ today' = today /\ carried' = carried
  BY DEF CallSucceeds
<1> HIDE DEF r
<1>3. Calls' = Calls \ {p}
  BY <1>1, <1>2, CallsAfter DEF BudgetInv
<1>4. /\ request'[p] = r
      /\ \A q \in Requests : q # p => request'[q] = request[q]
  BY <1>2 DEF BudgetInv, TypeOK, Goto
<1>5. /\ Estimate \in Nat /\ spent \in Nat /\ today \in Nat /\ today \in Days
      /\ budget \in Counters /\ budget.tokens \in Nat /\ budget.day \in Nat
  BY UsageAssumption DEF BudgetInv, TypeOK, Counters, Days
<1>6. Rolled(budget, today) \in Counters /\ Rolled(budget, today).day = today
  BY <1>5, BudgetType DEF Rolled, FreshCounters
<1>7. budget'.day = today
  <2>1. \A c \in Counters : Reconciled(c, Estimate, usage).day = c.day
    BY DEF Counters, Reconciled
  <2> QED
    BY <1>6, <2>1 DEF CallSucceeds
<1>8. budget'.day <= today'
  BY <1>2, <1>5, <1>7
<1>9. ASSUME ~carried
      PROVE  /\ \A q \in Requests : request'[q].step = "calling" => request'[q].day = today
             /\ spent' + Estimate * Cardinality(Calls') <= budget'.tokens
  <2>1. request[p].day = today /\ p \in Calls
    BY <1>9 DEF CallSucceeds, BudgetInv, Calls
  <2>2. budget.day = today /\ Rolled(budget, today) = budget
    BY <1>9, <2>1 DEF BudgetInv, Rolled
  <2>3. spent + Estimate * n <= budget.tokens
    BY <1>9, <2>2 DEF BudgetInv
  <2>4. n \in Nat /\ Cardinality(Calls') = n - 1 /\ n - 1 \in Nat
    BY <1>3, <2>1, CallsFinite, CallsWithout
  <2>5. Estimate * (n - 1) = Estimate * n - Estimate /\ Estimate * n \in Nat
    BY <1>5, <2>4
  <2>6. budget' = Reconciled(budget, Estimate, usage)
    BY <2>2 DEF CallSucceeds
  <2>7. spent' + Estimate * Cardinality(Calls') <= budget'.tokens
    <3>1. CASE usage = NoUsage
      <4>1. spent' = spent /\ budget' = budget
        BY <2>6, <3>1 DEF CallSucceeds, Reconciled
      <4> HIDE DEF n
      <4> QED
        BY <1>5, <2>3, <2>4, <2>5, <4>1
    <3>2. CASE usage # NoUsage
      <4>1. usage \in Nat
        BY <3>2, UsageAssumption
      <4>2. spent' = spent + usage
        BY <2>1, <3>2 DEF CallSucceeds
      <4>3. budget'.tokens = IF budget.tokens + usage < Estimate THEN 0
                             ELSE (budget.tokens + usage) - Estimate
        BY <1>5, <2>6, <3>2 DEF Reconciled, Counters
      <4> HIDE DEF n
      <4> QED
        BY <1>5, <2>3, <2>4, <2>5, <4>1, <4>2, <4>3
    <3> QED
      BY <3>1, <3>2
  <2>8. \A q \in Requests : request'[q].step = "calling" => request'[q].day = today
    BY <1>1, <1>4, <1>9 DEF BudgetInv
  <2> QED
    BY <2>7, <2>8
<1> QED
  BY <1>2, <1>7, <1>8, <1>9 DEF BudgetInv

\* At midnight the calls in flight are either none, or remembered as carried.
LEMMA MidnightKeepsBudget ==
    ASSUME BudgetInv, TypeOK', Midnight
    PROVE  BudgetInv'
<1>1. budget.day \in Nat /\ today \in Nat /\ today' = today + 1 /\ budget' = budget
  BY DEF BudgetInv, TypeOK, Counters, Days, Midnight
<1>2. budget'.day <= today' /\ budget'.day # today'
  BY <1>1 DEF BudgetInv
<1>3. spent' = 0 /\ request' = request
  BY DEF Midnight
<1>4. ~carried' => \A p \in Requests : request[p].step # "calling"
  BY DEF Midnight
<1>5. ~carried' => Calls' = {}
  BY <1>3, <1>4 DEF Calls
<1> QED
  BY <1>2, <1>3, <1>4, <1>5 DEF BudgetInv

\* Every step keeps the invariant of the budget.
LEMMA StepBudget == BudgetInv /\ [Next]_vars => BudgetInv'
<1> SUFFICES ASSUME BudgetInv, [Next]_vars
             PROVE  BudgetInv'
  OBVIOUS
<1>a. TypeOK /\ TypeOK'
  BY StepType DEF BudgetInv
<1>b. \A p \in Requests : request[p] \in Request
  BY <1>a DEF TypeOK
<1>c. Idle \in Request /\ Idle.step # "calling"
  BY DEF Request, Idle
<1>d. ASSUME request' = request, budget' = budget, today' = today, carried' = carried,
             spent' = spent
      PROVE  BudgetInv'
  <2>1. Calls' = Calls
    BY <1>d DEF Calls
  <2> QED
    BY <1>a, <1>d, <2>1 DEF BudgetInv
<1>1. ASSUME NEW p \in Requests, NEW k \in Keys, Arrive(p, k)
      PROVE  BudgetInv'
  <2>1. PICK r \in Request : Goto(p, r) /\ r.step # "calling"
    <3>1. CASE CacheEnabled
      <4>1. PICK l \in LockFor(k) : Goto(p, [step |-> "waiting", key |-> k, lock |-> l])
        BY <1>1, <3>1 DEF Arrive
      <4>2. l \in Locks
        BY <1>a DEF LockFor, TypeOK
      <4> QED
        BY <4>1, <4>2 DEF Request
    <3>2. CASE ~CacheEnabled
      BY <1>1, <3>2 DEF Arrive, Request
    <3> QED
      BY <3>1, <3>2
  <2>2. budget' = budget /\ today' = today /\ carried' = carried /\ spent' = spent
    BY <1>1 DEF Arrive
  <2> QED
    BY <1>a, <2>1, <2>2, BudgetKeeps
<1>2. ASSUME NEW p \in Requests, RefuseInput(p)
      PROVE  BudgetInv'
  BY <1>2, <1>d DEF RefuseInput
<1>3. ASSUME NEW p \in Requests, AcquireLock(p)
      PROVE  BudgetInv'
  <2> DEFINE r == [request[p] EXCEPT !.step = "looking"]
  <2>1. r \in Request /\ r.step # "calling"
    BY <1>3, <1>b, RequestShape DEF AcquireLock, Request
  <2> QED
    BY <1>3, <1>a, <2>1, BudgetKeeps DEF AcquireLock
<1>4. ASSUME NEW p \in Requests, Miss(p)
      PROVE  BudgetInv'
  <2> DEFINE r == [request[p] EXCEPT !.step = "ready"]
  <2>1. r \in Request /\ r.step # "calling"
    BY <1>4, <1>b, RequestShape DEF Miss, Request
  <2> QED
    BY <1>4, <1>a, <2>1, BudgetKeeps DEF Miss
<1>5. ASSUME NEW p \in Requests, LookupFails(p)
      PROVE  BudgetInv'
  <2> DEFINE r == [step |-> "ready", key |-> request[p].key, lock |-> NoLock]
  <2>1. r \in Request /\ r.step # "calling"
    BY <1>5, <1>b, BusyRequest DEF LookupFails, Request
  <2> QED
    BY <1>5, <1>a, <2>1, BudgetKeeps DEF LookupFails
<1>6. ASSUME NEW p \in Requests,
             \/ StampedeTimeout(p) \/ Hit(p) \/ UnusableAnswer(p) \/ CallTimesOut(p) \/ Crash(p)
             \/ \E affectsCircuit \in BOOLEAN : CallFails(p, affectsCircuit)
             \/ \E saved \in BOOLEAN : Store(p, saved)
      PROVE  BudgetInv'
  <2>1. /\ Goto(p, Idle) /\ budget' = budget
        /\ today' = today /\ carried' = carried /\ spent' = spent
    BY <1>6 DEF StampedeTimeout, Hit, UnusableAnswer, CallTimesOut, Crash, CallFails, Store, Answer
  <2> QED
    BY <1>a, <1>c, <2>1, BudgetKeeps
<1>7. ASSUME NEW p \in Requests, OverBudget(p) \/ CircuitRefuses(p)
      PROVE  BudgetInv'
  <2>1. Goto(p, Idle) /\ today' = today /\ carried' = carried /\ spent' = spent
    BY <1>7 DEF OverBudget, CircuitRefuses, Answer
  <2>2. today \in Days /\ budget \in Counters /\ Estimate \in Nat
    BY <1>a, UsageAssumption DEF TypeOK
  <2>3. /\ Rolled(budget, today) \in Counters /\ Rolled(budget, today).day = today
        /\ budget.day = today => Rolled(budget, today).tokens = budget.tokens
    BY <2>2, BudgetType DEF Rolled, FreshCounters
  <2>4. \A c \in Counters : /\ Reserved(c, Estimate).day = c.day
                            /\ Reserved(c, Estimate).tokens = c.tokens + Estimate
                            /\ c.tokens \in Nat
    BY DEF Counters, Reserved
  <2>5. budget' = Rolled(budget, today) \/ budget' = Reserved(Rolled(budget, today), Estimate)
    BY <1>7 DEF OverBudget, CircuitRefuses
  <2>6. budget'.day = today
    BY <2>3, <2>4, <2>5
  <2>7. budget.day = today => budget'.tokens >= budget.tokens
    BY <2>2, <2>3, <2>4, <2>5
  <2> QED
    BY <1>a, <1>c, <2>1, <2>6, <2>7, BudgetKeeps
<1>8. ASSUME NEW p \in Requests, StartCall(p)
      PROVE  BudgetInv'
  BY <1>8, <1>a, StartKeepsBudget
<1>9. ASSUME NEW p \in Requests, NEW usage \in Usages, CallSucceeds(p, usage)
      PROVE  BudgetInv'
  BY <1>9, <1>a, SuccessKeepsBudget
<1>10. CASE Midnight
  BY <1>10, <1>a, MidnightKeepsBudget
<1>11. CASE CoolDown \/ \E k \in Keys : Expire(k)
  BY <1>11, <1>d DEF CoolDown, Expire
<1>12. CASE UNCHANGED vars
  BY <1>12, <1>d DEF vars
<1> QED
  BY <1>1, <1>2, <1>3, <1>4, <1>5, <1>6, <1>7, <1>8, <1>9, <1>10, <1>11, <1>12 DEF Next

\* A call that the budget affords fits beside what the day's answers cost and
\* what the calls in flight have reserved.
LEMMA AffordedCallFits ==
    ASSUME BudgetInv, NEW p \in Requests, StartCall(p), ~carried
    PROVE  spent + Estimate * (Cardinality(Calls) + 1) <= TokenLimit
<1> DEFINE n == Cardinality(Calls)
<1>1. /\ Estimate \in Nat /\ spent \in Nat /\ TokenLimit \in Nat /\ budget.tokens \in Nat
  BY UsageAssumption, LimitsAssumption DEF BudgetInv, TypeOK, Counters
<1>2. Rolled(budget, today).tokens + Estimate <= TokenLimit
  BY DEF StartCall, Affords
<1>3. n \in Nat
  BY CallsFinite
<1>4. spent + Estimate * n <= Rolled(budget, today).tokens
  <2>1. CASE budget.day = today
    BY <2>1 DEF Rolled, BudgetInv
  <2>2. CASE budget.day # today
    <3>1. Rolled(budget, today).tokens = 0 /\ spent = 0
      BY <2>2 DEF Rolled, FreshCounters, BudgetInv
    <3>2. n = 0
      BY <2>2, FS_EmptySet DEF BudgetInv
    <3> QED
      BY <1>1, <3>1, <3>2
  <2> QED
    BY <2>1, <2>2
<1> HIDE DEF n
<1>5. Estimate * (n + 1) = Estimate * n + Estimate /\ Estimate * n \in Nat
  BY <1>1, <1>3
<1>6. spent + Estimate * (n + 1) <= TokenLimit
  <2> DEFINE m == Estimate * n
             t == Rolled(budget, today).tokens
  <2>1. t \in Nat
    <3>1. today \in Nat /\ budget \in Counters
      BY UsageAssumption DEF BudgetInv, TypeOK, Days
    <3> QED
      BY <3>1 DEF Rolled, FreshCounters, Counters
  <2>2. m \in Nat /\ spent + m <= t /\ t + Estimate <= TokenLimit
    BY <1>2, <1>4, <1>5
  <2>3. Estimate * (n + 1) = m + Estimate
    BY <1>5
  <2> HIDE DEF m, t
  <2> QED
    BY <1>1, <2>1, <2>2, <2>3
<1> QED
  BY <1>6 DEF n

\* The daily hard stop, for any number of calls in flight, refused, failed or
\* answered, and any usage the provider reports (budgets.py): on a day whose
\* midnight no call crossed, no call starts that the day's answers and the
\* calls in flight leave no room for.
THEOREM HardStop == Spec => HardStopWithinADay
<1>1. BudgetInv => \A p \in Requests :
                      StartCall(p) /\ ~carried =>
                          spent + Estimate * (Cardinality(Calls) + 1) <= TokenLimit
  BY AffordedCallFits
<1>2. BudgetInv /\ [Next]_vars =>
        [\A p \in Requests :
            StartCall(p) /\ ~carried =>
                spent + Estimate * (Cardinality(Calls) + 1) <= TokenLimit]_vars
  BY <1>1
<1> QED
  BY <1>2, InitBudget, StepBudget, PTL DEF Spec, HardStopWithinADay
===============================================================================
