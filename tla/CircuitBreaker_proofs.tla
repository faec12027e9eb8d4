------------------------ MODULE CircuitBreaker_proofs ------------------------
(* Proofs about CircuitBreaker, for every threshold, recovery time and       *)
(* number of requests.                                                       *)
EXTENDS CircuitBreaker, TLAPS

(* The type invariant.                                                       *)
THEOREM TypeCorrect == Spec => []TypeOK
  <1>1. Init => TypeOK
    <2> SUFFICES ASSUME Init PROVE TypeOK
      OBVIOUS
    <2>1. 0 \in 0 .. MaxTime /\ 0 \in 0 .. MaxFaults
      BY CircuitBreakerAssumption
    <2> QED
      BY <2>1 DEF Init, TypeOK
  <1>2. TypeOK /\ [Next]_vars => TypeOK'
    <2> SUFFICES ASSUME TypeOK, [Next]_vars
                 PROVE  TypeOK'
      OBVIOUS
    <2> USE DEF TypeOK, Goto, breaker, counters, history
    <2>1. ASSUME NEW s \in {"closed", "open", "half_open"}, OnFailure(s)
          PROVE  /\ state' \in {"closed", "open", "half_open"}
                 /\ failures' \in Nat /\ openedAt' \in Nat
                 /\ failed' \in Nat /\ recoveries' \in Nat /\ trips' \in Nat
      BY <2>1 DEF OnFailure
    <2>2. GateState \in {"closed", "open", "half_open"}
      BY DEF GateState
    <2>3. ASSUME NEW r \in Requests, Hit(r) \/ Miss(r) \/ Blocked(r)
          PROVE  TypeOK'
      BY <2>3 DEF Hit, Miss, Blocked
    <2>4. ASSUME NEW r \in Requests, FailAtDb(r) PROVE TypeOK'
      BY <2>1, <2>2, <2>4 DEF FailAtDb
    <2>5. ASSUME NEW r \in Requests, Admit(r) PROVE TypeOK'
      BY <2>2, <2>5 DEF Admit
    <2>6. ASSUME NEW r \in Requests, Succeed(r) PROVE TypeOK'
      BY <2>6 DEF Succeed, OnSuccess
    <2>7. ASSUME NEW r \in Requests, Store(r) PROVE TypeOK'
      BY <2>7 DEF Store
    <2>8. ASSUME NEW r \in Requests, StoreFails(r) PROVE TypeOK'
      <3>1. faults' \in 0 .. MaxFaults
        BY <2>8, CircuitBreakerAssumption DEF StoreFails
      <3>2. entry' \in BOOLEAN
        BY <2>8, Zenon DEF StoreFails
      <3> QED
        BY <2>1, <2>8, <3>1, <3>2 DEF StoreFails
    <2>9. ASSUME NEW b \in BOOLEAN, SetInject(b) PROVE TypeOK'
      BY <2>9 DEF SetInject
    <2>10. ASSUME NEW b \in BOOLEAN, Reset(b) PROVE TypeOK'
      <3>1. /\ allowed' \in Nat /\ blocked' \in Nat /\ failed' \in Nat
            /\ recoveries' \in Nat /\ trips' \in Nat
        BY <2>10 DEF Reset
      <3>2. /\ resetting' \in BOOLEAN /\ inject' \in BOOLEAN
            /\ failures' \in Nat /\ state' = "closed"
            /\ UNCHANGED <<openedAt, entry, pc, now, faults, probes>>
        BY <2>10 DEF Reset
      <3> QED
        BY <3>1, <3>2
    <2>11. CASE ResetDelete \/ Expire
      BY <2>11 DEF ResetDelete, Expire
    <2>12. CASE Tick
      BY <2>12, CircuitBreakerAssumption DEF Tick
    <2>13. CASE Crash
      <3>1. pc' \in [Requests -> {"new", "gate", "db", "store", "done"}]
        BY <2>13 DEF Crash
      <3>2. faults' \in 0 .. MaxFaults
        BY <2>13, CircuitBreakerAssumption DEF Crash
      <3> QED
        BY <2>13, <3>1, <3>2 DEF Crash
    <2>14. CASE UNCHANGED vars
      BY <2>14 DEF vars
    <2> QED
      BY <2>3, <2>4, <2>5, <2>6, <2>7, <2>8, <2>9, <2>10, <2>11, <2>12, <2>13,
         <2>14 DEF Next, Fetch
  <1> QED
    BY <1>1, <1>2, PTL DEF Spec

----------------------------------------------------------------------------
(* The clock never runs behind the moment the breaker opened, which makes    *)
(* the conjunction of the breaker's properties inductive.                    *)
BreakerInv ==
    /\ openedAt <= now
    /\ StateMatchesCount
    /\ HalfOpenIsLate
    /\ HalfOpenIsProbed
    /\ TripsAreEarned
    /\ RecoveriesAfterTrips

LEMMA TimesSucc ==
    ASSUME NEW m \in Nat, NEW n \in Nat
    PROVE  m * (n + 1) = m * n + m /\ m * n \in Nat
  OBVIOUS

(* on_failure, from the breaker as it is or as the gate has just made it.    *)
LEMMA FailureKeepsBreaker ==
    ASSUME TypeOK, BreakerInv, NEW s \in {state, GateState}, OnFailure(s),
           now' = now, s = "half_open" => now >= openedAt + RECOVERY
    PROVE  BreakerInv'
  <1> USE CircuitBreakerAssumption DEF TypeOK
  <1>1. /\ failures' = failures + 1
        /\ failed' = failed + 1
        /\ recoveries' = recoveries
    BY DEF OnFailure
  <1>2. s = "closed" <=> state = "closed"
    BY DEF GateState
  <1>3. CASE failures + 1 >= THRESHOLD
    <2>1. state' = "open" /\ openedAt' = now
      BY <1>3 DEF OnFailure
    <2>2. trips' = IF state = "closed" THEN trips + 1 ELSE trips
      BY <2>1 DEF OnFailure
    <2>3. THRESHOLD * (trips + 1) = THRESHOLD * trips + THRESHOLD
      BY TimesSucc
    <2>4. TripsAreEarned'
      <3>1. CASE state = "closed"
        <4>1. failures + 1 = THRESHOLD
          BY <1>3, <3>1 DEF BreakerInv, StateMatchesCount
        <4>2. failed >= THRESHOLD * trips + failures
          BY <3>1 DEF BreakerInv, TripsAreEarned
        <4> QED
          BY <1>1, <2>1, <2>2, <2>3, <3>1, <4>1, <4>2, TimesSucc DEF TripsAreEarned
      <3>2. CASE state # "closed"
        <4>1. failed >= THRESHOLD * trips
          BY <3>2, TimesSucc DEF BreakerInv, TripsAreEarned
        <4> QED
          BY <1>1, <2>1, <2>2, <3>2, <4>1, TimesSucc DEF TripsAreEarned
      <3> QED
        BY <3>1, <3>2
    <2>5. RecoveriesAfterTrips'
      BY <1>1, <2>1, <2>2 DEF BreakerInv, RecoveriesAfterTrips
    <2>6. StateMatchesCount' /\ HalfOpenIsLate' /\ openedAt' <= now'
      BY <1>1, <1>3, <2>1 DEF StateMatchesCount, HalfOpenIsLate
    <2>7. HalfOpenIsProbed'
      BY <2>1 DEF HalfOpenIsProbed
    <2> QED
      BY <2>4, <2>5, <2>6, <2>7 DEF BreakerInv
  <1>4. CASE ~(failures + 1 >= THRESHOLD)
    <2>1. state' = s /\ openedAt' = openedAt
      BY <1>4 DEF OnFailure
    <2>2. state = "closed"
      BY <1>4 DEF BreakerInv, StateMatchesCount
    <2>3. trips' = trips
      BY <1>2, <2>1, <2>2 DEF OnFailure
    <2> QED
      BY <1>1, <1>2, <1>4, <2>1, <2>2, <2>3, TimesSucc
         DEF BreakerInv, StateMatchesCount, HalfOpenIsLate, HalfOpenIsProbed, TripsAreEarned,
             RecoveriesAfterTrips
  <1> QED
    BY <1>3, <1>4

LEMMA BreakerInvariant == Spec => []BreakerInv
  <1>1. Init => BreakerInv
    BY CircuitBreakerAssumption, TimesSucc
       DEF Init, BreakerInv, StateMatchesCount, HalfOpenIsLate, HalfOpenIsProbed, TripsAreEarned,
           RecoveriesAfterTrips
  <1>2. TypeOK /\ BreakerInv /\ [Next]_vars => BreakerInv'
    <2> SUFFICES ASSUME TypeOK, BreakerInv, [Next]_vars
                 PROVE  BreakerInv'
      OBVIOUS
    <2> USE CircuitBreakerAssumption DEF breaker, counters, history
    <2>1. ASSUME UNCHANGED <<state, failures, openedAt, failed, recoveries, trips, probes>>,
                 now' \in Nat, now' >= now
          PROVE  BreakerInv'
      BY <2>1 DEF TypeOK, BreakerInv, StateMatchesCount, HalfOpenIsLate,
                  HalfOpenIsProbed, TripsAreEarned, RecoveriesAfterTrips
    <2>2. GateState = "half_open" /\ Allows => now >= openedAt + RECOVERY
      BY DEF GateState, Allows, BreakerInv, HalfOpenIsLate, TypeOK
    <2>3. ASSUME failures' = 0, state' = "closed", openedAt' = openedAt, now' = now,
                 \/ /\ UNCHANGED <<failed, trips>>
                    /\ recoveries' = IF state # "closed" THEN recoveries + 1
                                     ELSE recoveries
                 \/ UNCHANGED <<failed, trips, recoveries>>
                 \/ failed' = 0 /\ trips' = 0 /\ recoveries' = 0
          PROVE  BreakerInv'
      <3>1. TripsAreEarned'
        BY <2>3, TimesSucc DEF TypeOK, BreakerInv, TripsAreEarned
      <3>2. RecoveriesAfterTrips'
        BY <2>3 DEF TypeOK, BreakerInv, RecoveriesAfterTrips
      <3> QED
        BY <2>3, <3>1, <3>2
           DEF TypeOK, BreakerInv, StateMatchesCount, HalfOpenIsLate, HalfOpenIsProbed
    <2>4. ASSUME NEW r \in Requests, Hit(r) \/ Miss(r) \/ Blocked(r) \/ Store(r)
          PROVE  BreakerInv'
      BY <2>1, <2>4 DEF Hit, Miss, Blocked, Store, TypeOK
    <2>5. ASSUME NEW r \in Requests, FailAtDb(r) PROVE BreakerInv'
      BY <2>2, <2>5, FailureKeepsBreaker DEF FailAtDb
    <2>6. ASSUME NEW r \in Requests, Admit(r) PROVE BreakerInv'
      BY <2>2, <2>6, TimesSucc
         DEF Admit, GateState, TypeOK, BreakerInv, StateMatchesCount,
             HalfOpenIsLate, HalfOpenIsProbed, TripsAreEarned, RecoveriesAfterTrips
    <2>7. ASSUME NEW r \in Requests, Succeed(r) PROVE BreakerInv'
      BY <2>3, <2>7 DEF Succeed, OnSuccess
    <2>8. ASSUME NEW r \in Requests, StoreFails(r) PROVE BreakerInv'
      BY <2>8, FailureKeepsBreaker DEF StoreFails, BreakerInv, HalfOpenIsLate
    <2>9. ASSUME NEW b \in BOOLEAN, SetInject(b) PROVE BreakerInv'
      BY <2>1, <2>9 DEF SetInject, TypeOK
    <2>10. ASSUME NEW b \in BOOLEAN, Reset(b) PROVE BreakerInv'
      BY <2>3, <2>10 DEF Reset
    <2>11. CASE ResetDelete \/ Expire \/ Tick \/ UNCHANGED vars
      BY <2>1, <2>11 DEF ResetDelete, Expire, Tick, vars, TypeOK
    <2>12. CASE Crash
      BY <2>12, TimesSucc
         DEF Crash, TypeOK, BreakerInv, StateMatchesCount, HalfOpenIsLate,
             HalfOpenIsProbed, TripsAreEarned, RecoveriesAfterTrips
    <2> QED
      BY <2>4, <2>5, <2>6, <2>7, <2>8, <2>9, <2>10, <2>11, <2>12 DEF Next, Fetch
  <1> QED
    BY <1>1, <1>2, TypeCorrect, PTL DEF Spec

(* State, count and clock agree for every threshold and every interleaving,  *)
(* and a HALF_OPEN breaker always has a probe that will decide.              *)
THEOREM BreakerConsistent == Spec => []BreakerIsConsistent
  BY BreakerInvariant, PTL DEF BreakerInv, BreakerIsConsistent

(* Every trip takes THRESHOLD failures of its own, and recoveries are never  *)
(* counted without a trip.                                                   *)
THEOREM TripsAreCounted == Spec => []TripsAddUp
  BY BreakerInvariant, PTL DEF BreakerInv, TripsAddUp

=============================================================================
