--------------------------- MODULE CircuitBreaker ---------------------------
(* The circuit breaker of be/routers/s212_thundering_herd.py: class          *)
(* _CircuitBreaker, GET /cb/fetch that is guarded by it, and the endpoints   *)
(* that switch and reset it. One action is the code between two awaits of    *)
(* one request: the breaker has no lock, it relies on exactly that.          *)
EXTENDS Integers, FiniteSets

CONSTANTS
    Requests,   \* GET /cb/fetch requests, each served once
    THRESHOLD,  \* failures that trip the breaker, 3 in the code
    RECOVERY,   \* clock units in OPEN before a probe, 15 s in the code
    MaxTime,    \* bound: the clock stops there
    MaxFaults   \* bound: failed Redis calls and restarts in a behaviour

ASSUME CircuitBreakerAssumption ==
    /\ THRESHOLD \in Nat \ {0}
    /\ RECOVERY \in Nat
    /\ MaxTime \in Nat
    /\ MaxFaults \in Nat

VARIABLES
    state, failures, openedAt,  \* the fields of _cb
    inject,     \* _inject_failure
    entry,      \* Redis: th212:cb:resource exists
    pc,         \* where each request is
    allowed, blocked, failed, recoveries,   \* the cb_ counters of _stats
    resetting,  \* a reset endpoint has yet to delete the Redis key
    now,        \* time.time()
    faults,     \* faults so far
    trips,      \* history: CLOSED to OPEN transitions since the last reset of
                \* the counters
    probes      \* history: requests at the database admitted in HALF_OPEN

breaker == <<state, failures, openedAt>>
counters == <<allowed, blocked, failed, recoveries>>
history == <<trips, probes>>
vars == <<breaker, inject, entry, pc, counters, resetting, now, faults, history>>

Init ==
    /\ state = "closed" /\ failures = 0 /\ openedAt = 0
    /\ inject = FALSE
    /\ entry = FALSE
    /\ pc = [r \in Requests |-> "new"]
    /\ allowed = 0 /\ blocked = 0 /\ failed = 0 /\ recoveries = 0
    /\ resetting = FALSE
    /\ now = 0
    /\ faults = 0
    /\ trips = 0 /\ probes = {}

Goto(r, from, to) ==
    /\ pc[r] = from
    /\ pc' = [pc EXCEPT ![r] = to]

----------------------------------------------------------------------------
(* Mutant: the recovery time ends one unit early.                            *)
AllowsEarly == state = "open" => now - openedAt >= RECOVERY - 1

(* class _CircuitBreaker. allow_request is a test and, from an OPEN breaker  *)
(* whose recovery time is over, a change to HALF_OPEN.                       *)
Allows == state = "open" => now - openedAt >= RECOVERY

GateState == IF state = "open" THEN "half_open" ELSE state

(* Mutant: a success does not reset the count.                               *)
SuccessKeepsCount ==
    /\ recoveries' = IF state # "closed" THEN recoveries + 1 ELSE recoveries
    /\ state' = "closed"
    /\ UNCHANGED <<failures, openedAt, failed, trips>>

(* Mutant: every success is a recovery.                                      *)
SuccessRecovers ==
    /\ recoveries' = recoveries + 1
    /\ failures' = 0
    /\ state' = "closed"
    /\ UNCHANGED <<openedAt, failed, trips>>

OnSuccess ==
    /\ recoveries' = IF state # "closed" THEN recoveries + 1 ELSE recoveries
    /\ failures' = 0
    /\ state' = "closed"
    /\ UNCHANGED <<openedAt, failed, trips>>

(* Mutant: the breaker trips one failure early.                              *)
FailureTripsEarly(s) ==
    /\ failures' = failures + 1
    /\ failed' = failed + 1
    /\ IF failures + 1 >= THRESHOLD - 1
       THEN state' = "open" /\ openedAt' = now
       ELSE state' = s /\ UNCHANGED openedAt
    /\ trips' = IF state = "closed" /\ state' = "open" THEN trips + 1 ELSE trips
    /\ UNCHANGED recoveries

(* Mutant: only a CLOSED breaker trips, so that a failing probe leaves it    *)
(* HALF_OPEN.                                                                *)
FailureTripsClosed(s) ==
    /\ failures' = failures + 1
    /\ failed' = failed + 1
    /\ IF s = "closed" /\ failures + 1 >= THRESHOLD
       THEN state' = "open" /\ openedAt' = now
       ELSE state' = s /\ UNCHANGED openedAt
    /\ trips' = IF state = "closed" /\ state' = "open" THEN trips + 1 ELSE trips
    /\ UNCHANGED recoveries

(* on_failure, called by a request that found the breaker in state s.        *)
OnFailure(s) ==
    /\ failures' = failures + 1
    /\ failed' = failed + 1
    /\ IF failures + 1 >= THRESHOLD
       THEN state' = "open" /\ openedAt' = now
       ELSE state' = s /\ UNCHANGED openedAt
    /\ trips' = IF state = "closed" /\ state' = "open" THEN trips + 1 ELSE trips
    /\ UNCHANGED recoveries

----------------------------------------------------------------------------
(* GET /cb/fetch: the cached resource, or the gate.                          *)
Hit(r) ==
    /\ Goto(r, "new", "done")
    /\ entry
    /\ UNCHANGED <<breaker, inject, entry, counters, resetting, now, faults, history>>

Miss(r) ==
    /\ Goto(r, "new", "gate")
    /\ ~entry
    /\ UNCHANGED <<breaker, inject, entry, counters, resetting, now, faults, history>>

Blocked(r) ==
    /\ Goto(r, "gate", "done")
    /\ ~Allows
    /\ blocked' = blocked + 1
    /\ UNCHANGED <<breaker, inject, entry, allowed, failed, recoveries, resetting,
                   now, faults, history>>

(* An injected failure is raised before the first await after the gate.      *)
FailAtDb(r) ==
    /\ Goto(r, "gate", "done")
    /\ Allows
    /\ inject
    /\ OnFailure(GateState)
    /\ allowed' = allowed + 1
    /\ UNCHANGED <<inject, entry, blocked, resetting, now, faults, probes>>

Admit(r) ==
    /\ Goto(r, "gate", "db")
    /\ Allows
    /\ ~inject
    /\ state' = GateState
    /\ probes' = IF GateState = "half_open" THEN probes \cup {r} ELSE probes
    /\ UNCHANGED <<failures, openedAt, inject, entry, counters, resetting, now,
                   faults, trips>>

Succeed(r) ==
    /\ Goto(r, "db", "store")
    /\ OnSuccess
    /\ allowed' = allowed + 1
    /\ probes' = probes \ {r}
    /\ UNCHANGED <<inject, entry, blocked, resetting, now, faults>>

Store(r) ==
    /\ Goto(r, "store", "done")
    /\ entry' = TRUE
    /\ UNCHANGED <<breaker, inject, counters, resetting, now, faults, history>>

(* SETEX raises inside the same try block: the except clause counts it as a  *)
(* failure of the database. The SETEX may have run all the same.             *)
StoreFails(r) ==
    /\ faults < MaxFaults
    /\ Goto(r, "store", "done")
    /\ OnFailure(state)
    /\ allowed' = allowed + 1
    /\ entry' \in {entry, TRUE}
    /\ faults' = faults + 1
    /\ UNCHANGED <<inject, blocked, resetting, now, probes>>

Fetch(r) ==
    \/ Hit(r) \/ Miss(r)
    \/ Blocked(r) \/ FailAtDb(r) \/ Admit(r) \/ Succeed(r)
    \/ Store(r) \/ StoreFails(r)

----------------------------------------------------------------------------
(* POST /cb/inject-failure and POST /cb/clear-failure.                       *)
SetInject(b) ==
    /\ inject' = b
    /\ UNCHANGED <<breaker, entry, pc, counters, resetting, now, faults, history>>

(* Mutant: the state is set to the name of the enum member.                  *)
ResetToName(all) ==
    /\ ~resetting
    /\ resetting' = TRUE
    /\ inject' = FALSE
    /\ failures' = 0
    /\ state' = "CLOSED"
    /\ UNCHANGED <<openedAt, entry, pc, counters, now, faults, history>>

(* POST /cb/reset and, with the counters, POST /reset: the breaker first,    *)
(* then the key, in a later step.                                            *)
Reset(all) ==
    /\ ~resetting
    /\ resetting' = TRUE
    /\ inject' = FALSE
    /\ failures' = 0
    /\ state' = "closed"
    /\ IF all
       THEN /\ allowed' = 0 /\ blocked' = 0 /\ failed' = 0 /\ recoveries' = 0
            /\ trips' = 0
       ELSE UNCHANGED <<counters, trips>>
    /\ UNCHANGED <<openedAt, entry, pc, now, faults, probes>>

ResetDelete ==
    /\ resetting
    /\ resetting' = FALSE
    /\ entry' = FALSE
    /\ UNCHANGED <<breaker, inject, pc, counters, now, faults, history>>

(* The key expires, or DELETE /cache removes it.                             *)
Expire ==
    /\ entry
    /\ entry' = FALSE
    /\ UNCHANGED <<breaker, inject, pc, counters, resetting, now, faults, history>>

Tick ==
    /\ now < MaxTime
    /\ now' = now + 1
    /\ UNCHANGED <<breaker, inject, entry, pc, counters, resetting, faults, history>>

(* The breaker, the switch and the counters live in the process.             *)
Crash ==
    /\ faults < MaxFaults
    /\ faults' = faults + 1
    /\ state' = "closed" /\ failures' = 0 /\ openedAt' = 0
    /\ inject' = FALSE
    /\ pc' = [r \in Requests |-> IF pc[r] = "new" THEN "new" ELSE "done"]
    /\ allowed' = 0 /\ blocked' = 0 /\ failed' = 0 /\ recoveries' = 0
    /\ resetting' = FALSE
    /\ trips' = 0 /\ probes' = {}
    /\ UNCHANGED <<entry, now>>

Next ==
    \/ \E r \in Requests : Fetch(r)
    \/ \E b \in BOOLEAN : SetInject(b) \/ Reset(b)
    \/ ResetDelete
    \/ Expire
    \/ Tick
    \/ Crash

(* The loop resumes a request that is at the database or at SETEX, and time  *)
(* passes.                                                                   *)
Fairness ==
    /\ \A r \in Requests : WF_vars(Succeed(r) \/ Store(r))
    /\ WF_vars(Tick)

Spec == Init /\ [][Next]_vars /\ Fairness

----------------------------------------------------------------------------
TypeOK ==
    /\ state \in {"closed", "open", "half_open"}
    /\ failures \in Nat /\ openedAt \in Nat
    /\ inject \in BOOLEAN
    /\ entry \in BOOLEAN
    /\ pc \in [Requests -> {"new", "gate", "db", "store", "done"}]
    /\ allowed \in Nat /\ blocked \in Nat /\ failed \in Nat /\ recoveries \in Nat
    /\ resetting \in BOOLEAN
    /\ now \in 0 .. MaxTime
    /\ faults \in 0 .. MaxFaults
    /\ trips \in Nat
    /\ probes \subseteq Requests

(* The state and the count never contradict each other: the breaker is       *)
(* CLOSED exactly when fewer than THRESHOLD failures are counted, whatever   *)
(* late answer, failing probe or reset comes in between. HALF_OPEN is        *)
(* reached only after the recovery time, which a failing probe starts anew,  *)
(* and never without a probe at the database that will decide: the breaker   *)
(* cannot be left there.                                                     *)
StateMatchesCount == state = "closed" <=> failures < THRESHOLD
HalfOpenIsLate == state = "half_open" => now >= openedAt + RECOVERY
HalfOpenIsProbed == state = "half_open" => probes # {}
BreakerIsConsistent == StateMatchesCount /\ HalfOpenIsLate /\ HalfOpenIsProbed

(* Each trip took THRESHOLD failures of its own: failures that were counted  *)
(* for one trip never help to cause the next; and cb_recoveries of GET       *)
(* /stats is one at most for each trip, and none for a trip that is not over.*)
TripsAreEarned ==
    failed >= THRESHOLD * trips + (IF state = "closed" THEN failures ELSE 0)
RecoveriesAfterTrips ==
    recoveries + (IF state = "closed" THEN 0 ELSE 1) <= trips
TripsAddUp == TripsAreEarned /\ RecoveriesAfterTrips
============================================================================
