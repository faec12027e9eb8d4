------------------------------ MODULE Stampede ------------------------------
(* Stampede prevention, be/routers/s211_stampede.py: a request that misses   *)
(* the cache takes a Redis lock (SET NX EX) and rebuilds the entry, the      *)
(* others poll the cache for a while and then go to the database themselves. *)
(* One action is the code between two awaits of one request. Time is left    *)
(* out: either key may expire between any two steps, and a poll may find     *)
(* nothing however long the rebuild takes.                                   *)
EXTENDS Naturals, FiniteSets

CONSTANTS
    SafeRequests,   \* GET /trending/safe, or the tasks of POST /simulate
    UnsafeRequests, \* GET /trending/unsafe
    None,           \* the lock key is absent
    MAX_SPINS,      \* polls before the fallback, 20 in the code
    MaxFaults       \* bound: failed calls and restarts in a behaviour

Requests == SafeRequests \cup UnsafeRequests

ASSUME StampedeAssumption ==
    /\ SafeRequests \cap UnsafeRequests = {}
    /\ None \notin Requests
    /\ MAX_SPINS \in Nat \ {0}
    /\ MaxFaults \in Nat

VARIABLES
    entry,      \* Redis: the safe key and the unsafe key exist
    lock,       \* Redis: None, or the request that set the lock key; the value
                \* in Redis is "1" for all, so no action compares it
    pc,         \* where each request is
    spins,      \* polls each waiting request has made
    metrics,    \* _metrics, without the totals and hits_unsafe, which only
                \* the rates of GET /stats use
    clearing,   \* keys that DELETE /cache or POST /reset has yet to delete
    faults,     \* faults so far
    evicted,    \* history: requests whose lock went away while they held it
    disturbed   \* history: a key has expired or been cleared

vars == <<entry, lock, pc, spins, metrics, clearing, faults, evicted, disturbed>>

Keys == {"safe", "unsafe", "lock"}
Zero == [hits |-> 0, misses |-> 0, unsafeMisses |-> 0, dbCalls |-> 0,
         acquired |-> 0, waited |-> 0, timeouts |-> 0]

(* Redis may hold entries from before the process started.                   *)
Init ==
    /\ entry \in [{"safe", "unsafe"} -> BOOLEAN]
    /\ lock = None
    /\ pc = [r \in Requests |-> "new"]
    /\ spins = [r \in Requests |-> 0]
    /\ metrics = Zero
    /\ clearing = {}
    /\ faults = 0
    /\ evicted = {}
    /\ disturbed = FALSE

Goto(r, from, to) ==
    /\ pc[r] = from
    /\ pc' = [pc EXCEPT ![r] = to]

(* Between SET NX and the DEL of its finally block a request believes that   *)
(* it has the lock. Whoever removes the lock key then evicts it.             *)
Holding(r) == pc[r] \in {"compute", "write", "release"}
Evict(r) ==
    evicted' = evicted \cup {q \in SafeRequests \ {r} : lock = q /\ Holding(q)}

----------------------------------------------------------------------------
(* GET on the entry: a hit is answered, a miss goes for the lock.            *)
Hit(r) ==
    /\ Goto(r, "new", "done")
    /\ entry.safe
    /\ metrics' = [metrics EXCEPT !.hits = @ + 1]
    /\ UNCHANGED <<entry, lock, spins, clearing, faults, evicted, disturbed>>

Miss(r) ==
    /\ Goto(r, "new", "acquire")
    /\ ~entry.safe
    /\ metrics' = [metrics EXCEPT !.misses = @ + 1]
    /\ UNCHANGED <<entry, lock, spins, clearing, faults, evicted, disturbed>>

(* Mutant: SET without NX.                                                   *)
AcquireAlways(r) ==
    /\ Goto(r, "acquire", "compute")
    /\ lock' = r
    /\ metrics' = [metrics EXCEPT !.acquired = @ + 1, !.dbCalls = @ + 1]
    /\ UNCHANGED <<entry, spins, clearing, faults, evicted, disturbed>>

(* SET NX: the winner starts the database call, which counts itself.         *)
Acquire(r) ==
    /\ Goto(r, "acquire", "compute")
    /\ lock = None
    /\ lock' = r
    /\ metrics' = [metrics EXCEPT !.acquired = @ + 1, !.dbCalls = @ + 1]
    /\ UNCHANGED <<entry, spins, clearing, faults, evicted, disturbed>>

Wait(r) ==
    /\ Goto(r, "acquire", "spin")
    /\ lock # None
    /\ metrics' = [metrics EXCEPT !.waited = @ + 1]
    /\ UNCHANGED <<entry, lock, spins, clearing, faults, evicted, disturbed>>

Compute(r) ==
    /\ Goto(r, "compute", "write")
    /\ UNCHANGED <<entry, lock, spins, metrics, clearing, faults, evicted, disturbed>>

Write(r) ==
    /\ Goto(r, "write", "release")
    /\ entry' = [entry EXCEPT !.safe = TRUE]
    /\ UNCHANGED <<lock, spins, metrics, clearing, faults, evicted, disturbed>>

(* The finally block deletes the lock key, whoever set it.                   *)
Release(r) ==
    /\ Goto(r, "release", "done")
    /\ lock' = None
    /\ Evict(r)
    /\ UNCHANGED <<entry, spins, metrics, clearing, faults, disturbed>>

(* One poll; after the last empty one the request calls the database itself  *)
(* and does not write the entry.                                             *)
SpinHit(r) ==
    /\ Goto(r, "spin", "done")
    /\ entry.safe
    /\ UNCHANGED <<entry, lock, spins, metrics, clearing, faults, evicted, disturbed>>

(* Mutant: one poll too many.                                                *)
SpinMissOnce(r) ==
    /\ pc[r] = "spin"
    /\ ~entry.safe
    /\ spins' = [spins EXCEPT ![r] = @ + 1]
    /\ spins[r] <= MAX_SPINS
    /\ UNCHANGED <<entry, lock, pc, metrics, clearing, faults, evicted, disturbed>>

SpinMiss(r) ==
    /\ pc[r] = "spin"
    /\ ~entry.safe
    /\ spins' = [spins EXCEPT ![r] = @ + 1]
    /\ spins[r] + 1 < MAX_SPINS
    /\ UNCHANGED <<entry, lock, pc, metrics, clearing, faults, evicted, disturbed>>

(* Mutant: the polls start again instead of ending.                          *)
SpinRestarts(r) ==
    /\ pc[r] = "spin"
    /\ ~entry.safe
    /\ spins[r] + 1 = MAX_SPINS
    /\ spins' = [spins EXCEPT ![r] = 0]
    /\ UNCHANGED <<entry, lock, pc, metrics, clearing, faults, evicted, disturbed>>

SpinTimeout(r) ==
    /\ Goto(r, "spin", "fallback")
    /\ ~entry.safe
    /\ spins' = [spins EXCEPT ![r] = @ + 1]
    /\ spins[r] + 1 = MAX_SPINS
    /\ metrics' = [metrics EXCEPT !.timeouts = @ + 1, !.dbCalls = @ + 1]
    /\ UNCHANGED <<entry, lock, clearing, faults, evicted, disturbed>>

(* Mutant: a waiter that gave up deletes the lock key.                       *)
FallbackUnlocks(r) ==
    /\ Goto(r, "fallback", "done")
    /\ lock' = None
    /\ Evict(r)
    /\ UNCHANGED <<entry, spins, metrics, clearing, faults, disturbed>>

Fallback(r) ==
    /\ Goto(r, "fallback", "done")
    /\ UNCHANGED <<entry, lock, spins, metrics, clearing, faults, evicted, disturbed>>

(* A call raises, and the request answers 500. The finally block still       *)
(* deletes the lock. A failed SET, SETEX or DEL may have run in Redis        *)
(* although its answer was lost.                                             *)
FailAcquire(r) ==
    /\ Goto(r, "acquire", "done")
    /\ lock' \in IF lock = None THEN {None, r} ELSE {lock}
    /\ UNCHANGED <<entry, evicted>>

FailRebuild(r) ==
    /\ Goto(r, "write", "release")
    /\ \E stored \in BOOLEAN : entry' = [entry EXCEPT !.safe = @ \/ stored]
    /\ UNCHANGED <<lock, evicted>>

FailRelease(r) ==
    /\ Goto(r, "release", "done")
    /\ \/ lock' = None /\ Evict(r)
       \/ UNCHANGED <<lock, evicted>>

FailPoll(r) ==
    /\ Goto(r, "spin", "done")
    /\ UNCHANGED <<entry, lock, evicted>>

Fail(r) ==
    /\ faults < MaxFaults
    /\ faults' = faults + 1
    /\ \/ FailAcquire(r)
       \/ FailRebuild(r)
       \/ FailRelease(r) /\ UNCHANGED entry
       \/ FailPoll(r)
    /\ UNCHANGED <<spins, metrics, clearing, disturbed>>

----------------------------------------------------------------------------
(* GET /trending/unsafe: every miss calls the database.                      *)
UnsafeHit(r) ==
    /\ Goto(r, "new", "done")
    /\ entry.unsafe
    /\ UNCHANGED <<entry, lock, spins, metrics, clearing, faults, evicted, disturbed>>

UnsafeMiss(r) ==
    /\ Goto(r, "new", "compute")
    /\ ~entry.unsafe
    /\ metrics' = [metrics EXCEPT !.unsafeMisses = @ + 1, !.dbCalls = @ + 1]
    /\ UNCHANGED <<entry, lock, spins, clearing, faults, evicted, disturbed>>

UnsafeWrite(r) ==
    /\ Goto(r, "compute", "done")
    /\ entry' = [entry EXCEPT !.unsafe = TRUE]
    /\ UNCHANGED <<lock, spins, metrics, clearing, faults, evicted, disturbed>>

----------------------------------------------------------------------------
(* A key is removed: its time to live has passed, 30 s for the entries and   *)
(* 10 s for the lock, or a request deletes it.                               *)
RemoveEntry(k) ==
    /\ entry' = [entry EXCEPT ![k] = FALSE]
    /\ disturbed' = TRUE
    /\ UNCHANGED <<lock, evicted>>

RemoveLock ==
    /\ lock' = None
    /\ Evict(None)
    /\ disturbed' = TRUE
    /\ UNCHANGED entry

Remove(k) == IF k = "lock" THEN RemoveLock ELSE RemoveEntry(k)

ExpireEntry(k) ==
    /\ entry[k]
    /\ RemoveEntry(k)
    /\ UNCHANGED <<pc, spins, metrics, clearing, faults>>

(* Mutant: SET NX without EX.                                                *)
LockNeverExpires == FALSE

ExpireLock ==
    /\ lock # None
    /\ RemoveLock
    /\ UNCHANGED <<pc, spins, metrics, clearing, faults>>

(* Mutant: POST /reset forgets the counter of the database calls.            *)
ClearKeepsCalls(resets) ==
    /\ clearing = {}
    /\ clearing' = Keys
    /\ metrics' = IF resets THEN [Zero EXCEPT !.dbCalls = metrics.dbCalls] ELSE metrics
    /\ UNCHANGED <<entry, lock, pc, spins, faults, evicted, disturbed>>

(* DELETE /cache, and POST /reset, which zeroes the metrics first. Both      *)
(* delete the keys one call at a time, the entries before the lock.          *)
ClearStart(resets) ==
    /\ clearing = {}
    /\ clearing' = Keys
    /\ metrics' = IF resets THEN Zero ELSE metrics
    /\ UNCHANGED <<entry, lock, pc, spins, faults, evicted, disturbed>>

ClearKey(k) ==
    /\ k \in clearing
    /\ k = "unsafe" => "safe" \notin clearing
    /\ k = "lock" => clearing = {"lock"}
    /\ clearing' = clearing \ {k}
    /\ Remove(k)
    /\ UNCHANGED <<pc, spins, metrics, faults>>

Crash ==
    /\ faults < MaxFaults
    /\ faults' = faults + 1
    /\ pc' = [r \in Requests |-> IF pc[r] = "new" THEN "new" ELSE "done"]
    /\ metrics' = Zero
    /\ clearing' = {}
    /\ UNCHANGED <<entry, lock, spins, evicted, disturbed>>

SafeStart(r) == Hit(r) \/ Miss(r)
SafeStep(r) ==
    \/ Acquire(r) \/ Wait(r)
    \/ Compute(r) \/ Write(r) \/ Release(r)
    \/ SpinHit(r) \/ SpinMiss(r) \/ SpinTimeout(r) \/ Fallback(r)
Unsafe(r) == UnsafeHit(r) \/ UnsafeMiss(r) \/ UnsafeWrite(r)
Clear == (\E b \in BOOLEAN : ClearStart(b)) \/ (\E k \in Keys : ClearKey(k))

Next ==
    \/ \E r \in SafeRequests : SafeStart(r) \/ SafeStep(r) \/ Fail(r)
    \/ \E r \in UnsafeRequests : Unsafe(r)
    \/ \E k \in {"safe", "unsafe"} : ExpireEntry(k)
    \/ ExpireLock
    \/ Clear
    \/ Crash

(* The loop resumes a request under way; Redis expires the lock at last.     *)
Fairness ==
    /\ \A r \in SafeRequests : WF_vars(SafeStep(r))
    /\ WF_vars(ExpireLock)

Spec == Init /\ [][Next]_vars /\ Fairness

----------------------------------------------------------------------------
TypeOK ==
    /\ entry \in [{"safe", "unsafe"} -> BOOLEAN]
    /\ lock \in SafeRequests \cup {None}
    /\ pc \in [Requests -> {"new", "acquire", "compute", "write", "release",
                            "spin", "fallback", "done"}]
    /\ spins \in [Requests -> 0 .. MAX_SPINS]
    /\ metrics \in [hits : Nat, misses : Nat, unsafeMisses : Nat, dbCalls : Nat,
                    acquired : Nat, waited : Nat, timeouts : Nat]
    /\ clearing \subseteq Keys
    /\ faults \in 0 .. MaxFaults
    /\ evicted \subseteq SafeRequests
    /\ disturbed \in BOOLEAN

(* Two requests rebuild at once only when one of them was evicted: its lock  *)
(* expired, was cleared, or was deleted by the finally block of a request    *)
(* that had itself been evicted. With no key expired or cleared nobody is:   *)
(* the unconditional DEL alone never takes another request's lock, not even  *)
(* after failed calls and restarts.                                          *)
OneRebuilder ==
    \A p, q \in SafeRequests :
        Holding(p) /\ Holding(q) /\ p # q => p \in evicted \/ q \in evicted
EvictionNeedsDisturbance == ~disturbed => evicted = {}
LockExcludes == OneRebuilder /\ EvictionNeedsDisturbance

(* Each database call is a lock winner's, a timed-out waiter's or an         *)
(* unprotected miss, also across POST /reset in the middle of requests.      *)
DbCallsAccounted ==
    metrics.dbCalls = metrics.acquired + metrics.timeouts + metrics.unsafeMisses

(* Nobody waits for ever: a started request is answered, since waiters give  *)
(* up and holders let go; and the lock does not stay behind, also when its   *)
(* owner failed to delete it or the process died: that is what EX is for.    *)
RequestsEnd == \A r \in SafeRequests : pc[r] # "new" ~> pc[r] = "done"
LockIsFreed == <>[](lock = None)
WaitsEnd == RequestsEnd /\ LockIsFreed
============================================================================
