------------------------------ MODULE TwoLevel ------------------------------
(* The two-level cache, be/routers/s213_two_level_cache.py: L1 is a TTLCache *)
(* of the process, L2 is Redis, the database a dictionary of the process.    *)
(* GET looks in L1, L2 and the database and fills what it missed; POST       *)
(* writes the database and L2 and evicts L1. One action is the code between  *)
(* two awaits of one request; a Redis command takes effect before its caller *)
(* resumes. The counters of GET /stats are left out: nothing reads them.     *)
EXTENDS Naturals, FiniteSets

CONSTANTS
    Keys,
    Seeded,     \* the keys of _DB as the module is loaded
    Gets, Posts,    \* requests, each served once
    Seed,       \* a seeded row; later its last POST names it
    Absent,     \* no such row or entry
    L1_TTL,
    L2_TTL,
    MaxFlushes, \* bound: requests that evict, flush or reset
    MaxFaults   \* bound: failed calls and restarts in a behaviour

ASSUME TwoLevelAssumption ==
    /\ Seeded \subseteq Keys
    /\ Gets \cap Posts = {}
    /\ Seed \notin Posts
    /\ Absent \notin Posts \cup {Seed}
    /\ L1_TTL \in Nat \ {0}
    /\ L2_TTL \in Nat \ {0}
    /\ MaxFlushes \in Nat
    /\ MaxFaults \in Nat

Requests == Gets \cup Posts
Rows == Posts \cup {Seed}
Loaded == [k \in Keys |-> IF k \in Seeded THEN Seed ELSE Absent]

VARIABLES
    db,         \* _DB
    l1, ttl1,   \* _l1, and the remaining life of its entries
    l2, ttl2,   \* Redis, and the remaining life of its entries
    pc, key,    \* where each request is, and what it is about
    val,        \* the row a request has in hand
    wipe,       \* the keys a flush of L2 has scanned and not yet deleted
    flushes,    \* such requests so far
    faults,     \* faults so far
    calm,       \* history: time since a request last had an outdated row of
                \* the key in hand, or since its row last changed
    raced1,     \* history: the L1 entry was outdated when it was stored, or a
                \* POST ended before it could evict it
    raced2      \* history: the same of the L2 entry

caches == <<l1, ttl1, l2, ttl2>>
request == <<pc, key, val>>
bounds == <<flushes, faults>>
raced == <<raced1, raced2>>
history == <<calm, raced>>
vars == <<db, caches, request, wipe, bounds, history>>

Init ==
    /\ db = Loaded
    /\ l1 = [k \in Keys |-> Absent] /\ ttl1 = [k \in Keys |-> 0]
    /\ l2 = [k \in Keys |-> Absent] /\ ttl2 = [k \in Keys |-> 0]
    /\ pc = [r \in Requests |-> "new"]
    /\ key \in [Requests -> Keys]
    /\ val = [r \in Requests |-> Absent]
    /\ wipe = {}
    /\ flushes = 0 /\ faults = 0
    /\ calm = [k \in Keys |-> 0]
    /\ raced1 = [k \in Keys |-> FALSE]
    /\ raced2 = [k \in Keys |-> FALSE]

Goto(r, from, to) ==
    /\ pc[r] = from
    /\ pc' = [pc EXCEPT ![r] = to]

Outdated(r) == val[r] # db[key[r]]

----------------------------------------------------------------------------
(* GET /config/{key}                                                         *)
L1Hit(r) ==
    /\ Goto(r, "new", "done")
    /\ l1[key[r]] # Absent
    /\ UNCHANGED <<db, caches, key, val, wipe, bounds, history>>

L1Miss(r) ==
    /\ Goto(r, "new", "l2")
    /\ l1[key[r]] = Absent
    /\ UNCHANGED <<db, caches, key, val, wipe, bounds, history>>

(* Mutant: an L2 entry that is read lives on.                                *)
L2Slides(r) ==
    /\ Goto(r, "l2", "backfill")
    /\ l2[key[r]] # Absent
    /\ val' = [val EXCEPT ![r] = l2[key[r]]]
    /\ ttl2' = [ttl2 EXCEPT ![key[r]] = L2_TTL]
    /\ UNCHANGED <<db, l1, ttl1, l2, key, wipe, bounds, history>>

L2Hit(r) ==
    /\ Goto(r, "l2", "backfill")
    /\ l2[key[r]] # Absent
    /\ val' = [val EXCEPT ![r] = l2[key[r]]]
    /\ UNCHANGED <<db, caches, key, wipe, bounds, history>>

L2Miss(r) ==
    /\ Goto(r, "l2", "db")
    /\ l2[key[r]] = Absent
    /\ UNCHANGED <<db, caches, key, val, wipe, bounds, history>>

(* Mutant: a row that is not there is stored all the same.                   *)
FetchAny(r) ==
    /\ Goto(r, "db", "store")
    /\ val' = [val EXCEPT ![r] = IF db[key[r]] = Absent THEN r ELSE db[key[r]]]
    /\ UNCHANGED <<db, caches, key, wipe, bounds, history>>

Fetch(r) ==
    /\ Goto(r, "db", "store")
    /\ db[key[r]] # Absent
    /\ val' = [val EXCEPT ![r] = db[key[r]]]
    /\ UNCHANGED <<db, caches, key, wipe, bounds, history>>

NotFound(r) ==
    /\ Goto(r, "db", "done")
    /\ db[key[r]] = Absent
    /\ UNCHANGED <<db, caches, key, val, wipe, bounds, history>>

(* SETEX, of a GET as of a POST.                                             *)
SetL2(r) ==
    /\ l2' = [l2 EXCEPT ![key[r]] = val[r]]
    /\ ttl2' = [ttl2 EXCEPT ![key[r]] = L2_TTL]
    /\ raced2' = [raced2 EXCEPT ![key[r]] = Outdated(r)]

StoreL2(r) ==
    /\ Goto(r, "store", "backfill")
    /\ SetL2(r)
    /\ UNCHANGED <<db, l1, ttl1, key, val, wipe, bounds, calm, raced1>>

Backfill(r) ==
    /\ Goto(r, "backfill", "done")
    /\ l1' = [l1 EXCEPT ![key[r]] = val[r]]
    /\ ttl1' = [ttl1 EXCEPT ![key[r]] = L1_TTL]
    /\ raced1' = [raced1 EXCEPT ![key[r]] = Outdated(r)]
    /\ UNCHANGED <<db, l2, ttl2, key, val, wipe, bounds, calm, raced2>>

----------------------------------------------------------------------------
(* POST /config/{key}: the row at once, SETEX, and then L1.                  *)
Write(r) ==
    /\ Goto(r, "new", "put")
    /\ db' = [db EXCEPT ![key[r]] = r]
    /\ val' = [val EXCEPT ![r] = r]
    /\ calm' = [calm EXCEPT ![key[r]] = 0]
    /\ UNCHANGED <<caches, key, wipe, bounds, raced>>

PutL2(r) ==
    /\ Goto(r, "put", "evict")
    /\ SetL2(r)
    /\ UNCHANGED <<db, l1, ttl1, key, val, wipe, bounds, calm, raced1>>

(* Mutant: only an entry that L2 no longer has is evicted.                   *)
DropIfGone(dropped) ==
    /\ l1' = [k \in Keys |-> IF k \in dropped /\ l2[k] = Absent THEN Absent ELSE l1[k]]
    /\ ttl1' = [k \in Keys |-> IF k \in dropped /\ l2[k] = Absent THEN 0 ELSE ttl1[k]]

DropL1(dropped) ==
    /\ l1' = [k \in Keys |-> IF k \in dropped THEN Absent ELSE l1[k]]
    /\ ttl1' = [k \in Keys |-> IF k \in dropped THEN 0 ELSE ttl1[k]]

Evict(r) ==
    /\ Goto(r, "evict", "done")
    /\ DropL1({key[r]})
    /\ UNCHANGED <<db, l2, ttl2, key, val, wipe, bounds, history>>

(* A Redis call raises. What a POST has changed stays changed; a SETEX may   *)
(* have run although its answer was lost.                                    *)
Fail(r) ==
    /\ faults < MaxFaults
    /\ pc[r] \in {"l2", "store", "put", "evict"}
    /\ pc' = [pc EXCEPT ![r] = "done"]
    /\ faults' = faults + 1
    /\ raced1' = [raced1 EXCEPT ![key[r]] = @ \/ pc[r] \in {"put", "evict"}]
    /\ \/ /\ raced2' = [raced2 EXCEPT ![key[r]] = @ \/ pc[r] = "put"]
          /\ UNCHANGED <<l2, ttl2>>
       \/ /\ pc[r] = "store"
          /\ SetL2(r)
    /\ UNCHANGED <<db, l1, ttl1, key, val, wipe, flushes, calm>>

----------------------------------------------------------------------------
(* DELETE /l1/evict/{key} and DELETE /l1/flush.                              *)
FlushL1(dropped) ==
    /\ flushes < MaxFlushes
    /\ flushes' = flushes + 1
    /\ DropL1(dropped)
    /\ UNCHANGED <<db, l2, ttl2, request, wipe, faults, history>>

(* DELETE /l2/flush, and with L1 DELETE /flush and POST /reset: SCAN, then   *)
(* DEL of what it returned.                                                  *)
FlushScan(withL1) ==
    /\ flushes < MaxFlushes
    /\ wipe = {}
    /\ flushes' = flushes + 1
    /\ wipe' = {k \in Keys : l2[k] # Absent}
    /\ DropL1(IF withL1 THEN Keys ELSE {})
    /\ UNCHANGED <<db, l2, ttl2, request, faults, history>>

FlushDelete ==
    /\ wipe # {}
    /\ wipe' = {}
    /\ l2' = [k \in Keys |-> IF k \in wipe THEN Absent ELSE l2[k]]
    /\ ttl2' = [k \in Keys |-> IF k \in wipe THEN 0 ELSE ttl2[k]]
    /\ UNCHANGED <<db, l1, ttl1, request, bounds, history>>

(* Time passes, and entries expire.                                          *)
Less(n) == IF n = 0 THEN 0 ELSE n - 1
Held(k) ==
    \E r \in Requests :
        key[r] = k /\ pc[r] \in {"store", "put", "backfill"} /\ Outdated(r)
Calmer(n) == IF n = L1_TTL + L2_TTL THEN n ELSE n + 1

Tick ==
    /\ \E k \in Keys : ttl1[k] > 0 \/ ttl2[k] > 0
    /\ ttl1' = [k \in Keys |-> Less(ttl1[k])]
    /\ l1' = [k \in Keys |-> IF ttl1[k] <= 1 THEN Absent ELSE l1[k]]
    /\ ttl2' = [k \in Keys |-> Less(ttl2[k])]
    /\ l2' = [k \in Keys |-> IF ttl2[k] <= 1 THEN Absent ELSE l2[k]]
    /\ calm' = [k \in Keys |-> IF Held(k) THEN 0 ELSE Calmer(calm[k])]
    /\ UNCHANGED <<db, request, wipe, bounds, raced>>

(* The process restarts: database and L1 are the module's again, L2 stays.   *)
Crash ==
    /\ faults < MaxFaults
    /\ faults' = faults + 1
    /\ db' = Loaded
    /\ DropL1(Keys)
    /\ pc' = [r \in Requests |-> IF pc[r] = "new" THEN "new" ELSE "done"]
    /\ wipe' = {}
    /\ calm' = [k \in Keys |-> 0]
    /\ raced2' = [k \in Keys |-> TRUE]
    /\ UNCHANGED <<l2, ttl2, key, val, flushes, raced1>>

Get(r) ==
    \/ L1Hit(r) \/ L1Miss(r) \/ L2Hit(r) \/ L2Miss(r)
    \/ Fetch(r) \/ NotFound(r) \/ StoreL2(r) \/ Backfill(r)
Post(r) == Write(r) \/ PutL2(r) \/ Evict(r)

Next ==
    \/ \E r \in Gets : Get(r)
    \/ \E r \in Posts : Post(r)
    \/ \E r \in Requests : Fail(r)
    \/ \E k \in Keys : FlushL1({k})
    \/ FlushL1(Keys)
    \/ \E b \in BOOLEAN : FlushScan(b)
    \/ FlushDelete
    \/ Tick
    \/ Crash

Spec == Init /\ [][Next]_vars

----------------------------------------------------------------------------
TypeOK ==
    /\ db \in [Keys -> Rows \cup {Absent}]
    /\ l1 \in [Keys -> Rows \cup {Absent}] /\ ttl1 \in [Keys -> 0 .. L1_TTL]
    /\ l2 \in [Keys -> Rows \cup {Absent}] /\ ttl2 \in [Keys -> 0 .. L2_TTL]
    /\ pc \in [Requests -> {"new", "l2", "db", "store", "backfill", "put", "evict", "done"}]
    /\ key \in [Requests -> Keys]
    /\ val \in [Requests -> Rows \cup {Absent}]
    /\ wipe \subseteq Keys
    /\ flushes \in 0 .. MaxFlushes
    /\ faults \in 0 .. MaxFaults
    /\ calm \in [Keys -> 0 .. L1_TTL + L2_TTL]
    /\ raced1 \in [Keys -> BOOLEAN] /\ raced2 \in [Keys -> BOOLEAN]

Stale1(k) == l1[k] \notin {Absent, db[k]}
Stale2(k) == l2[k] \notin {Absent, db[k]}
Writing(k, at) == \E r \in Posts : key[r] = k /\ pc[r] \in at

(* A POST invalidates both levels: what is stale while no POST of the key is *)
(* under way was stored outdated, by a GET that the POST overtook or by the  *)
(* other one of two POSTs, or the POST failed in the middle.                 *)
StaleIsRaced ==
    \A k \in Keys :
        /\ Stale1(k) => raced1[k] \/ Writing(k, {"put", "evict"})
        /\ Stale2(k) => raced2[k] \/ Writing(k, {"put"})

(* How long staleness lasts, once nobody has an outdated row in hand: L2 for *)
(* its own time to live, L1 for both, because L1 may be filled from an L2    *)
(* entry at the end of its life.                                             *)
StalenessIsBounded ==
    \A k \in Keys :
        /\ Stale1(k) => calm[k] + ttl1[k] <= L1_TTL + L2_TTL
        /\ Stale2(k) => calm[k] + ttl2[k] <= L2_TTL

============================================================================
