---------------------------- MODULE WriteThrough ----------------------------
(* The write-through router, be/routers/s24_write_through.py. A PUT commits  *)
(* to SQLite, reads the row back and writes it to Redis; a GET that misses   *)
(* reads SQLite and fills Redis. One action is the code between two awaits   *)
(* of one request. A profile is abstracted to its version, the number of     *)
(* updates committed to its row.                                             *)
EXTENDS Naturals

CONSTANTS
    Users,      \* the seeded profiles
    Requests,   \* requests, each served once
    Absent,     \* no such key in Redis
    MaxFaults   \* bound: failed calls and restarts in a behaviour

ASSUME WriteThroughAssumption ==
    /\ Absent \notin Nat
    /\ MaxFaults \in Nat

VARIABLES
    db,         \* SQLite: the version of each profile
    cached,     \* Redis: the version under profile:<id>, or Absent
    pc,         \* where each request is
    user,       \* the profile a started request is about
    val,        \* the version a request has read and will store
    mine,       \* the version a PUT has committed
    clearing,   \* DELETE /cache is running
    toClear,    \* the keys its SCAN found and it has yet to delete
    hits, misses, writes,   \* _wt_reads_hit, _wt_reads_miss, _wt_writes
    faults,     \* faults so far
    overlapped  \* history: profiles for which a commit overlapped a request
                \* that was about to store, or was not followed by a store

request == <<pc, user, val, mine>>
clear == <<clearing, toClear>>
stats == <<hits, misses, writes>>
vars == <<db, cached, request, clear, stats, faults, overlapped>>

Init ==
    /\ db = [u \in Users |-> 0]
    /\ cached = [u \in Users |-> Absent]
    /\ pc = [r \in Requests |-> "new"]
    /\ user \in [Requests -> Users]
    /\ val = [r \in Requests |-> 0]
    /\ mine = [r \in Requests |-> 0]
    /\ clearing = FALSE
    /\ toClear = {}
    /\ hits = 0 /\ misses = 0 /\ writes = 0
    /\ faults = 0
    /\ overlapped = [u \in Users |-> FALSE]

Goto(r, from, to) ==
    /\ pc[r] = from
    /\ pc' = [pc EXCEPT ![r] = to]

(* A PUT whose commit is done and whose SETEX is not; and what a SETEX of    *)
(* the request leaves in Redis.                                              *)
Committed(r) == pc[r] \in {"reread", "store"}
Stored(r) == [cached EXCEPT ![user[r]] = val[r]]

----------------------------------------------------------------------------
(* GET /profile/{user_id}                                                    *)
GetHit(r) ==
    /\ Goto(r, "new", "done")
    /\ cached[user[r]] # Absent
    /\ hits' = hits + 1
    /\ UNCHANGED <<db, cached, user, val, mine, clear, misses, writes, faults,
                   overlapped>>

GetMiss(r) ==
    /\ Goto(r, "new", "load")
    /\ cached[user[r]] = Absent
    /\ UNCHANGED <<db, cached, user, val, mine, clear, stats, faults, overlapped>>

Load(r) ==
    /\ Goto(r, "load", "fill")
    /\ val' = [val EXCEPT ![r] = db[user[r]]]
    /\ UNCHANGED <<db, cached, user, mine, clear, stats, faults, overlapped>>

Fill(r) ==
    /\ Goto(r, "fill", "done")
    /\ cached' = Stored(r)
    /\ misses' = misses + 1
    /\ UNCHANGED <<db, user, val, mine, clear, hits, writes, faults, overlapped>>

(* PUT /profile/{user_id}: UPDATE and commit, SELECT, SETEX.                 *)
Overlaps(r) ==
    \E q \in Requests \ {r} : user[q] = user[r] /\ pc[q] \in {"fill", "store"}

PutCommit(r) ==
    /\ Goto(r, "new", "reread")
    /\ db' = [db EXCEPT ![user[r]] = @ + 1]
    /\ mine' = [mine EXCEPT ![r] = db[user[r]] + 1]
    /\ overlapped' = [overlapped EXCEPT ![user[r]] = @ \/ Overlaps(r)]
    /\ UNCHANGED <<cached, user, val, clear, stats, faults>>

(* Mutant: the row is read back from Redis.                                  *)
RereadFromRedis(r) ==
    /\ Goto(r, "reread", "store")
    /\ val' = [val EXCEPT ![r] = cached[user[r]]]
    /\ UNCHANGED <<db, cached, user, mine, clear, stats, faults, overlapped>>

(* Mutant: the row object of the SELECT before the UPDATE is used.           *)
RereadBefore(r) ==
    /\ Goto(r, "reread", "store")
    /\ val' = [val EXCEPT ![r] = mine[r] - 1]
    /\ UNCHANGED <<db, cached, user, mine, clear, stats, faults, overlapped>>

(* Mutant: the update is applied once more to what was read.                 *)
RereadAhead(r) ==
    /\ Goto(r, "reread", "store")
    /\ val' = [val EXCEPT ![r] = db[user[r]] + 1]
    /\ UNCHANGED <<db, cached, user, mine, clear, stats, faults, overlapped>>

Reread(r) ==
    /\ Goto(r, "reread", "store")
    /\ val' = [val EXCEPT ![r] = db[user[r]]]
    /\ UNCHANGED <<db, cached, user, mine, clear, stats, faults, overlapped>>

(* Mutant: a PUT does not write Redis.                                       *)
StoreSkipped(r) ==
    /\ Goto(r, "store", "done")
    /\ writes' = writes + 1
    /\ UNCHANGED <<db, cached, user, val, mine, clear, hits, misses, faults,
                   overlapped>>

Store(r) ==
    /\ Goto(r, "store", "done")
    /\ cached' = Stored(r)
    /\ writes' = writes + 1
    /\ UNCHANGED <<db, user, val, mine, clear, hits, misses, faults, overlapped>>

(* A call raises and the request answers 500. What was committed stays, and  *)
(* a failed SETEX may have run in Redis although its answer was lost.        *)
Fail(r) ==
    /\ faults < MaxFaults
    /\ pc[r] \notin {"new", "done"}
    /\ pc' = [pc EXCEPT ![r] = "done"]
    /\ faults' = faults + 1
    /\ overlapped' = [overlapped EXCEPT ![user[r]] = @ \/ Committed(r)]
    /\ \/ UNCHANGED cached
       \/ pc[r] \in {"fill", "store"} /\ cached' = Stored(r)
    /\ UNCHANGED <<db, user, val, mine, clear, stats>>

----------------------------------------------------------------------------
(* Mutant: SET without a time to live.                                       *)
ExpireNever(u) == FALSE

(* SETEX gave the key 600 seconds: it may end at any time.                   *)
Expire(u) ==
    /\ cached[u] # Absent
    /\ cached' = [cached EXCEPT ![u] = Absent]
    /\ UNCHANGED <<db, request, clear, stats, faults, overlapped>>

(* DELETE /cache: SCAN, a DEL per key it returned, then the counters.        *)
ClearStart ==
    /\ ~clearing
    /\ clearing' = TRUE
    /\ toClear' = {u \in Users : cached[u] # Absent}
    /\ UNCHANGED <<db, cached, request, stats, faults, overlapped>>

ClearKey(u) ==
    /\ u \in toClear
    /\ cached' = [cached EXCEPT ![u] = Absent]
    /\ toClear' = toClear \ {u}
    /\ UNCHANGED <<db, request, clearing, stats, faults, overlapped>>

ClearEnd ==
    /\ clearing
    /\ toClear = {}
    /\ clearing' = FALSE
    /\ hits' = 0 /\ misses' = 0 /\ writes' = 0
    /\ UNCHANGED <<db, cached, request, toClear, faults, overlapped>>

(* The process restarts: requests under way are lost and the counters start  *)
(* again, Redis and SQLite stay.                                             *)
InFlight(r) == pc[r] \notin {"new", "done"}

Crash ==
    /\ faults < MaxFaults
    /\ faults' = faults + 1
    /\ pc' = [r \in Requests |-> IF InFlight(r) THEN "done" ELSE pc[r]]
    /\ overlapped' = [u \in Users |->
            overlapped[u] \/ \E r \in Requests : user[r] = u /\ Committed(r)]
    /\ clearing' = FALSE
    /\ toClear' = {}
    /\ hits' = 0 /\ misses' = 0 /\ writes' = 0
    /\ UNCHANGED <<db, cached, user, val, mine>>

Continue(r) == Load(r) \/ Fill(r) \/ Reread(r) \/ Store(r)
Clear == ClearStart \/ (\E u \in Users : ClearKey(u)) \/ ClearEnd

Next ==
    \/ \E r \in Requests :
           GetHit(r) \/ GetMiss(r) \/ PutCommit(r) \/ Continue(r) \/ Fail(r)
    \/ \E u \in Users : Expire(u)
    \/ Clear
    \/ Crash

(* The loop resumes a request under way, and Redis expires a key at last.    *)
Fairness ==
    /\ \A r \in Requests : WF_vars(Continue(r))
    /\ \A u \in Users : WF_vars(Expire(u))

Spec == Init /\ [][Next]_vars /\ Fairness

----------------------------------------------------------------------------
TypeOK ==
    /\ db \in [Users -> Nat]
    /\ cached \in [Users -> Nat \cup {Absent}]
    /\ pc \in [Requests -> {"new", "load", "fill", "reread", "store", "done"}]
    /\ user \in [Requests -> Users]
    /\ val \in [Requests -> Nat]
    /\ mine \in [Requests -> Nat]
    /\ clearing \in BOOLEAN
    /\ toClear \subseteq Users
    /\ hits \in Nat /\ misses \in Nat /\ writes \in Nat
    /\ faults \in 0 .. MaxFaults
    /\ overlapped \in [Users -> BOOLEAN]

(* What a PUT stores is not older than what it committed: another PUT of the *)
(* same profile may come between commit and SELECT, but only with a newer    *)
(* version.                                                                  *)
PutStoresItsWrite == \A r \in Requests : pc[r] = "store" => val[r] >= mine[r]

(* With no PUT between its commit and its SETEX, a stale entry takes an      *)
(* overlap: a commit while another request of the profile held a version it  *)
(* had read, or a commit whose request then failed. Expiry, DELETE /cache    *)
(* and any number of other requests never make an entry stale.               *)
Writing(u) == \E r \in Requests : user[r] = u /\ Committed(r)
Coherent(u) == cached[u] \in {Absent, db[u]}

StaleNeedsOverlap ==
    \A u \in Users : ~overlapped[u] /\ ~Writing(u) => Coherent(u)

(* A cached profile is a version that SQLite has had, and rows only advance. *)
Contract == INSTANCE CacheContract
    WITH Keys <- Users, Absent <- Absent, source <- db, cache <- cached
ImplementsContract == Contract!Spec

(* The time to live repairs what the races break: once the requests are over *)
(* no stale entry stays for good.                                            *)
EventuallyCoherent == \A u \in Users : <>[]Coherent(u)
============================================================================
