--------------------------- MODULE NegativeCache ---------------------------
(* Negative caching behind a Bloom filter, be/routers/                       *)
(* s214_negative_caching.py. The users are a dictionary of the process; the  *)
(* filter and the cached answers, a row or the NOT_FOUND sentinel, are in    *)
(* Redis. One action is the code between two awaits of one request, a Redis  *)
(* command takes effect before its caller resumes, and the pipeline that     *)
(* fills the filter is one transaction. The counters of GET /stats and the   *)
(* times to live in answers are left out: nothing reads them back.           *)
EXTENDS Naturals, FiniteSets

CONSTANTS
    MaxId,      \* bound: the last user id, at which POST /user stops
    Seeds,      \* users 1 .. Seeds are in _USER_DB as the module is loaded
    Lookups,    \* GET /user/{id}, each served once, as all requests below
    Creates,    \* POST /user; the row is named after its request
    Deletes,    \* DELETE /user/{id}
    Inits,      \* POST /bloom/init
    Resets,     \* POST /reset
    SeedRow,    \* the row of a seeded user
    NoRow,      \* no such user; in Redis, the sentinel
    NoEntry,    \* no such key in Redis
    MaxFaults   \* bound: failed calls and restarts in a behaviour

Ids == 1 .. MaxId
Clients == Lookups \cup Creates \cup Deletes
Admins == Inits \cup Resets
Callers == Clients \cup Admins
Rows == Creates \cup {SeedRow}

ASSUME NegativeCacheAssumption ==
    /\ MaxId \in Nat /\ Seeds \in 1 .. MaxId
    /\ Lookups \cap Creates = {} /\ Lookups \cap Deletes = {}
    /\ Creates \cap Deletes = {} /\ Clients \cap Admins = {} /\ Inits \cap Resets = {}
    /\ {SeedRow, NoRow, NoEntry} \cap Creates = {}
    /\ SeedRow # NoRow /\ SeedRow # NoEntry /\ NoRow # NoEntry
    /\ MaxFaults \in Nat

VARIABLES
    db, next,   \* _USER_DB and _next_id
    made,       \* Redis: there is a filter
    filter,     \* Redis: the ids that have been added to it
    cache,      \* Redis: nc214:user:<id>
    phase, id, val, \* where a request is, its user, the row in its hand
    keys,       \* the ids an administrator is about to delete or to add
    faults,     \* faults so far
    raced,      \* history: the entry was outdated when it was stored, or who
                \* should have replaced it gave up
    holes       \* history: the ids that the filter was made or left without

users == <<db, next>>
bloom == <<made, filter>>
client == <<phase, id, val>>
ncVars == <<users, bloom, cache, client, keys, faults, raced, holes>>

SeedDB == [i \in Ids |-> IF i <= Seeds THEN SeedRow ELSE NoRow]

(* Redis outlives the process: the filter may be there, from POST /init.     *)
NCInit ==
    /\ db = SeedDB /\ next = Seeds + 1
    /\ \/ made = FALSE /\ filter = {}
       \/ made = TRUE /\ filter = 1 .. Seeds
    /\ cache = [i \in Ids |-> NoEntry]
    /\ phase = [r \in Callers |-> "new"]
    /\ id \in {f \in [Clients -> Ids] : \A r \in Creates : f[r] = 1}
    /\ val = [r \in Clients |-> NoRow]
    /\ keys = [a \in Admins |-> {}]
    /\ faults = 0
    /\ raced = [i \in Ids |-> FALSE]
    /\ holes = {}

Move(r, from, to) ==
    /\ phase[r] = from
    /\ phase' = [phase EXCEPT ![r] = to]

----------------------------------------------------------------------------
(* _get_user_protected. What is not in the filter may pass for it: a false   *)
(* positive, or BF.EXISTS raised, which counts as "maybe". Without a filter  *)
(* BF.EXISTS answers 0 or raises, as the version of Redis has it.            *)
Block(r) ==
    /\ Move(r, "new", "done")
    /\ id[r] \notin filter
    /\ UNCHANGED <<users, bloom, cache, id, val, keys, faults, raced, holes>>

Pass(r) ==
    /\ Move(r, "new", "get")
    /\ UNCHANGED <<users, bloom, cache, id, val, keys, faults, raced, holes>>

Hit(r) ==
    /\ Move(r, "get", "done")
    /\ cache[id[r]] # NoEntry
    /\ UNCHANGED <<users, bloom, cache, id, val, keys, faults, raced, holes>>

Miss(r) ==
    /\ Move(r, "get", "db")
    /\ cache[id[r]] = NoEntry
    /\ UNCHANGED <<users, bloom, cache, id, val, keys, faults, raced, holes>>

(* Mutant: the cache is read a second time instead of the database.          *)
FetchFromCache(r) ==
    /\ Move(r, "db", "store")
    /\ val' = [val EXCEPT ![r] = cache[id[r]]]
    /\ UNCHANGED <<users, bloom, cache, id, keys, faults, raced, holes>>

Fetch(r) ==
    /\ Move(r, "db", "store")
    /\ val' = [val EXCEPT ![r] = db[id[r]]]
    /\ UNCHANGED <<users, bloom, cache, id, keys, faults, raced, holes>>

(* SETEX of a row or of the sentinel, by all who store.                      *)
SetEntry(r) ==
    /\ cache' = [cache EXCEPT ![id[r]] = val[r]]
    /\ raced' = [raced EXCEPT ![id[r]] = val[r] # db[id[r]]]

DropEntries(dropped) ==
    /\ cache' = [i \in Ids |-> IF i \in dropped THEN NoEntry ELSE cache[i]]
    /\ raced' = [i \in Ids |-> raced[i] /\ i \notin dropped]

Store(r) ==
    /\ Move(r, "store", "done")
    /\ SetEntry(r)
    /\ val' = [val EXCEPT ![r] = NoRow]
    /\ UNCHANGED <<users, bloom, id, keys, faults, holes>>

Lookup(r) == Block(r) \/ Pass(r) \/ Hit(r) \/ Miss(r) \/ Fetch(r) \/ Store(r)

----------------------------------------------------------------------------
(* POST /user: the row, BF.ADD, DEL of a sentinel, SETEX.                    *)
Insert(r) ==
    /\ Move(r, "new", "add")
    /\ next \in Ids
    /\ id' = [id EXCEPT ![r] = next]
    /\ val' = [val EXCEPT ![r] = r]
    /\ db' = [db EXCEPT ![next] = r]
    /\ next' = next + 1
    /\ UNCHANGED <<bloom, cache, keys, faults, raced, holes>>

(* BF.ADD makes the filter if there is none, with this one id in it.         *)
Add(r) ==
    /\ Move(r, "add", "evict")
    /\ made' = TRUE
    /\ filter' = filter \cup {id[r]}
    /\ holes' = IF made THEN holes \ {id[r]} ELSE Ids \ {id[r]}
    /\ UNCHANGED <<users, cache, id, val, keys, faults, raced>>

AddFails(r) ==
    /\ Move(r, "add", "evict")
    /\ faults < MaxFaults
    /\ faults' = faults + 1
    /\ holes' = holes \cup ({id[r]} \ filter)
    /\ UNCHANGED <<users, bloom, cache, id, val, keys, raced>>

Evict(r) ==
    /\ Move(r, "evict", "put")
    /\ DropEntries({id[r]})
    /\ UNCHANGED <<users, bloom, id, val, keys, faults, holes>>

Put(r) ==
    /\ Move(r, "put", "done")
    /\ SetEntry(r)
    /\ UNCHANGED <<users, bloom, id, val, keys, faults, holes>>

Create(r) == Insert(r) \/ Add(r) \/ AddFails(r) \/ Evict(r) \/ Put(r)

----------------------------------------------------------------------------
(* DELETE /user/{id}: the row, and the sentinel in place of what is cached;  *)
(* the filter keeps the id.                                                  *)
Remove(r) ==
    /\ Move(r, "new", "mark")
    /\ db' = [db EXCEPT ![id[r]] = NoRow]
    /\ UNCHANGED <<next, bloom, cache, id, val, keys, faults, raced, holes>>

(* Mutant: a sentinel does not replace a cached row, as with SET NX.         *)
MarkIfNone(r) ==
    /\ Move(r, "mark", "done")
    /\ IF cache[id[r]] = NoEntry
       THEN SetEntry(r)
       ELSE UNCHANGED <<cache, raced>>
    /\ UNCHANGED <<users, bloom, id, val, keys, faults, holes>>

Mark(r) ==
    /\ Move(r, "mark", "done")
    /\ SetEntry(r)
    /\ UNCHANGED <<users, bloom, id, val, keys, faults, holes>>

Delete(r) == Remove(r) \/ Mark(r)

(* A Redis call of a client raises, and the request ends. Who has changed    *)
(* the users has changed them.                                               *)
Fail(r) ==
    /\ faults < MaxFaults
    /\ phase[r] \in {"get", "store", "evict", "put", "mark"}
    /\ phase' = [phase EXCEPT ![r] = "done"]
    /\ faults' = faults + 1
    /\ raced' = [raced EXCEPT ![id[r]] = @ \/ phase[r] \in {"evict", "put", "mark"}]
    /\ val' = [val EXCEPT ![r] = NoRow]
    /\ UNCHANGED <<users, bloom, cache, id, keys, holes>>

----------------------------------------------------------------------------
(* POST /reset: the users, their entries, and the filter as POST /bloom/init *)
(* makes it.                                                                 *)
Reset(a) ==
    /\ Move(a, "new", "scan")
    /\ db' = SeedDB /\ next' = Seeds + 1
    /\ UNCHANGED <<bloom, cache, id, val, keys, faults, raced, holes>>

Scan(a) ==
    /\ Move(a, "scan", "drop")
    /\ keys' = [keys EXCEPT ![a] = {i \in Ids : cache[i] # NoEntry}]
    /\ UNCHANGED <<users, bloom, cache, id, val, faults, raced, holes>>

Drop(a) ==
    /\ Move(a, "drop", "clear")
    /\ DropEntries(keys[a])
    /\ keys' = [keys EXCEPT ![a] = {}]
    /\ UNCHANGED <<users, bloom, id, val, faults, holes>>

Clear(a) ==
    /\ Move(a, IF a \in Inits THEN "new" ELSE "clear", "reserve")
    /\ made' = FALSE /\ filter' = {} /\ holes' = {}
    /\ UNCHANGED <<users, cache, id, val, keys, faults, raced>>

(* _ensure_bloom. BF.RESERVE fails when a filter is there; the failure, and  *)
(* any other, is ignored.                                                    *)
Reserve(a) ==
    /\ Move(a, "reserve", "collect")
    /\ made' = TRUE
    /\ UNCHANGED <<users, filter, cache, id, val, keys, faults, raced, holes>>

ReserveFails(a) ==
    /\ Move(a, "reserve", "collect")
    /\ faults < MaxFaults
    /\ faults' = faults + 1
    /\ UNCHANGED <<users, bloom, cache, id, val, keys, raced, holes>>

(* Mutant: the filter is filled with the ids the module was loaded with.     *)
CollectSeeds(a) ==
    /\ Move(a, "collect", "fill")
    /\ keys' = [keys EXCEPT ![a] = 1 .. Seeds]
    /\ UNCHANGED <<users, bloom, cache, id, val, faults, raced, holes>>

Collect(a) ==
    /\ Move(a, "collect", "fill")
    /\ keys' = [keys EXCEPT ![a] = {i \in Ids : db[i] # NoRow}]
    /\ UNCHANGED <<users, bloom, cache, id, val, faults, raced, holes>>

Fill(a) ==
    /\ Move(a, "fill", "done")
    /\ made' = (made \/ keys[a] # {})
    /\ filter' = filter \cup keys[a]
    /\ holes' = holes \ keys[a]
    /\ keys' = [keys EXCEPT ![a] = {}]
    /\ UNCHANGED <<users, cache, id, val, faults, raced>>

FillFails(a) ==
    /\ Move(a, "fill", "done")
    /\ faults < MaxFaults
    /\ faults' = faults + 1
    /\ holes' = Ids \ filter
    /\ keys' = [keys EXCEPT ![a] = {}]
    /\ UNCHANGED <<users, bloom, cache, id, val, raced>>

(* SCAN or DEL raises: POST /reset leaves the cache and the filter of users  *)
(* that it has already replaced.                                             *)
AdminFails(a) ==
    /\ faults < MaxFaults
    /\ phase[a] \in {"scan", "drop", "clear"}
    /\ phase' = [phase EXCEPT ![a] = "done"]
    /\ faults' = faults + 1
    /\ holes' = Ids \ filter
    /\ raced' = [i \in Ids |-> raced[i] \/ phase[a] \in {"scan", "drop"}]
    /\ keys' = [keys EXCEPT ![a] = {}]
    /\ UNCHANGED <<users, bloom, cache, id, val>>

Administer(a) ==
    \/ Scan(a) \/ Drop(a) \/ Clear(a) \/ Reserve(a) \/ ReserveFails(a)
    \/ Collect(a) \/ Fill(a) \/ FillFails(a) \/ AdminFails(a)

----------------------------------------------------------------------------
(* An entry expires, or DELETE /cache/user/{id} removes it, or, one of all   *)
(* that it scanned, DELETE /cache/flush.                                     *)
Lapse(i) ==
    /\ cache[i] # NoEntry
    /\ DropEntries({i})
    /\ UNCHANGED <<users, bloom, client, keys, faults, holes>>

(* The process restarts: the users are the module's again, Redis is as it    *)
(* was, and requests that had begun are gone.                                *)
Crash ==
    /\ faults < MaxFaults
    /\ faults' = faults + 1
    /\ db' = SeedDB /\ next' = Seeds + 1
    /\ phase' = [r \in Callers |-> IF phase[r] = "new" THEN "new" ELSE "done"]
    /\ raced' = [i \in Ids |-> TRUE]
    /\ holes' = Ids \ filter
    /\ keys' = [a \in Admins |-> {}]
    /\ val' = [r \in Clients |-> NoRow]
    /\ UNCHANGED <<bloom, cache, id>>

NCNext ==
    \/ \E r \in Lookups : Lookup(r)
    \/ \E r \in Creates : Create(r)
    \/ \E r \in Deletes : Delete(r)
    \/ \E r \in Clients : Fail(r)
    \/ \E a \in Resets : Reset(a)
    \/ \E a \in Admins : Administer(a)
    \/ \E i \in Ids : Lapse(i)
    \/ Crash

NCSpec == NCInit /\ [][NCNext]_ncVars

----------------------------------------------------------------------------
NCTypeOK ==
    /\ db \in [Ids -> Rows \cup {NoRow}] /\ next \in Seeds + 1 .. MaxId + 1
    /\ made \in BOOLEAN /\ filter \subseteq Ids
    /\ cache \in [Ids -> Rows \cup {NoRow, NoEntry}]
    /\ phase \in [Callers -> {"new", "get", "db", "store", "add", "evict", "put", "mark",
                               "scan", "drop", "clear", "reserve", "collect", "fill", "done"}]
    /\ id \in [Clients -> Ids]
    /\ val \in [Clients -> Rows \cup {NoRow}]
    /\ keys \in [Admins -> SUBSET Ids]
    /\ faults \in 0 .. MaxFaults
    /\ raced \in [Ids -> BOOLEAN] /\ holes \subseteq Ids

(* "Zero false-negatives": the filter denies a user only while the POST that *)
(* creates it has yet to add it, while an administrator is about to rebuild  *)
(* the filter, or because an earlier BF.ADD failed, or made the filter, or a *)
(* rebuild or a restart went wrong. No order of POSTs and rebuilds does it.  *)
Rebuilding(a) == phase[a] \in {"scan", "drop", "clear", "reserve", "collect", "fill"}

DenialsAreExplained ==
    \A i \in Ids :
        made /\ db[i] # NoRow /\ i \notin filter =>
            \/ i \in holes
            \/ \E r \in Creates : phase[r] = "add" /\ id[r] = i
            \/ \E a \in Admins : Rebuilding(a)

(* What is cached about a user, its row or that there is none, is wrong only *)
(* while who changed the users has yet to correct it, after one of them      *)
(* failed, or because a request stored an answer that another one had made   *)
(* untrue: a GET that read before a POST or a DELETE, or one of these two.   *)
Correcting(i) ==
    \/ \E r \in Creates : id[r] = i /\ phase[r] \in {"add", "evict", "put"}
    \/ \E r \in Deletes : id[r] = i /\ phase[r] = "mark"
    \/ \E a \in Admins : phase[a] \in {"scan", "drop"}

WrongIsRaced ==
    \A i \in Ids : cache[i] \notin {NoEntry, db[i]} => raced[i] \/ Correcting(i)
============================================================================
