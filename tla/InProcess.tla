----------------------------- MODULE InProcess -----------------------------
(* The caches in the memory of the process: functools.lru_cache,             *)
(* be/routers/s21_lru.py, and cachetools.TTLCache under a threading.Lock,    *)
(* be/routers/s21_ttl.py. Both routers hand their lookup to the thread pool  *)
(* of asyncio.to_thread, which they share, and both run on the one event     *)
(* loop, which the second one's coroutines block when they wait for the      *)
(* lock. One action is what a thread does between two points where another   *)
(* one may run, or the code of a coroutine between two awaits or lock waits. *)
(* What the caches hold never changes in the source; a key stands for it. A  *)
(* restart empties everything, so it is Init and no action.                  *)
EXTENDS Naturals, Sequences, FiniteSets

CONSTANTS
    LruRequests,    \* GET /lru/country/{code}
    TtlRequests,    \* GET /ttl/user/{user_id}, with an id the range check admits
    Codes, Users,   \* country codes and user ids
    Asks,           \* what the requests ask for: functions from them to keys
    Nobody,
    POOL,           \* threads of the pool, min(32, cpus + 4)
    MAXSIZE         \* of the lru_cache, 128; the five users never fill the
                    \* 100 places of the TTLCache

Requests == LruRequests \cup TtlRequests

ASSUME InProcessAssumption ==
    /\ LruRequests \cap TtlRequests = {}
    /\ Nobody \notin Requests
    /\ (Requests \cup {Nobody}) \cap {"size", "counts", "clear"} = {}
    /\ Asks \subseteq [Requests -> Codes \cup Users]
    /\ \A k \in Asks : \A r \in Requests :
           k[r] \in IF r \in LruRequests THEN Codes ELSE Users
    /\ POOL \in Nat \ {0}
    /\ MAXSIZE \in Nat \ {0}

VARIABLES
    pc, key,        \* where each request is, and the key it asks for
    queue,          \* calls handed to the pool that no thread has taken
    loop,           \* Nobody, or who waits for _ttl_lock in the event loop: a
                    \* request, or the step of GET /stats or DELETE /cache
    lru, lruHits, lruMisses,    \* the keys and the counts of cache_info()
    before,         \* info_before.hits of each request under way
    label,          \* cache_hit of the last answer
    lock,           \* the request whose thread holds _ttl_lock, or Nobody
    ttl, ttlHits, ttlMisses,    \* keys of _ttl_store, _ttl_hits, _ttl_misses
    seen,           \* the size that GET /ttl/stats has read
    fromCache,      \* history: lru requests under way whose call was a hit
    overtaken,      \* history: those during which another call hit
    straddles,      \* history: those during which the lru_cache was cleared
    forgotten,      \* history: calls whose miss the last clear forgot
    took            \* history: calls that took the lock since the last clear

lruVars == <<lru, lruHits, lruMisses, before, label,
             fromCache, overtaken, straddles, forgotten>>
ttlVars == <<lock, ttl, ttlHits, ttlMisses, seen, took>>
vars == <<pc, key, queue, loop, lruVars, ttlVars>>

Init ==
    /\ pc = [r \in Requests |-> "new"]
    /\ key \in Asks
    /\ queue = <<>>
    /\ loop = Nobody
    /\ lru = {} /\ lruHits = 0 /\ lruMisses = 0
    /\ before = [r \in LruRequests |-> 0]
    /\ label = FALSE
    /\ lock = Nobody
    /\ ttl = {} /\ ttlHits = 0 /\ ttlMisses = 0
    /\ seen = 0
    /\ fromCache = {} /\ overtaken = {} /\ straddles = {} /\ forgotten = {}
    /\ took = {}

Goto(r, from, to) ==
    /\ pc[r] = from
    /\ pc' = [pc EXCEPT ![r] = to]

InThread(r) == pc[r] \in {"lookup", "call", "wait", "read", "query"}
UnderWay == {r \in LruRequests : pc[r] \notin {"new", "done"}}

(* Nothing of a request outlives its answer but the label.                   *)
Forget(r) ==
    /\ before' = [before EXCEPT ![r] = 0]
    /\ fromCache' = fromCache \ {r}
    /\ overtaken' = overtaken \ {r}
    /\ straddles' = straddles \ {r}

----------------------------------------------------------------------------
(* asyncio.to_thread: the pool's queue is first in, first out, and a thread  *)
(* keeps its call to the end, asleep or waiting for the lock.                *)
Start(r) ==
    /\ queue # <<>> /\ Head(queue) = r
    /\ Cardinality({q \in Requests : InThread(q)}) < POOL
    /\ Goto(r, "queued", IF r \in LruRequests THEN "lookup" ELSE "wait")
    /\ queue' = Tail(queue)
    /\ UNCHANGED <<key, loop, lruVars, ttlVars>>

(* The first part of GET /lru/country, on the loop: info_before, and the     *)
(* call handed over.                                                         *)
LruBegin(r) ==
    /\ loop = Nobody
    /\ Goto(r, "new", "queued")
    /\ before' = [before EXCEPT ![r] = lruHits]
    /\ queue' = Append(queue, r)
    /\ UNCHANGED <<key, loop, lru, lruHits, lruMisses, label, fromCache,
                   overtaken, straddles, forgotten, ttlVars>>

(* The wrapper of functools in the thread: the interpreter lock makes the    *)
(* lookup one step and the insertion another, and the function sleeps        *)
(* between them without it.                                                  *)
LruHit(r) ==
    /\ Goto(r, "lookup", "back")
    /\ key[r] \in lru
    /\ lruHits' = lruHits + 1
    /\ fromCache' = fromCache \cup {r}
    /\ overtaken' = overtaken \cup (UnderWay \ {r})
    /\ UNCHANGED <<key, queue, loop, lru, lruMisses, before, label, straddles,
                   forgotten, ttlVars>>

LruMiss(r) ==
    /\ Goto(r, "lookup", "call")
    /\ key[r] \notin lru
    /\ lruMisses' = lruMisses + 1
    /\ UNCHANGED <<key, queue, loop, lru, lruHits, before, label, fromCache,
                   overtaken, straddles, forgotten, ttlVars>>

(* Mutant: maxsize=None.                                                     *)
LruInsertUnbounded(r) ==
    /\ Goto(r, "call", "back")
    /\ lru' = lru \cup {key[r]}
    /\ UNCHANGED <<key, queue, loop, lruHits, lruMisses, before, label, fromCache,
                   overtaken, straddles, forgotten, ttlVars>>

(* An entry that another call stored meanwhile stays; a full cache evicts.   *)
LruInsert(r) ==
    /\ Goto(r, "call", "back")
    /\ IF key[r] \in lru THEN lru' = lru
       ELSE IF Cardinality(lru) < MAXSIZE THEN lru' = lru \cup {key[r]}
       ELSE \E victim \in lru : lru' = (lru \ {victim}) \cup {key[r]}
    /\ UNCHANGED <<key, queue, loop, lruHits, lruMisses, before, label, fromCache,
                   overtaken, straddles, forgotten, ttlVars>>

(* Mutant: the misses are compared, and their growth is taken for a hit.     *)
LruAnswerByMisses(r) ==
    /\ loop = Nobody
    /\ Goto(r, "back", "done")
    /\ label' = (lruMisses > before[r])
    /\ Forget(r)
    /\ UNCHANGED <<key, queue, loop, lru, lruHits, lruMisses, forgotten, ttlVars>>

(* The rest of the handler: cache_hit is whether the hits of all calls went  *)
(* up in the meantime.                                                       *)
LruAnswer(r) ==
    /\ loop = Nobody
    /\ Goto(r, "back", "done")
    /\ label' = (lruHits > before[r])
    /\ Forget(r)
    /\ UNCHANGED <<key, queue, loop, lru, lruHits, lruMisses, forgotten, ttlVars>>

(* DELETE /lru/cache: cache_clear() drops the entries and the counts, also   *)
(* the misses of calls that have yet to store.                               *)
LruClear ==
    /\ loop = Nobody
    /\ lru' = {} /\ lruHits' = 0 /\ lruMisses' = 0
    /\ straddles' = straddles \cup UnderWay
    /\ forgotten' = {r \in LruRequests : pc[r] = "call"}
    /\ UNCHANGED <<pc, key, queue, loop, before, label, fromCache, overtaken, ttlVars>>

----------------------------------------------------------------------------
TtlBegin(r) ==
    /\ loop = Nobody
    /\ Goto(r, "new", "queued")
    /\ queue' = Append(queue, r)
    /\ UNCHANGED <<key, loop, lruVars, ttlVars>>

(* Mutant: the lookup without `with _ttl_lock`.                              *)
AcquireNoLock(r) ==
    /\ Goto(r, "wait", IF key[r] \in ttl THEN "read" ELSE "query")
    /\ took' = took \cup {r}
    /\ lock' = r
    /\ ttlHits' = ttlHits + (IF key[r] \in ttl THEN 1 ELSE 0)
    /\ UNCHANGED <<key, queue, loop, lruVars, ttl, ttlMisses, seen>>

(* The thread takes the lock and looks; a miss keeps it over the query.      *)
Acquire(r) ==
    /\ lock = Nobody
    /\ Goto(r, "wait", IF key[r] \in ttl THEN "read" ELSE "query")
    /\ lock' = r
    /\ took' = took \cup {r}
    /\ ttlHits' = ttlHits + (IF key[r] \in ttl THEN 1 ELSE 0)
    /\ UNCHANGED <<key, queue, loop, lruVars, ttl, ttlMisses, seen>>

TtlRead(r) ==
    /\ Goto(r, "read", "back")
    /\ key[r] \in ttl
    /\ lock' = Nobody
    /\ UNCHANGED <<key, queue, loop, lruVars, ttl, ttlHits, ttlMisses, seen, took>>

(* Mutant: a KeyError is caught and the subscript tried again, locked.       *)
TtlGoneRetries(r) ==
    /\ Goto(r, "read", "read")
    /\ key[r] \notin ttl
    /\ UNCHANGED <<key, queue, loop, lruVars, ttlVars>>

(* The entry has expired since `key in _ttl_store`: KeyError, after the hit  *)
(* was counted. The with statement releases the lock.                        *)
TtlGone(r) ==
    /\ Goto(r, "read", "raised")
    /\ key[r] \notin ttl
    /\ lock' = Nobody
    /\ UNCHANGED <<key, queue, loop, lruVars, ttl, ttlHits, ttlMisses, seen, took>>

(* The store and the count are one step: no one looks at both unlocked.      *)
TtlStore(r) ==
    /\ Goto(r, "query", "back")
    /\ ttl' = ttl \cup {key[r]}
    /\ ttlMisses' = ttlMisses + 1
    /\ lock' = Nobody
    /\ UNCHANGED <<key, queue, loop, lruVars, ttlHits, seen, took>>

(* The loop resumes the handler, which waits for the lock and so lets nobody *)
(* else run in the loop until it has read the size for its answer.           *)
TtlResume(r) ==
    /\ loop = Nobody
    /\ Goto(r, "back", "size")
    /\ loop' = r
    /\ UNCHANGED <<key, queue, lruVars, ttlVars>>

TtlAnswer(r) ==
    /\ loop = r
    /\ lock = Nobody
    /\ Goto(r, "size", "done")
    /\ loop' = Nobody
    /\ UNCHANGED <<key, queue, lruVars, ttlVars>>

(* The KeyError reaches the handler at its await: 500, without the lock.     *)
TtlRaise(r) ==
    /\ loop = Nobody
    /\ Goto(r, "raised", "done")
    /\ UNCHANGED <<key, queue, loop, lruVars, ttlVars>>

(* Thirty seconds after it was stored an entry is no longer found.           *)
Expire(k) ==
    /\ k \in ttl
    /\ ttl' = ttl \ {k}
    /\ UNCHANGED <<pc, key, queue, loop, lruVars, lock, ttlHits, ttlMisses, seen, took>>

----------------------------------------------------------------------------
(* GET /ttl/stats and DELETE /ttl/cache, coroutines without an await: they   *)
(* have the loop to themselves, threads run on.                              *)
AdminBegin(step) ==
    /\ loop = Nobody
    /\ loop' = step
    /\ UNCHANGED <<pc, key, queue, lruVars, ttlVars>>

(* The size is read under the lock, the counts after it.                     *)
StatsSize ==
    /\ loop = "size"
    /\ lock = Nobody
    /\ seen' = Cardinality(ttl)
    /\ loop' = "counts"
    /\ UNCHANGED <<pc, key, queue, lruVars, lock, ttl, ttlHits, ttlMisses, took>>

StatsCounts ==
    /\ loop = "counts"
    /\ loop' = Nobody
    /\ seen' = 0
    /\ UNCHANGED <<pc, key, queue, lruVars, lock, ttl, ttlHits, ttlMisses, took>>

(* Mutant: the clear does not wait for the lock.                             *)
TtlClearNoLock ==
    /\ loop = "clear"
    /\ loop' = Nobody
    /\ ttl' = {} /\ ttlHits' = 0 /\ ttlMisses' = 0
    /\ took' = {}
    /\ UNCHANGED <<pc, key, queue, lruVars, lock, seen>>

TtlClear ==
    /\ loop = "clear"
    /\ lock = Nobody
    /\ loop' = Nobody
    /\ ttl' = {} /\ ttlHits' = 0 /\ ttlMisses' = 0
    /\ took' = {}
    /\ UNCHANGED <<pc, key, queue, lruVars, lock, seen>>

Begin == (\E r \in LruRequests : LruBegin(r)) \/ (\E r \in TtlRequests : TtlBegin(r))
LruThread(r) == LruHit(r) \/ LruMiss(r) \/ LruInsert(r)
TtlThread(r) == Acquire(r) \/ TtlRead(r) \/ TtlGone(r) \/ TtlStore(r)
TtlLoop(r) == TtlResume(r) \/ TtlAnswer(r) \/ TtlRaise(r)
Admin == StatsSize \/ StatsCounts \/ TtlClear

Next ==
    \/ Begin
    \/ \E r \in Requests : Start(r)
    \/ \E r \in LruRequests : LruThread(r) \/ LruAnswer(r)
    \/ \E r \in TtlRequests : TtlThread(r) \/ TtlLoop(r)
    \/ \E step \in {"size", "clear"} : AdminBegin(step)
    \/ Admin
    \/ LruClear
    \/ \E k \in Users : Expire(k)

(* The operating system runs every thread. The ready queue of asyncio is     *)
(* first in, first out, so a coroutine that is due is resumed although other *)
(* ones take the loop again and again: strong fairness.                      *)
Fairness ==
    /\ \A r \in Requests : WF_vars(Start(r))
    /\ \A r \in LruRequests : WF_vars(LruThread(r)) /\ SF_vars(LruAnswer(r))
    /\ \A r \in TtlRequests : WF_vars(TtlThread(r)) /\ SF_vars(TtlLoop(r))
    /\ WF_vars(Admin)

Spec == Init /\ [][Next]_vars /\ Fairness

----------------------------------------------------------------------------
TypeOK ==
    /\ pc \in [Requests -> {"new", "queued", "lookup", "call", "wait", "read",
                            "query", "back", "raised", "size", "done"}]
    /\ key \in Asks
    /\ queue \in Seq(Requests)
    /\ \A r \in Requests : pc[r] = "queued" <=> \E i \in DOMAIN queue : queue[i] = r
    /\ loop \in TtlRequests \cup {Nobody, "size", "counts", "clear"}
    /\ lru \subseteq Codes /\ Cardinality(lru) <= MAXSIZE
    /\ lruHits \in Nat /\ lruMisses \in Nat
    /\ before \in [LruRequests -> Nat]
    /\ label \in BOOLEAN
    /\ lock \in TtlRequests \cup {Nobody}
    /\ ttl \subseteq Users
    /\ ttlHits \in Nat /\ ttlMisses \in Nat /\ seen \in Nat
    /\ fromCache \cup overtaken \cup straddles \cup forgotten \subseteq LruRequests
    /\ took \subseteq TtlRequests

(* The cache_hit of an lru answer, derived from counts that all calls share, *)
(* is wrong only by overlap: a miss is called a hit when another call hit in *)
(* the meantime, a hit is called a miss when the cache was cleared.          *)
LabelNeedsOverlap ==
    [][\A r \in LruRequests : pc[r] = "back" /\ pc'[r] = "done" =>
        /\ label' /\ r \notin fromCache => r \in overtaken
        /\ ~label' /\ r \in fromCache => r \in straddles]_vars

(* What GET /stats reports adds up: the TTL hits and misses are the calls    *)
(* that had the lock since the last clear, one still querying aside; no size *)
(* exceeds the misses, also when size and counts are read one after another; *)
(* and the lru_cache holds more than it missed only by calls a clear forgot. *)
TtlCountsCalls ==
    ttlHits + ttlMisses + Cardinality({r \in TtlRequests : pc[r] = "query"})
        = Cardinality(took)
SizesAreCounted ==
    /\ Cardinality(ttl) <= ttlMisses
    /\ seen <= ttlMisses
    /\ Cardinality(lru) <= lruMisses + Cardinality(forgotten)
CountersAddUp == TtlCountsCalls /\ SizesAreCounted

(* Holding the lock over the query makes it a single flight: whoever queries *)
(* a key does so alone, and the key is absent until its own call stores it.  *)
SingleFlight ==
    \A r \in TtlRequests : pc[r] = "query" =>
        /\ key[r] \notin ttl
        /\ \A q \in TtlRequests \ {r} : pc[q] \notin {"read", "query"}

(* Every request is answered, so that again and again none is under way: a   *)
(* KeyError gives the lock back, and the loop, blocked on the lock, waits    *)
(* only for a thread that does not wait for the loop.                        *)
RequestsEnd == []<>(\A r \in Requests : pc[r] \in {"new", "done"})
============================================================================
