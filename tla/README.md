# Caching strategies: TLA+ models, model checking and proofs

The repository is a FastAPI backend (`be/`) that demonstrates sixteen caching
strategies, each in a router of its own, with a Flask frontend (`fe/`) of pages
and thin proxies. This directory models the backend: one TLA+ module per
strategy that keeps state several requests can disturb, the TLC instances that
check it, and TLAPS proofs of every module's safety. Every definition follows the
source; `PROJECT.json` names the lines of each one.

## The system

The backend is one Python process with one asyncio loop. Coroutines interleave
only at an `await`, and between two awaits the code of a request is atomic. Its
state is in four places with different lives:

| Where | What | After a restart |
|---|---|---|
| process memory | counters, breaker, L1, dictionaries that play the database in 2.13 to 2.16 | as the module is loaded |
| SQLite (`demo.db`) | orders, profiles, catalog, tracks, articles, recipes, employees, `event_logs` | kept |
| Redis | cache entries, locks, tag sets, the event stream, the Bloom filter | kept (`redis_data` volume) |
| tasks | the write-behind worker, the pub/sub listener, the warming scheduler | started again by the lifespan, except the scheduler |

### Components

State, operations and what makes each one correct. "Hard" names what a test of
the endpoint hardly reaches.

| Component | State | Operations | Correct when | Hard |
|---|---|---|---|---|
| 2.5 write-behind, `s25_write_behind.py` | stream, `event_logs`, two counters | POST /event and /flush, worker, GET /stats, DELETE /clear | no acknowledged event is lost, few are duplicated, order and counters hold | worker against /flush, crash between commit and DEL |
| 2.4 write-through, `s24_write_through.py` | profiles, their entries | GET, PUT, DELETE /cache | the entry is what SQLite has, or becomes it | GET against PUT, PUT against PUT |
| 2.11 stampede, `s211_stampede.py` | entry, lock, counters | safe and unsafe GET, /simulate, clear, reset | one rebuild at a time, waiters end | lock expiry, unconditional DEL, timeouts |
| 2.12 circuit breaker, `s212_thundering_herd.py` | state, count, time of the trip | GET /cb/fetch, inject, reset | trips, probes and recoveries match failures | late answers, concurrent probes |
| 2.16 events, `s216_event_driven.py` | rows, entries, tag sets, channel | GET, PUT, listener, manual invalidation, reset | a stale entry has an invalidation coming; tags find entries, deletions and the SADD-EXPIRE window aside | GET against PUT, lost messages, tag set races |
| 2.13 two levels, `s213_two_level_cache.py` | L1, L2, rows | GET, POST, flushes | a POST ends staleness, staleness is bounded | GET against POST, L1 filled from a dying L2 entry |
| 2.14 negative cache, `s214_negative_caching.py` | users, entries and sentinels, filter | GET, POST, DELETE, making the filter, reset | the filter denies nobody who exists, cached answers are true | rebuild against POST, swallowed failures |
| 2.8 HTTP cache, `s28_http_cache.py` | articles, copies in browsers | conditional GET, PUT, reset | a 304 is true | concurrent PUTs, versions and dates that go back |
| 2.15 warming, `s215_cache_warming.py` | entries, flag, task | GETs, two warmings, scheduler, start, stop, flush | one scheduler, kept keys never expire | start against the end of the old task, interval against lives, failing rounds |
| startup and handle, `lifespan.py`, `redis_client.py` | handle, two tasks | start, stop | tasks start once and stop | restart in the middle of a flush |
| 2.1 in-process caches, `s21_lru.py`, `s21_ttl.py` | `lru_cache` and its counts; `TTLCache`, its lock and its counts | GETs in pool threads, statistics, clears | one query at a time, counts add up, labels are true, everybody is answered | threads against a loop that waits for their lock, labels from shared counts |
| look-aside caches: 2.2, 2.3, 2.6, 2.7, 2.9, 2.10, articles of 2.12 | entries | GET (one key, or several), DELETE /cache, evictions | a clear leaves nothing old, hit labels are true | fill and expiry between two Redis calls of one GET or of one clear, swallowed failures |

The components meet in few places: all share the Redis handle and one event
loop, none shares a key with another, and only the lifespan calls into routers.
That is why each module stands alone; the one composition is `WriteThrough`
over the abstract `CacheContract`.

## The modules

| Module | Models | Instance | Proofs |
|---|---|---|---|
| `WriteBehind` | 2.5 with its worker and restarts | `MCWriteBehind` | `WriteBehind_proofs` |
| `CacheContract` | what a cache beside a source of truth promises | by refinement | |
| `WriteThrough` | 2.4; implements `CacheContract` | `MCWriteThrough` | `WriteThrough_HttpCache_proofs` |
| `Stampede` | 2.11 | `MCStampede` | `Stampede_EventDriven_proofs` |
| `CircuitBreaker` | the breaker of 2.12 | `MCCircuitBreaker` | `CircuitBreaker_proofs` |
| `EventDriven` | 2.16 with its listener | `MCEventDriven` | `Stampede_EventDriven_proofs` |
| `TwoLevel` | 2.13 | `MCTwoLevel` | `TwoLevel_proofs` |
| `NegativeCache` | 2.14 | `MCNegativeCache` | `InProcess_NegativeCache_proofs` |
| `HttpCache` | 2.8 with browsers | `MCHttpCache` | `WriteThrough_HttpCache_proofs` |
| `Warming` | 2.15 with its scheduler | `MCWarming` | `Warming_proofs` |
| `InProcess` | 2.1: both caches, their threads and the loop | `MCInProcess` | `InProcess_NegativeCache_proofs` |
| `LookAside` | 2.2, 2.3, 2.6, 2.7, 2.9, 2.10 and the articles of 2.12 | `MCLookAside` | `LookAside_proofs` |

Three of the proof modules extend two modules each, one section for each, to keep
their number small. The two share no name and nothing else, which is why
`HttpCache`, `NegativeCache` and `EventDriven` prefix `Init`, `Next`, `Spec`,
`TypeOK` and `vars` (`HCInit`, `NCInit`, `EDInit`, ...) and call a few things
differently from the others: `stage` or `phase` for `pc`, and in `EventDriven`
`Raise`, `Restart` and `failures` for `Fail`, `Crash` and `faults`.

Conventions, the same in all modules:

- An action is the code between two awaits of one coroutine. `pc[r]` names the
  await a request is in, and the other per-request functions are its locals. A
  Redis command or a commit takes effect in the action after the await it
  belongs to begins, and the code that runs when it resumes is the next action,
  so that others may come between the effect and its use. In `InProcess` an
  action is what a thread does between two points where another thread may run,
  or what a coroutine does between two awaits or waits for the lock.
- A row is abstracted to the request that wrote it last (`TwoLevel`,
  `EventDriven`, `NegativeCache`), to a version (`WriteThrough`) or to the
  columns that matter (`HttpCache`).
- `Fail` is a Redis or SQLite call that raises: the request ends and what it
  did stays. `Crash` is a restart: process memory is as loaded, SQLite and Redis
  are kept, requests that had begun are gone. Both draw on `MaxFaults`.
- Expiry is an action of its own. Where a property depends on how long entries
  live (`EventDriven`, `TwoLevel`, `Warming`) there is a clock, `Tick`, and remaining
  lives; elsewhere an entry may expire between any two steps.
- Variables marked *history* are read by properties only. They record why an
  exception to a property is justified, at the step that justifies it, and are
  reset when the entry they are about is stored anew.
- Operators whose comment begins with "Mutant" are faulty variants of the
  definition that follows. They are used nowhere in the specification and serve
  to show that each property notices such a fault.
- Answers with 400, 404, 422 and 503 change no state and have no action.

### Notes on single modules

`WriteBehind`: `Read`, `Commit`, `Delete`, `Count` are the worker's round, and
POST /flush runs the same steps without the batch limit. `connected` is whether
the lifespan found Redis. Without Redis there is no worker. `left`, `late` and
`wiped` are the three documented ways to lose an event.

`WriteThrough`: after the commit a PUT selects the row again, so that it may
store another PUT's newer row. The session returns a fresh object there because
nothing holds the first one; if it did, `expire_on_commit=False` would give the
old one. SQLite serialises commits, so that a commit is one action.

`Stampede`: the lock's value is "1" for everybody, therefore `lock` holds the
owner only for the properties, and `Release` deletes whatever is there. Time is
left out altogether, so that every relation of TTL, lock life and rebuild time is
covered.

`CircuitBreaker`: a request is admitted, waits at the database, and is told of
success or failure whatever the breaker's state has become. A failed store after
a success reports both, as the code does.

`EventDriven`: the pipeline has `transaction=False`, hence each of its commands
is an action, SADD (`Register`) and EXPIRE (`Prolong`) of one tag among them. A
set that SADD makes has no expiry before EXPIRE (`tagTtl` 0), and EXPIRE on a set
that is gone does nothing. `channel` holds what was published and not yet
received; PUBLISH before the subscription or after the listener's end reaches
nobody. POST /invalidate/key takes any name: the key channel carries the name of an
item's entry or of a tag set, and the listener deletes either; other names are
nobody's. `lapsed` is history: a set ended while the key stood between its SADD
and its EXPIRE.

`TwoLevel`: L1 entries and L2 entries have lives of their own, and a GET that
hits L2 carries the row to L1 in a later action.

`NegativeCache`: a filter answers "maybe" for any id, since false positives and
errors both do, and "no" only for an id that is not in it. BF.ADD on a missing
key makes the filter, BF.EXISTS on one may answer either way. Redis commands
outside the source are modelled as the source and their manual use them.

`HttpCache`: the ORM writes only columns that differ from what the session has
read, so that two PUTs of the same body merge; `Merged` is that rule. Times are
half seconds: a PUT is always a fraction after its second, a seeded date is
whole, and Last-Modified is cut.

`Warming`: the data never change, so that an entry is no more than its remaining
life. A task is at one of its awaits, and a cancellation waits in `cancelled`
until the task's next turn, during which others run. `lag` bounds what a round takes
beside its sleep: the wake-up, two reads of 50 ms and two SETEX. The code's lives leave
60 - 45 = 15 s for two lags, so that each must stay below 7.5 s; a Redis that answers
later breaks the premise, because the client sets no `socket_timeout`. A flush scans
once, as all its keys fit in one batch of 200.

`InProcess`: the threads of `asyncio.to_thread` come from one pool that serves its
calls in order, and a thread keeps its call while it sleeps or waits for
`_ttl_lock`, so that TTL requests may occupy the pool that LRU requests need. The
coroutines of 2.1 take the same lock in the event loop, which then stands still
(`loop`). The data of both caches never change, so that a key stands for its
entry. `cache_hit` of an LRU answer compares `cache_info().hits` before and after
the call, as the code does. A restart empties everything; it is `Init`.

`LookAside`: the seven routers read through Redis and differ in a few decisions, which
the record `Route` names: is EXISTS asked before the fetch, is the TTL asked after a hit, what
becomes of a missing row, which failures are swallowed, does a request ask for
several keys, and how DELETE /cache removes what it finds. One route is chosen in
`Init`. None of them changes a row, so that an entry is present or absent and never
outdated. The decorator and the `clear` of aiocache, which are not in the repository,
are modelled from how 2.6 and 2.9 use them: failures of get and set are
swallowed, `clear` is KEYS of the namespace and one DEL. SCAN may return its keys
in any pages, and only what is there from beginning to end is sure to be returned.

## Runs

The runs of `WriteBehind`, `InProcess` and `LookAside` check deadlock: the worker and
the administrative requests go on for ever. The others set `CHECK_DEADLOCK FALSE`,
because their requests are served once and then the system stops.

| Run | Question | Bounds and why they suffice |
|---|---|---|
| `WriteBehind` | what can be lost, duplicated, reordered, miscounted; does the stream drain | 2 events against a batch of 1 exceed the batch; worker and one flush race; a fault, a clear |
| `WriteBehind_loss` | is nothing acknowledged ever dropped? No | 3 events, batch of 2, no faults |
| `WriteThrough` | what does staleness take; contract; repair by expiry | 3 requests on 2 profiles: two PUTs and a GET overlap on one; a fault |
| `Stampede` | who rebuilds at once; when is a lock lost; are database calls accounted for; do waiters and locks end | 2 locked requests (the holder and the one it evicts), 1 unprotected, 2 polls, 2 faults |
| `CircuitBreaker` | do state, count, time, trips and recoveries agree | threshold 2, 5 requests: trip, two probes, one late; a fault |
| `EventDriven` | is each stale entry about to be invalidated; do tags reach entries | 2 items sharing a tag, 2 GETs (symmetric), 1 PUT; the slack of tag sets is 0, the hardest value; a manual request, a fault |
| `TwoLevel` | where does staleness come from; how long does it last | 2 keys, 2 GETs and 2 POSTs that may meet on one; lives of 1 and 2; a flush, a fault |
| `NegativeCache` | when does the filter deny a user; when is a cached answer wrong | 1 seeded and 1 new user, a lookup, a POST, a DELETE, two makings of the filter, one within POST /reset; a fault |
| `Warming` | is there one scheduler; do kept keys ever expire; are they warmed again | two starts around a stop; one lookup or warming, a flush, a fault; interval and lag of 1 against a life of 4, the tightest allowed |
| `HttpCache` | about what can a 304 be wrong | 2 articles, 2 PUTs, a reset, 3 seconds, one browser (browsers do not affect each other) |
| `InProcess` | is a query alone; do the counts add up; when does a label lie; is everybody answered | 2 LRU requests on 2 codes against a size of 1, so that one evicts the other; 2 TTL requests on 1 user; a pool of 2 threads, which the 4 requests exceed |
| `LookAside` | when does a label lie; what may a clear leave | each of the nine routes with 2 requests over 2 rows, which a batch may ask for together, and a missing one; a fault |

### What the passing runs show

- **WriteBehind.** An acknowledged event is saved or queued unless it was beyond
  the batch, posted during a flush or cleared (`LossNeedsExposure`). Rows of an
  event are bounded by flushers and faults and keep the order of posting
  (`RowsFollowEvents`). `total_flushed_to_db` does not exceed the rows, and GET
  /stats misses no event (`StatsAreHonest`). The stream drains (`StreamDrains`).
- **WriteThrough.** Outside a PUT an entry is stale only after an overlap
  or a failure (`StaleNeedsOverlap`); the whole implements the contract that
  cached versions have been in the database (`ImplementsContract`); in the end
  expiry makes entries coherent (`EventuallyCoherent`), as the guide says of the
  TTL.
- **Stampede.** Two requests rebuild at once only if one was evicted, and eviction
  starts with an expiry or a clear (`LockExcludes`). `db_calls` is the sum of its
  reasons (`DbCallsAccounted`). Requests end and the lock is freed (`WaitsEnd`).
- **CircuitBreaker.** CLOSED means below the threshold, HALF_OPEN means after the
  recovery time and that somebody was admitted since (`BreakerIsConsistent`). Each
  trip has its own failures, and recoveries follow trips (`TripsAddUp`).
- **EventDriven.** A stale entry has its invalidation coming, or was stored
  outdated, or lost its invalidation (`StaleIsPending`). A living entry is in its
  tag sets or being registered, unless a deletion or a failure came in between or
  a set ended between SADD and EXPIRE (`TagsReachEntries`). Once EXPIRE is
  through, expiry takes no tag from a living entry, also with a slack of 0; the
  120 s of the code are a margin for that, and no help against the window.
- **TwoLevel.** Staleness comes from races and failures alone (`StaleIsRaced`)
  and lasts at most L2's life in L2 and the sum of both lives in L1
  (`StalenessIsBounded`). The text of the module promises L1's life alone.
- **NegativeCache.** No order of POSTs and rebuilds makes the filter forget a
  user: it takes a failure, a restart, or a filter made by BF.ADD
  (`DenialsAreExplained`). Cached answers are wrong only after a race or failure
  (`WrongIsRaced`).
- **HttpCache.** A 304 by an article's ETag is always true, one by the list's
  ETag or by date only about articles that no overlapping PUT or reset has
  touched (`EtagsAreHonest`, `DatesAreHonest`).
- **Warming.** Flag and tasks agree in whatever order starts, stops and
  cancellations overlap, and two schedulers never run (`SchedulerIsSingle`).
  From its first round on the scheduler keeps both keys, unless a round fails or a
  flush deletes them (`WarmStaysWarm`), and then warms them again (`WarmsAgain`).
- **InProcess.** Who queries under the lock does so alone, and nobody reads an entry
  meanwhile (`SingleFlight`). Hits and misses add up to the calls that had the
  lock, and sizes to misses, also between the two reads of GET /stats
  (`CountersAddUp`). A label lies only if another call hit, or the cache was cleared,
  during the request (`LabelNeedsOverlap`). Every request is answered although the
  loop waits for a lock that threads hold, also when an entry expires under a hit
  (`RequestsEnd`).
- **LookAside.** A label, or a remaining life of -2 after a hit, is wrong only if the
  entry came or went between two calls of the handler, or if a failure was
  swallowed (`MislabelNeedsRace`). A clear that came to its end leaves only what was
  stored since it began (`ClearIsComplete`), in whatever pages SCAN returns the keys.

### Where code and texts disagree

`WriteBehind_loss` ends with the counterexample it is there for: the stream key
is deleted, not the entries that were read. Its finding in `PROJECT.json` quotes the
texts.

Observed while modelling, without a run of their own:

- 2.11: the lock's winner does not look at the cache again (line 152), so that
  it may rebuild what another has just rebuilt, against "only the lock winner"
  (line 279). Two requests do so one after the other, never at once (`LockExcludes`).
- 2.12: HALF_OPEN admits everybody (line 111), against "allows one probe" (line 17).
- 2.1: an LRU answer may say hit of a miss, and a miss of a hit
  (`LabelNeedsOverlap`); a TTL entry that expires between `in` and the subscript
  gives a 500 after it was counted as a hit.
- 2.6, 2.9: the label comes from an EXISTS before the fetch, against "label hit/miss
  accurately" (`s29_aiocache.py`, line 119). `MislabelNeedsRace` says when.
- The clears say that the next call will be a miss (`s21_lru.py`, line 113): a
  request under way may store after them.
- 2.10, 2.12: without Redis at startup the answer is a 500 and no 503.
- 2.4: a GET may put the row it read before a PUT over the PUT's entry, against
  "cache is always current" (line 74). `StaleNeedsOverlap` says when.
- 2.15: the scheduler sleeps before its first round, so that GET /trending may
  miss while it runs, against "always returns a HIT" (line 304).
- 2.14: POST /user before any POST /bloom/init leaves a filter that denies all
  seeded users, against "Zero false-negatives" (line 11); so does a failed fill,
  which is swallowed.
- 2.8: the list's ETag may stay the same although an article changed, against
  line 227: after two PUTs that read the same row, or after a reset. A client that
  sends Last-Modified alone never gets a 304 for an article changed by a PUT, as
  `updated_at` has fractions (line 147).
- 2.13: the routes `/l2-only` and `/db-only` are registered after the route that
  matches everything. An L1 entry that expires between `in` and the subscript
  (lines 105, 107) gives a 500.
- 2.16: the listener ends at the first exception and nothing restarts it. The
  tag set is deleted after its members (line 182), with what was registered in between.
  A tag set need not outlive its entries, against line 102 ("keep tag SET a bit
  longer than entries"): SADD to a set in its last moment, the set ends, EXPIRE
  finds no key, and the new entry lives on in no set, by expiry alone; a tag
  invalidation misses it, against line 397 ("delete ALL cache keys registered
  under this tag"). `TagsReachEntries` without its last disjunct, `lapsed[i]`,
  fails in this way, also with a `SLACK` of 1, without a failure or a manual request.
  POST /invalidate/key with the name of a tag set deletes the set and leaves its
  entries behind.
- 2.12: a late success closes an OPEN breaker (line 114). A failed SETEX counts
  as a failure of the database (line 389).
- 2.15: the startup warming is called by nobody.

## Fairness

Only where a liveness property needs it, and only what asyncio and Redis give.

- `WriteBehind`: weak fairness of the worker's steps. Its loop sleeps for a fixed
  time and catches every exception (lines 49 to 84). Faults are bounded, which
  stands for Redis and SQLite working in the end.
- `WriteThrough`: weak fairness of a request that has begun (the loop runs every
  ready task) and of expiry (`setex` gives each entry an end).
- `Stampede`: weak fairness of requests that have begun and of the lock's expiry
  (`ex=` in the SET).
- `CircuitBreaker` states fairness of the database's answers and of the clock;
  its properties are safety and do not use it.
- `Warming`: weak fairness of time and of the scheduler's steps, including the
  delivery of a cancellation. Its round catches every exception (line 252).
- `InProcess`: weak fairness of every thread and of the step that waits for the
  lock in the loop; strong fairness of a handler's resumption, because asyncio's
  ready queue is first in, first out, whoever else takes the loop in between.
- The other modules have no fairness and no liveness property yet.

Nothing is fair about a *new* request, a clear, a reset or a fault.

## Proofs

TLAPS checks the theorems in the eight `_proofs` modules for every value of the
constants that satisfies the `ASSUME` of the module. The assumptions say
that identities differ and that bounds are natural numbers; that of `Warming` also
that the interval and two lags are less than the lives, and those of
`WriteBehind` and `HttpCache` that the forced flushes and the PUTs are finitely
many, because their theorems count them. TLC evaluates the assumptions on its
instances. With these theorems every invariant and every action property that a run
checks is proved, and so is the refinement.

| Theorem | Argument |
|---|---|
| `TypeCorrect` (eight times), `HCTypeCorrect`, `NCTypeCorrect`, `EDTypeCorrect` | `TypeOK` is inductive, but for three modules. `HttpCache`: versions and times are bounded because each PUT commits once and none is ahead of the clock (`RowsSoFar`). `EventDriven`: what the listener has in hand is of the kind of its branch, and who is about to EXPIRE has a tag left (`EDTypeInv`). `InProcess`: a queued request is in the queue once (`TypeInv`) |
| `NothingLostUnexposed` | `LossNeedsExposure` alone is not inductive: a flusher at "delete" must have saved its batch, and what is pending then is in the batch, beyond it, or posted since. `LossInv` adds this; one lemma per action |
| `RowsAreRight` | two invariants. `DuplicationInv`: the rows of an event and the flushers that may still insert one (`Could`) are together at most the flushers, once for each fault and once more; an insertion uses one flusher up and only a fault gives it back. `OrderInv`: of two events that nothing exposed, the earlier is in SQLite or ahead of the later in the stream and in every batch (`Ahead`). Both rest on `KnownInv`: nothing is in the system that was not posted, and nothing twice in the stream or in a batch |
| `StatsAreRight` | `CounterInv`: the counter and what flushers have committed and not yet counted (`Owed`, pairs of flusher and position) are at most the rows. `StatsInv`: while nothing was exposed, stream and table together are no shorter than what was posted (`PostedIsCounted`), when XLEN is read and when the rows are counted |
| `PutKeepsItsWrite` | what a request holds never exceeds the row (`HeldBelow`) and a PUT's commit neither (`MineBelow`) |
| `WriteThroughImplementsContract` | each action is a step of the contract or changes neither side; needs `HeldBelow`, since only a version the row has had may be stored |
| `StaleOnlyByOverlap` | an undisturbed profile has all held versions equal to the row; lemmas per storing, committing, failing and restarting step |
| `EtagsCorrect`, `DatesCorrect` | `HonestInv`: a browser's copy of an article that nothing disturbed is its row, or has a smaller version and, with its time cut to the second, an earlier one (`CopiesFollow`); a PUT about to commit makes exactly the next version, at a time with a fraction (`EditsFollow`) |
| `MutualExclusion` | `LockInv`: a holder that was not evicted owns the lock key; lemmas for keeping, releasing and clearing the lock |
| `DbCallsAddUp` | every step that counts a call counts its reason (`CountTwice`) |
| `BreakerConsistent`, `TripsAreCounted` | `BreakerInv`, their conjunction with "the clock is not behind the trip", is inductive; `FailureKeepsBreaker` is the step that counts |
| `StaleCorrect` | `StaleIsPending` is inductive with `EDTypeInv`: whoever stores records whether it was outdated, a message moves from the PUT to the channel to the listener's hands, and who loses it records that (`UndeliveredKept`, `DeliverKeeps`) |
| `TagsCorrect` | not inductive alone: of several GETs that register an item, only the last that stored it has all missing tags in hand (`Leads`), and a set that holds a living entry must outlive it (`Held`), or a tick could take it, but for the set that SADD has reached and EXPIRE has not (`Midway`). A tag is thus held, owed or midway (`Owed`), and a tick that ends a set midway makes the entry `lapsed`; `TagsHold` says this |
| `OnlyALapseTakesTags` | `Undisturbed`: before the administrator's first request the channel carries keys of items only, so the listener never deletes a set and nothing is to be wiped; then only a failed call makes an `orphaned` entry, and by `TagsCorrect` what is left is a set that ended between SADD and EXPIRE |
| `DenialsCorrect` | `FilterCovers`: every user is in the filter, in `holes`, about to be added, or an administrator will still collect or is about to add it (`Covered`). It is stated for the time that somebody is about to fill a missing filter too |
| `RebuildsAreWhole` | `RebuildFills`: from the first rebuild on and without faults, every user is in the filter, about to be added, or will be collected or filled in (`Filled`). It needs no `holes`: it says what a rebuild repairs, also when the first one finds no filter |
| `WrongCorrect` | `WrongIsAnswered`: an administrator past its scan answers only for the keys it found, since who stores after its scan records whether the entry was outdated (`SetEntryEffect`) |
| `OneScheduler` | a cancellation only waits for a task that lives (`SchedulerInv`), so that a new task never starts cancelled; `TaskGoesOn` covers the steps of a round |
| `KeysStayWarm` | `WarmInv`: a warm key's remaining life and the time spent since it was stored are its whole life; that time is bounded by the interval and two lags (`SpentType`), which the assumption puts below the lives |
| `StalenessNeedsRaces` | `StaleIsRaced` is inductive: a POST that is under way excuses what it made stale (`WritingGoesOn`), and a store records whether it was outdated (`SetIsHonest`) |
| `StalenessEnds` | not inductive alone: `BoundInv` adds how old an outdated row in a request's hands may be (`InHand`), namely 0 ticks of calm before a store and L2's life before the backfill; a tick takes from each life what it adds to the calm |
| `QueriesAreAlone` | `LockInv`: whoever is between lookup and release holds the lock, and a querying thread's key is absent |
| `CountersAreHonest` | the calls that took the lock are those counted and the one that queries (`TtlCountedStep`); an entry of the LRU was missed by a call that a clear may have forgotten (`LruCountedStep`) |
| `NobodyIsStuck` | the request that blocks the loop is at its `size`, and each kind of request keeps to its own places (`PlacesInv`, `PlacesStep`). With `LockInv`: a held lock belongs to a thread that goes on by itself; a free lock lets the loop go on; with both free, a call in a thread, at the head of the pool's queue or back in the loop goes on. "Goes on" is written out as the guards of the actions, `ENABLED` being out of the prover's reach; that those who can go on do, and so every request ends, is `RequestsEnd`, which TLC checks |
| `LabelsNeedOverlap` | `HitsInv`: while nobody else hit and nothing was cleared, a request's `before` is the count without its own hit |
| `ClearLeavesNothing` | `ClearInv`: what is cached is yet to be scanned, in the page to delete, or fresh |
| `LabelsNeedRaces` | `LabelInv`: an untouched request's keys are as EXISTS or GET found them (`Explained`), and who touches one is recorded (`BystandersStayExplained`) |

Only model-checked: the liveness properties (`StreamDrains`, `EventuallyCoherent`,
`WaitsEnd`, `WarmsAgain`, `RequestsEnd`), which are beyond the prover.

## Not modelled

- Counters and logs that only a statistics endpoint shows, except where a
  property is about them (2.5, 2.11, 2.12).
- How long a jittered entry of 2.12 lives: a random TTL within bounds. That it
  expires at some time is modelled, in `LookAside`.
- Routes that only report (GET /stats, /status, /log and the like), except those whose
  answer a property is about.
- Frontend: no state. Seeding: inserts at startup.
- The Redis connection pool of 20, which raises when it is exhausted (POST
  /simulate may ask for 50): a raise is `Fail`, whatever its reason.
- Several worker processes. The repository starts one.

## Plan

1. `CacheContract` under 2.13 too, with both levels mapped to one cache.
2. A second tag in `EventDriven`, and a second forced flush in `WriteBehind`, have
   several million states; the theorems speak for those, as for any number.
