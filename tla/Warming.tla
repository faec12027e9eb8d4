------------------------------ MODULE Warming ------------------------------
(* Cache warming, be/routers/s215_cache_warming.py: a scheduler stores the   *)
(* trending list and the site config again before they expire; it is started *)
(* and stopped by requests, beside others that look up, warm and flush. One  *)
(* action is the code between two awaits. The data behind the cache never    *)
(* change, therefore an entry is no more than its remaining life. The        *)
(* counters and the log are left out: nothing reads them back.               *)
EXTENDS Naturals, Sequences

CONSTANTS
    Catalog,            \* the products in the order of _PRODUCTS
    Trending, Config,   \* the other two keys
    Fills,              \* requests that store: GETs and warmings
    Flushes, Starts, Stops,     \* the other requests; each is served once
    Tasks,              \* bound: the identities of scheduler tasks, 1..n
    CATALOG_TTL, CONFIG_TTL, TRENDING_TTL, SCHEDULER_INTERVAL,
    Lag,                \* bound: what a round may take beside its sleep
    MaxFaults           \* bound: failed calls and restarts in a behaviour

Products == {Catalog[i] : i \in DOMAIN Catalog}
Keys == Products \cup {Trending, Config}
Requests == Fills \cup Flushes \cup Starts \cup Stops

ASSUME WarmingAssumption ==
    /\ Catalog \in Seq(Products)
    /\ Trending # Config
    /\ {Trending, Config} \cap Products = {}
    /\ \A S, T \in {Fills, Flushes, Starts, Stops} :
           S = T \/ S \cap T = {}
    /\ Tasks \subseteq Nat \ {0}
    /\ {CATALOG_TTL, CONFIG_TTL, TRENDING_TTL, SCHEDULER_INTERVAL}
           \subseteq Nat \ {0}
    /\ Lag \in Nat
    /\ SCHEDULER_INTERVAL + 2 * Lag < TRENDING_TTL
    /\ TRENDING_TTL <= CONFIG_TTL
    /\ MaxFaults \in Nat

VARIABLES
    connected,          \* the lifespan found Redis
    cache,              \* remaining life of each entry, 0 if there is none
    scheduler_running,  \* _scheduler_running
    scheduler_task,     \* _scheduler_task, 0 for None
    stage,              \* where each task is
    left, lag,          \* what is left of its sleep; how late its round is
    cancelled,          \* tasks with a cancellation that awaits delivery
    pc,                 \* where each request is
    plan,               \* the keys a request still has to store
    found,              \* the keys a flush has scanned and not yet deleted
    awaited,            \* the task a stop waits for
    faults,             \* faults so far
    warm                \* history: the running scheduler has stored this key,
                        \* each round since has, and no flush has deleted it

scheduler == <<scheduler_running, scheduler_task, cancelled>>
timing == <<left, lag>>
locals == <<plan, found, awaited>>
requests == <<pc, locals>>
vars == <<connected, cache, scheduler, stage, timing, requests, faults, warm>>

Life(k) == CASE k = Trending -> TRENDING_TTL
             [] k = Config -> CONFIG_TTL
             [] OTHER -> CATALOG_TTL

Cold == [k \in Keys |-> FALSE]

Init ==
    /\ connected \in BOOLEAN
    /\ cache = [k \in Keys |-> 0]
    /\ scheduler_running = FALSE
    /\ scheduler_task = 0
    /\ stage = [t \in Tasks |-> "unborn"]
    /\ left = [t \in Tasks |-> 0]
    /\ lag = [t \in Tasks |-> 0]
    /\ cancelled = {}
    /\ pc = [r \in Requests |-> "new"]
    /\ plan = [r \in Requests |-> <<>>]
    /\ found = [r \in Flushes |-> {}]
    /\ awaited = [r \in Stops |-> 0]
    /\ faults = 0
    /\ warm = Cold

Live(t) == stage[t] \notin {"unborn", "done"}
Scheduling(t) == Live(t) /\ t \notin cancelled

SetEx(k) == cache' = [cache EXCEPT ![k] = Life(k)]

Goto(r, from, to) ==
    /\ pc[r] = from
    /\ pc' = [pc EXCEPT ![r] = to]

Advance(t, from, to) ==
    /\ stage[t] = from
    /\ stage' = [stage EXCEPT ![t] = to]

----------------------------------------------------------------------------
(* The scheduler: sleep, store the trending list, store the config.          *)
Sleep(t) ==
    /\ stage' = [stage EXCEPT ![t] =
                    IF scheduler_running THEN "asleep" ELSE "done"]
    /\ left' = [left EXCEPT ![t] =
                    IF scheduler_running THEN SCHEDULER_INTERVAL ELSE 0]
    /\ lag' = [lag EXCEPT ![t] = 0]

(* The clocks of a task that has ended are of no use.                        *)
Forget(t) ==
    /\ left' = [left EXCEPT ![t] = 0]
    /\ lag' = [lag EXCEPT ![t] = 0]

Begin(t) ==
    /\ stage[t] = "born"
    /\ t \notin cancelled
    /\ Sleep(t)
    /\ UNCHANGED <<connected, cache, scheduler, requests, faults, warm>>

Wake(t) ==
    /\ stage[t] = "asleep"
    /\ left[t] = 0
    /\ t \notin cancelled
    /\ \/ /\ ~scheduler_running
          /\ Advance(t, "asleep", "done")
          /\ Forget(t)
       \/ /\ scheduler_running
          /\ connected
          /\ Advance(t, "asleep", "trending")
          /\ UNCHANGED timing
       \/ /\ scheduler_running
          /\ ~connected
          /\ Sleep(t)
    /\ UNCHANGED <<connected, cache, scheduler, requests, faults, warm>>

(* The store of a task that is being cancelled does not count as warming.    *)
Warmed(t, k) == warm' = [warm EXCEPT ![k] = @ \/ t \notin cancelled]

(* Mutant: the list lives as long as the scheduler sleeps.                   *)
StoreTrendingBriefly(t) ==
    /\ Advance(t, "trending", "config")
    /\ cache' = [cache EXCEPT ![Trending] = SCHEDULER_INTERVAL]
    /\ Warmed(t, Trending)
    /\ UNCHANGED <<connected, scheduler, timing, requests, faults>>

(* Mutant: the lives of the two keys are swapped.                            *)
StoreTrendingAsConfig(t) ==
    /\ Advance(t, "trending", "config")
    /\ cache' = [cache EXCEPT ![Trending] = CONFIG_TTL]
    /\ Warmed(t, Trending)
    /\ UNCHANGED <<connected, scheduler, timing, requests, faults>>

StoreTrending(t) ==
    /\ Advance(t, "trending", "config")
    /\ SetEx(Trending)
    /\ Warmed(t, Trending)
    /\ UNCHANGED <<connected, scheduler, timing, requests, faults>>

StoreConfig(t) ==
    /\ Advance(t, "config", "ending")
    /\ SetEx(Config)
    /\ Warmed(t, Config)
    /\ UNCHANGED <<connected, scheduler, timing, requests, faults>>

EndRound(t) ==
    /\ stage[t] = "ending"
    /\ t \notin cancelled
    /\ Sleep(t)
    /\ UNCHANGED <<connected, cache, scheduler, requests, faults, warm>>

(* A round that fails leaves out what it has not stored yet.                 *)
Spoil(t) ==
    warm' = [warm EXCEPT ![Config] = FALSE,
                         ![Trending] = @ /\ stage[t] = "config"]

(* Mutant: the exception ends the task.                                      *)
RoundKills(t) ==
    /\ faults < MaxFaults
    /\ stage[t] \in {"trending", "config"}
    /\ t \notin cancelled
    /\ stage' = [stage EXCEPT ![t] = "done"]
    /\ Spoil(t)
    /\ faults' = faults + 1
    /\ UNCHANGED <<connected, cache, scheduler, timing, requests>>

RoundFails(t) ==
    /\ faults < MaxFaults
    /\ stage[t] \in {"trending", "config"}
    /\ t \notin cancelled
    /\ Sleep(t)
    /\ Spoil(t)
    /\ faults' = faults + 1
    /\ UNCHANGED <<connected, cache, scheduler, requests>>

(* A cancellation ends the task at whatever await it has reached.            *)
Cancelled(t) ==
    /\ t \in cancelled
    /\ Live(t)
    /\ stage' = [stage EXCEPT ![t] = "done"]
    /\ cancelled' = cancelled \ {t}
    /\ Forget(t)
    /\ UNCHANGED <<connected, cache, scheduler_running, scheduler_task,
                   requests, faults, warm>>

Scheduler(t) ==
    \/ Begin(t) \/ Wake(t) \/ StoreTrending(t) \/ StoreConfig(t)
    \/ EndRound(t) \/ Cancelled(t)

----------------------------------------------------------------------------
(* POST /scheduler/start and /scheduler/stop                                 *)
AlreadyRuns ==
    /\ scheduler_running
    /\ scheduler_task # 0
    /\ stage[scheduler_task] # "done"

Start(r) ==
    /\ Goto(r, "new", "done")
    /\ \/ /\ AlreadyRuns
          /\ UNCHANGED <<scheduler, stage>>
       \/ /\ ~AlreadyRuns
          /\ \E t \in Tasks :
                /\ stage[t] = "unborn"
                /\ \A u \in Tasks : u < t => stage[u] # "unborn"
                /\ stage' = [stage EXCEPT ![t] = "born"]
                /\ scheduler_task' = t
          /\ scheduler_running' = TRUE
          /\ UNCHANGED cancelled
    /\ UNCHANGED <<connected, cache, timing, locals, faults, warm>>

(* Mutant: only the flag is cleared, and the task is left to notice.         *)
StopByFlag(r) ==
    /\ Goto(r, "new", "done")
    /\ scheduler_running' = FALSE
    /\ warm' = Cold
    /\ UNCHANGED <<connected, cache, scheduler_task, cancelled, stage, timing,
                   locals, faults>>

Stop(r) ==
    /\ pc[r] = "new"
    /\ scheduler_running' = FALSE
    /\ \/ /\ scheduler_task # 0
          /\ stage[scheduler_task] # "done"
          /\ cancelled' = cancelled \cup {scheduler_task}
          /\ awaited' = [awaited EXCEPT ![r] = scheduler_task]
          /\ Goto(r, "new", "join")
       \/ /\ scheduler_task # 0 => stage[scheduler_task] = "done"
          /\ Goto(r, "new", "done")
          /\ UNCHANGED <<cancelled, awaited>>
    /\ warm' = Cold
    /\ UNCHANGED <<connected, cache, scheduler_task, stage, timing, plan, found,
                   faults>>

Join(r) ==
    /\ Goto(r, "join", "done")
    /\ stage[awaited[r]] = "done"
    /\ awaited' = [awaited EXCEPT ![r] = 0]
    /\ UNCHANGED <<connected, cache, scheduler, stage, timing, plan, found,
                   faults, warm>>

----------------------------------------------------------------------------
(* The requests that look up, warm and flush; each needs Redis.              *)
Lookup(r) ==
    /\ connected
    /\ \E k \in Keys :
          \/ /\ cache[k] > 0
             /\ Goto(r, "new", "done")
             /\ UNCHANGED plan
          \/ /\ cache[k] = 0
             /\ Goto(r, "new", "store")
             /\ plan' = [plan EXCEPT ![r] = <<k>>]
    /\ UNCHANGED <<connected, cache, scheduler, stage, timing, found, awaited,
                   faults, warm>>

(* POST /warm/startup, and POST /warm/pipeline, which sends its commands     *)
(* together but not as a transaction.                                        *)
Warm(r) ==
    /\ connected
    /\ Goto(r, "new", "store")
    /\ plan' \in {[plan EXCEPT ![r] = Catalog],
                  [plan EXCEPT ![r] = Catalog \o <<Config, Trending>>]}
    /\ UNCHANGED <<connected, cache, scheduler, stage, timing, found, awaited,
                   faults, warm>>

StoreNext(r) ==
    /\ pc[r] = "store"
    /\ plan[r] # <<>>
    /\ SetEx(Head(plan[r]))
    /\ plan' = [plan EXCEPT ![r] = Tail(@)]
    /\ pc' = [pc EXCEPT ![r] = IF Tail(plan[r]) = <<>> THEN "done" ELSE @]
    /\ UNCHANGED <<connected, scheduler, stage, timing, found, awaited, faults,
                   warm>>

(* DELETE /cache/flush and POST /stats/reset                                 *)
Scan(r) ==
    /\ connected
    /\ Goto(r, "new", "delete")
    /\ found' = [found EXCEPT ![r] = {k \in Keys : cache[k] > 0}]
    /\ UNCHANGED <<connected, cache, scheduler, stage, timing, plan, awaited,
                   faults, warm>>

Delete(r) ==
    /\ pc[r] = "delete"
    /\ \E k \in found[r] :
          /\ cache' = [cache EXCEPT ![k] = 0]
          /\ found' = [found EXCEPT ![r] = @ \ {k}]
          /\ warm' = [warm EXCEPT ![k] = FALSE]
    /\ UNCHANGED <<connected, scheduler, stage, timing, pc, plan, awaited,
                   faults>>

RequestFails(r) ==
    /\ faults < MaxFaults
    /\ pc[r] \in {"store", "delete"}
    /\ pc' = [pc EXCEPT ![r] = "done"]
    /\ plan' = [plan EXCEPT ![r] = <<>>]
    /\ found' = [f \in Flushes |-> IF f = r THEN {} ELSE found[f]]
    /\ faults' = faults + 1
    /\ UNCHANGED <<connected, cache, scheduler, stage, timing, awaited, warm>>

----------------------------------------------------------------------------
Less(n) == IF n = 0 THEN 0 ELSE n - 1

(* Time passes for the entries and for the tasks, the sleeping ones and the  *)
(* late ones.                                                                *)
Sleeping(t) == stage[t] = "asleep" /\ t \notin cancelled /\ left[t] > 0

Tick ==
    /\ \A t \in Tasks : Scheduling(t) => Sleeping(t) \/ lag[t] < Lag
    /\ cache' = [k \in Keys |-> Less(cache[k])]
    /\ left' = [t \in Tasks |-> IF Sleeping(t) THEN left[t] - 1 ELSE left[t]]
    /\ lag' = [t \in Tasks |-> IF Scheduling(t) /\ ~Sleeping(t)
                               THEN lag[t] + 1 ELSE lag[t]]
    /\ UNCHANGED <<connected, scheduler, stage, requests, faults, warm>>

(* A restart: tasks and requests are gone, Redis keeps the entries.          *)
Crash ==
    /\ faults < MaxFaults
    /\ faults' = faults + 1
    /\ connected' \in BOOLEAN
    /\ scheduler_running' = FALSE
    /\ scheduler_task' = 0
    /\ stage' = [t \in Tasks |-> IF Live(t) THEN "done" ELSE stage[t]]
    /\ pc' = [r \in Requests |-> IF pc[r] = "new" THEN "new" ELSE "done"]
    /\ left' = [t \in Tasks |-> 0]
    /\ lag' = [t \in Tasks |-> 0]
    /\ plan' = [r \in Requests |-> <<>>]
    /\ found' = [r \in Flushes |-> {}]
    /\ awaited' = [r \in Stops |-> 0]
    /\ cancelled' = {}
    /\ warm' = Cold
    /\ UNCHANGED cache

Next ==
    \/ \E t \in Tasks : Scheduler(t) \/ RoundFails(t)
    \/ \E r \in Starts : Start(r)
    \/ \E r \in Stops : Stop(r) \/ Join(r)
    \/ \E r \in Fills : Lookup(r) \/ Warm(r) \/ StoreNext(r)
    \/ \E r \in Flushes : Scan(r) \/ Delete(r)
    \/ \E r \in Requests : RequestFails(r)
    \/ Tick
    \/ Crash

(* Time passes and the loop runs a task that is ready.                       *)
Fairness ==
    /\ WF_vars(Tick)
    /\ WF_vars(\E t \in Tasks : Scheduler(t))

Spec == Init /\ [][Next]_vars /\ Fairness

----------------------------------------------------------------------------
TypeOK ==
    /\ connected \in BOOLEAN
    /\ cache \in [Keys -> Nat]
    /\ \A k \in Keys : cache[k] <= Life(k)
    /\ scheduler_running \in BOOLEAN
    /\ scheduler_task \in Tasks \cup {0}
    /\ stage \in [Tasks -> {"unborn", "born", "asleep", "trending", "config",
                            "ending", "done"}]
    /\ left \in [Tasks -> 0..SCHEDULER_INTERVAL]
    /\ lag \in [Tasks -> 0..Lag]
    /\ cancelled \subseteq Tasks
    /\ pc \in [Requests -> {"new", "store", "delete", "join", "done"}]
    /\ plan \in [Requests -> Seq(Keys)]
    /\ found \in [Flushes -> SUBSET Keys]
    /\ awaited \in [Stops -> Tasks \cup {0}]
    /\ faults \in 0..MaxFaults
    /\ warm \in [Keys -> BOOLEAN]

(* The flag and the tasks agree whatever starts, stops and failures overlap: *)
(* while _scheduler_running there is a task that goes on, and a task that    *)
(* goes on is the one _scheduler_task names, so that there never are two.    *)
SchedulerIsSingle ==
    /\ scheduler_running => \E t \in Tasks : Scheduling(t)
    /\ \A t \in Tasks : Scheduling(t) => scheduler_running /\ t = scheduler_task

(* Nobody finds a cold key that the scheduler keeps: from its first round    *)
(* on, unless a round fails or a flush deletes it, the key never expires.    *)
WarmStaysWarm ==
    \A k \in {Trending, Config} : warm[k] => cache[k] > 0

(* After whatever flushes and failures there were, a scheduler that is not   *)
(* stopped warms the trending list again: its loop survives a failed round.  *)
WarmsAgain ==
    scheduler_running /\ connected
        ~> cache[Trending] > 0 \/ ~scheduler_running
============================================================================
