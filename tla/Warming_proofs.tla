--------------------------- MODULE Warming_proofs ---------------------------
(* Proofs about Warming, for every catalog, life, interval, lag and number   *)
(* of requests that satisfy WarmingAssumption.                               *)
EXTENDS Warming, TLAPS

Stages == {"unborn", "born", "asleep", "trending", "config", "ending", "done"}
Places == {"new", "store", "delete", "join", "done"}

(* The life of an entry is a positive number.                                *)
LEMMA LifeType == \A k \in Keys : Life(k) \in Nat \ {0}
  BY WarmingAssumption DEF Life

LEMMA KeysOfScheduler == Trending \in Keys /\ Config \in Keys /\ Trending # Config
  BY WarmingAssumption DEF Keys

(* What Sleep, Forget and Warmed leave is typed.                             *)
LEMMA SleepTyped ==
    ASSUME TypeOK, NEW t \in Tasks, Sleep(t)
    PROVE  /\ stage' \in [Tasks -> Stages]
           /\ left' \in [Tasks -> 0..SCHEDULER_INTERVAL]
           /\ lag' \in [Tasks -> 0..Lag]
  <1>1. SCHEDULER_INTERVAL \in Nat /\ Lag \in Nat
    BY WarmingAssumption
  <1> QED
    BY <1>1 DEF TypeOK, Sleep, Stages

LEMMA EmptyPlans == [r \in Requests |-> <<>>] \in [Requests -> Seq(Keys)]
  <1>1. <<>> \in Seq(Keys)
    OBVIOUS
  <1> QED
    BY <1>1

LEMMA SetExTyped ==
    ASSUME TypeOK, NEW k \in Keys, SetEx(k)
    PROVE  cache' \in [Keys -> Nat] /\ \A j \in Keys : cache'[j] <= Life(j)
  BY LifeType DEF TypeOK, SetEx

(* Every reachable state of the warming component is well typed; no entry    *)
(* ever outlives its life, and no round its lag.                             *)
THEOREM TypeCorrect == Spec => []TypeOK
  <1> USE DEF Stages, Places
  <1>0. /\ CATALOG_TTL \in Nat /\ CONFIG_TTL \in Nat /\ TRENDING_TTL \in Nat
        /\ SCHEDULER_INTERVAL \in Nat \ {0} /\ Lag \in Nat /\ MaxFaults \in Nat
        /\ Tasks \subseteq Nat \ {0} /\ Catalog \in Seq(Products)
    BY WarmingAssumption
  <1>1. Init => TypeOK
    <2> SUFFICES ASSUME Init PROVE TypeOK
      OBVIOUS
    <2>1. \A k \in Keys : cache[k] <= Life(k)
      BY LifeType DEF Init
    <2>2. plan \in [Requests -> Seq(Keys)] /\ warm \in [Keys -> BOOLEAN]
      BY EmptyPlans DEF Init, Cold
    <2>3. cache \in [Keys -> Nat] /\ faults \in 0..MaxFaults
      BY <1>0 DEF Init
    <2>4. /\ left \in [Tasks -> 0..SCHEDULER_INTERVAL]
          /\ lag \in [Tasks -> 0..Lag]
      BY <1>0 DEF Init
    <2> QED
      BY <2>1, <2>2, <2>3, <2>4 DEF Init, TypeOK
  <1>2. TypeOK /\ [Next]_vars => TypeOK'
    <2> SUFFICES ASSUME TypeOK, [Next]_vars
                 PROVE  TypeOK'
      OBVIOUS
    <2>1. ASSUME NEW t \in Tasks, Begin(t) \/ EndRound(t)
          PROVE  TypeOK'
      <3>1. Sleep(t)
        BY <2>1 DEF Begin, EndRound
      <3>2. UNCHANGED <<connected, cache, scheduler, requests, faults, warm>>
        BY <2>1 DEF Begin, EndRound
      <3> QED
        BY <3>2, SleepTyped, <3>1 DEF TypeOK, scheduler, requests, locals
    <2>2. ASSUME NEW t \in Tasks, Wake(t)
          PROVE  TypeOK'
      <3>1. UNCHANGED <<connected, cache, scheduler, requests, faults, warm>>
        BY <2>2 DEF Wake
      <3>2. /\ stage' \in [Tasks -> Stages]
            /\ left' \in [Tasks -> 0..SCHEDULER_INTERVAL]
            /\ lag' \in [Tasks -> 0..Lag]
        <4>1. CASE Sleep(t)
          BY <4>1, SleepTyped
        <4>2. CASE Advance(t, "asleep", "done") /\ Forget(t)
          BY <1>0, <4>2 DEF TypeOK, Advance, Forget
        <4>3. CASE Advance(t, "asleep", "trending") /\ UNCHANGED timing
          BY <4>3 DEF TypeOK, Advance, timing
        <4> QED
          BY <2>2, <4>1, <4>2, <4>3 DEF Wake
      <3> QED
        BY <3>1, <3>2 DEF TypeOK, scheduler, requests, locals
    <2>3. ASSUME NEW t \in Tasks, StoreTrending(t) \/ StoreConfig(t)
          PROVE  TypeOK'
      <3>1. UNCHANGED <<connected, scheduler, timing, requests, faults>>
        BY <2>3 DEF StoreTrending, StoreConfig
      <3>2. cache' \in [Keys -> Nat] /\ \A j \in Keys : cache'[j] <= Life(j)
        BY <2>3, SetExTyped, KeysOfScheduler DEF StoreTrending, StoreConfig
      <3>3. stage' \in [Tasks -> Stages] /\ warm' \in [Keys -> BOOLEAN]
        <4>1. stage' \in [Tasks -> Stages]
          BY <2>3 DEF StoreTrending, StoreConfig, Advance, TypeOK
        <4>2. warm' \in [Keys -> BOOLEAN]
          BY <2>3, Zenon DEF StoreTrending, StoreConfig, Warmed, TypeOK
        <4> QED
          BY <4>1, <4>2
      <3> QED
        BY <3>1, <3>2, <3>3 DEF TypeOK, scheduler, timing, requests, locals
    <2>4. ASSUME NEW t \in Tasks, RoundFails(t)
          PROVE  TypeOK'
      <3>1. UNCHANGED <<connected, cache, scheduler, requests>>
        BY <2>4 DEF RoundFails
      <3>2. /\ stage' \in [Tasks -> Stages]
            /\ left' \in [Tasks -> 0..SCHEDULER_INTERVAL]
            /\ lag' \in [Tasks -> 0..Lag]
        BY <2>4, SleepTyped DEF RoundFails
      <3>3. warm' \in [Keys -> BOOLEAN]
        BY <2>4, Zenon DEF RoundFails, Spoil, TypeOK
      <3>4. faults' \in 0..MaxFaults
        BY <1>0, <2>4 DEF RoundFails, TypeOK
      <3> QED
        BY <3>1, <3>2, <3>3, <3>4 DEF TypeOK, scheduler, requests, locals
    <2>5. ASSUME NEW t \in Tasks, Cancelled(t)
          PROVE  TypeOK'
      BY <1>0, <2>5
      DEF Cancelled, Forget, TypeOK, requests, locals
    <2>6. ASSUME NEW r \in Starts, Start(r)
          PROVE  TypeOK'
      BY <2>6
      DEF Start, Goto, TypeOK, scheduler, timing, locals
    <2>7. ASSUME NEW r \in Stops, Stop(r)
          PROVE  TypeOK'
      BY <2>7, <1>0
      DEF Stop, Goto, TypeOK, Cold, timing
    <2>8. ASSUME NEW r \in Stops, Join(r)
          PROVE  TypeOK'
      BY <2>8
      DEF Join, Goto, TypeOK, scheduler, timing
    <2>9. ASSUME NEW r \in Fills, Lookup(r) \/ Warm(r)
          PROVE  TypeOK'
      <3>1. plan' \in [Requests -> Seq(Keys)]
        <4>1. \A k \in Keys : <<k>> \in Seq(Keys)
          OBVIOUS
        <4>2. Catalog \in Seq(Keys) /\ <<Config, Trending>> \in Seq(Keys)
          BY <1>0, KeysOfScheduler DEF Keys
        <4>3. Catalog \o <<Config, Trending>> \in Seq(Keys)
          BY <4>2
        <4> QED
          BY <2>9, <4>1, <4>2, <4>3 DEF Lookup, Warm, TypeOK
      <3>2. pc' \in [Requests -> Places]
        BY <2>9 DEF Lookup, Warm, Goto, TypeOK
      <3>3. UNCHANGED <<connected, cache, scheduler, stage, timing, found,
                        awaited, faults, warm>>
        BY <2>9 DEF Lookup, Warm
      <3> QED
        BY <3>1, <3>2, <3>3 DEF TypeOK, scheduler, timing
    <2>10. ASSUME NEW r \in Fills, StoreNext(r)
           PROVE  TypeOK'
      <3>1. r \in Requests /\ plan[r] \in Seq(Keys) /\ plan[r] # <<>>
        BY <2>10 DEF StoreNext, TypeOK, Requests
      <3>2. Head(plan[r]) \in Keys /\ Tail(plan[r]) \in Seq(Keys)
        BY <3>1
      <3>3. cache' \in [Keys -> Nat] /\ \A j \in Keys : cache'[j] <= Life(j)
        BY <2>10, <3>2, SetExTyped DEF StoreNext
      <3>4. plan' \in [Requests -> Seq(Keys)] /\ pc' \in [Requests -> Places]
        BY <2>10, <3>2 DEF StoreNext, TypeOK
      <3>5. UNCHANGED <<connected, scheduler, stage, timing, found, awaited,
                        faults, warm>>
        BY <2>10 DEF StoreNext
      <3> QED
        BY <3>3, <3>4, <3>5 DEF TypeOK, scheduler, timing
    <2>11. ASSUME NEW r \in Flushes, Scan(r)
           PROVE  TypeOK'
      BY <2>11 DEF Scan, Goto, TypeOK, scheduler, timing
    <2>12. ASSUME NEW r \in Flushes, Delete(r)
           PROVE  TypeOK'
      <3>1. PICK k \in found[r] :
                /\ cache' = [cache EXCEPT ![k] = 0]
                /\ found' = [found EXCEPT ![r] = @ \ {k}]
                /\ warm' = [warm EXCEPT ![k] = FALSE]
        BY <2>12 DEF Delete
      <3>2. cache' \in [Keys -> Nat] /\ \A j \in Keys : cache'[j] <= Life(j)
        BY <3>1, LifeType DEF TypeOK
      <3>3. found' \in [Flushes -> SUBSET Keys] /\ warm' \in [Keys -> BOOLEAN]
        BY <3>1 DEF TypeOK
      <3>4. UNCHANGED <<connected, scheduler, stage, timing, pc, plan, awaited,
                        faults>>
        BY <2>12 DEF Delete
      <3> QED
        BY <3>2, <3>3, <3>4 DEF TypeOK, scheduler, timing
    <2>13. ASSUME NEW r \in Requests, RequestFails(r)
           PROVE  TypeOK'
      <3>1. faults' \in 0..MaxFaults
        BY <1>0, <2>13 DEF RequestFails, TypeOK
      <3>2. /\ plan' \in [Requests -> Seq(Keys)]
            /\ pc' \in [Requests -> Places]
            /\ found' \in [Flushes -> SUBSET Keys]
        BY <2>13 DEF RequestFails, TypeOK
      <3>3. UNCHANGED <<connected, cache, scheduler, stage, timing, awaited, warm>>
        BY <2>13 DEF RequestFails
      <3> QED
        BY <3>1, <3>2, <3>3 DEF TypeOK, scheduler, timing
    <2>14. CASE Tick
      <3>1. cache' \in [Keys -> Nat] /\ \A j \in Keys : cache'[j] <= Life(j)
        BY <2>14, LifeType DEF Tick, Less, TypeOK
      <3>2. left' \in [Tasks -> 0..SCHEDULER_INTERVAL]
        BY <1>0, <2>14 DEF Tick, Sleeping, TypeOK
      <3>3. lag' \in [Tasks -> 0..Lag]
        BY <1>0, <2>14 DEF Tick, TypeOK
      <3> QED
        BY <2>14, <3>1, <3>2, <3>3 DEF Tick, TypeOK, scheduler, requests, locals
    <2>15. CASE Crash
      <3>1. faults' \in 0..MaxFaults
        BY <1>0, <2>15 DEF Crash, TypeOK
      <3>2. stage' \in [Tasks -> Stages] /\ pc' \in [Requests -> Places]
        BY <2>15 DEF Crash, TypeOK
      <3>3. plan' \in [Requests -> Seq(Keys)] /\ warm' \in [Keys -> BOOLEAN]
        BY <2>15, EmptyPlans DEF Crash, Cold
      <3>4. /\ left' \in [Tasks -> 0..SCHEDULER_INTERVAL]
            /\ lag' \in [Tasks -> 0..Lag]
        BY <1>0, <2>15 DEF Crash
      <3>5. /\ found' \in [Flushes -> SUBSET Keys]
            /\ awaited' \in [Stops -> Tasks \cup {0}]
        BY <2>15 DEF Crash
      <3>6. cache' \in [Keys -> Nat] /\ \A k \in Keys : cache'[k] <= Life(k)
        BY <2>15 DEF Crash, TypeOK
      <3> QED
        BY <2>15, <3>1, <3>2, <3>3, <3>4, <3>5, <3>6 DEF Crash, TypeOK
    <2>16. CASE UNCHANGED vars
      BY <2>16 DEF vars, TypeOK, scheduler, timing, requests, locals
    <2> QED
      BY <2>1, <2>2, <2>3, <2>4, <2>5, <2>6, <2>7, <2>8, <2>9, <2>10, <2>11,
         <2>12, <2>13, <2>14, <2>15, <2>16
      DEF Next, Scheduler
  <1> QED
    BY <1>1, <1>2, PTL DEF Spec

----------------------------------------------------------------------------
(* What SchedulerIsSingle needs to be inductive: a cancellation only awaits  *)
(* delivery to a task that still lives, so that a new task starts without    *)
(* one, and a round only runs while Redis is there.                          *)
SchedulerInv ==
    /\ SchedulerIsSingle
    /\ \A t \in cancelled : Live(t)
    /\ \A t \in Tasks :
           stage[t] \in {"trending", "config", "ending"} => connected
    /\ scheduler_task # 0 => stage[scheduler_task] # "unborn"

(* A task that passes from one await to the next changes nothing of this.    *)
LEMMA TaskGoesOn ==
    ASSUME TypeOK, SchedulerInv, NEW t \in Tasks, Live(t),
           NEW s \in {"asleep", "trending", "config", "ending"},
           stage' = [stage EXCEPT ![t] = s],
           s # "asleep" => connected,
           UNCHANGED <<connected, scheduler>>
    PROVE  SchedulerInv'
  <1>1. \A u \in Tasks : Live(u)' <=> Live(u)
    BY DEF TypeOK, Live
  <1>2. \A u \in Tasks : Scheduling(u)' <=> Scheduling(u)
    BY <1>1 DEF Scheduling, scheduler
  <1>3. SchedulerIsSingle'
    BY <1>2 DEF SchedulerInv, SchedulerIsSingle, scheduler
  <1>4. \A u \in cancelled' : Live(u)'
    BY <1>1 DEF SchedulerInv, scheduler, TypeOK
  <1>5. \A u \in Tasks :
           stage'[u] \in {"trending", "config", "ending"} => connected'
    BY DEF SchedulerInv, TypeOK
  <1>6. scheduler_task' # 0 => stage'[scheduler_task'] # "unborn"
    BY DEF SchedulerInv, TypeOK, scheduler
  <1> QED
    BY <1>3, <1>4, <1>5, <1>6 DEF SchedulerInv

(* A task that goes on to sleep finds the flag set.                          *)
LEMMA SleepGoesOn ==
    ASSUME TypeOK, SchedulerInv, NEW t \in Tasks, Scheduling(t), Sleep(t),
           UNCHANGED <<connected, scheduler>>
    PROVE  SchedulerInv' /\ stage' = [stage EXCEPT ![t] = "asleep"]
  <1>1. scheduler_running
    BY DEF SchedulerInv, SchedulerIsSingle
  <1>2. stage' = [stage EXCEPT ![t] = "asleep"]
    BY <1>1 DEF Sleep
  <1> QED
    BY <1>2, TaskGoesOn DEF Scheduling

LEMMA SchedulerStep ==
    ASSUME TypeOK, SchedulerInv, [Next]_vars
    PROVE  SchedulerInv'
  <1>0. Tasks \subseteq Nat \ {0}
    BY WarmingAssumption
  <1>1. ASSUME NEW t \in Tasks, Begin(t) \/ EndRound(t) \/ RoundFails(t)
        PROVE  SchedulerInv'
    <2>1. Scheduling(t)
      BY <1>1 DEF Begin, EndRound, RoundFails, Scheduling, Live
    <2>2. Sleep(t) /\ UNCHANGED <<connected, scheduler>>
      BY <1>1 DEF Begin, EndRound, RoundFails
    <2> QED
      BY <2>1, <2>2, SleepGoesOn
  <1>2. ASSUME NEW t \in Tasks, Wake(t)
        PROVE  SchedulerInv'
    <2>1. Scheduling(t) /\ UNCHANGED <<connected, scheduler>>
      BY <1>2 DEF Wake, Scheduling, Live
    <2>2. scheduler_running
      BY <2>1 DEF SchedulerInv, SchedulerIsSingle
    <2>3. CASE Sleep(t)
      BY <2>1, <2>3, SleepGoesOn
    <2>4. CASE connected /\ Advance(t, "asleep", "trending")
      BY <2>1, <2>4, TaskGoesOn DEF Advance, Scheduling
    <2> QED
      BY <1>2, <2>2, <2>3, <2>4 DEF Wake
  <1>3. ASSUME NEW t \in Tasks, StoreTrending(t)
        PROVE  SchedulerInv'
    <2>1. Live(t) /\ connected
      BY <1>3 DEF StoreTrending, Advance, Live, SchedulerInv
    <2> QED
      BY <1>3, <2>1, TaskGoesOn DEF StoreTrending, Advance
  <1>4. ASSUME NEW t \in Tasks, StoreConfig(t)
        PROVE  SchedulerInv'
    <2>1. Live(t) /\ connected
      BY <1>4 DEF StoreConfig, Advance, Live, SchedulerInv
    <2> QED
      BY <1>4, <2>1, TaskGoesOn DEF StoreConfig, Advance
  <1>5. ASSUME NEW t \in Tasks, Cancelled(t)
        PROVE  SchedulerInv'
    <2>1. /\ t \in cancelled
          /\ stage' = [stage EXCEPT ![t] = "done"]
          /\ cancelled' = cancelled \ {t}
          /\ UNCHANGED <<connected, scheduler_running, scheduler_task>>
      BY <1>5 DEF Cancelled
    <2>2. ~Live(t)'
      BY <2>1 DEF Live, TypeOK
    <2>3. \A u \in Tasks : u # t => (Live(u)' <=> Live(u))
      BY <2>1 DEF Live, TypeOK
    <2>4. \A u \in Tasks : Scheduling(u)' <=> Scheduling(u)
      BY <2>1, <2>2, <2>3 DEF Scheduling
    <2>5. SchedulerIsSingle'
      BY <2>1, <2>4 DEF SchedulerInv, SchedulerIsSingle
    <2>6. \A u \in cancelled' : Live(u)'
      BY <2>1, <2>3 DEF SchedulerInv, TypeOK
    <2>7. \A u \in Tasks :
             stage'[u] \in {"trending", "config", "ending"} => connected'
      BY <2>1 DEF SchedulerInv, TypeOK
    <2>8. scheduler_task' # 0 => stage'[scheduler_task'] # "unborn"
      BY <2>1 DEF SchedulerInv, TypeOK
    <2> QED
      BY <2>5, <2>6, <2>7, <2>8 DEF SchedulerInv
  <1>6. ASSUME NEW r \in Starts, Start(r)
        PROVE  SchedulerInv'
    <2>1. CASE UNCHANGED <<scheduler, stage>>
      BY <1>6, <2>1
      DEF Start, SchedulerInv, SchedulerIsSingle, Scheduling, Live, scheduler
    <2>2. CASE ~AlreadyRuns
      <3>1. PICK t \in Tasks :
               /\ stage[t] = "unborn"
               /\ stage' = [stage EXCEPT ![t] = "born"]
               /\ scheduler_task' = t
        BY <1>6, <2>2 DEF Start, AlreadyRuns, scheduler
      <3>2. scheduler_running' /\ UNCHANGED <<cancelled, connected>>
        BY <1>6, <2>2 DEF Start
      <3>3. ~scheduler_running
        <4> SUFFICES ASSUME scheduler_running PROVE FALSE
          OBVIOUS
        <4>1. PICK u \in Tasks : Scheduling(u)
          BY DEF SchedulerInv, SchedulerIsSingle
        <4>2. u = scheduler_task
          BY <4>1 DEF SchedulerInv, SchedulerIsSingle
        <4> QED
          BY <1>0, <2>2, <4>1, <4>2 DEF AlreadyRuns, Scheduling, Live
      <3>4. \A u \in Tasks : ~Scheduling(u)
        BY <3>3 DEF SchedulerInv, SchedulerIsSingle
      <3>5. t \notin cancelled
        BY <3>1 DEF SchedulerInv, Live
      <3>6. \A u \in Tasks : Scheduling(u)' <=> u = t
        BY <3>1, <3>2, <3>4, <3>5 DEF Scheduling, Live, TypeOK
      <3>7. SchedulerIsSingle'
        BY <3>1, <3>2, <3>6 DEF SchedulerIsSingle
      <3>8. \A u \in cancelled' : Live(u)'
        BY <3>1, <3>2, <3>5 DEF SchedulerInv, Live, TypeOK
      <3>9. \A u \in Tasks :
               stage'[u] \in {"trending", "config", "ending"} => connected'
        BY <3>1, <3>2 DEF SchedulerInv, TypeOK
      <3>10. stage'[scheduler_task'] # "unborn"
        BY <3>1 DEF TypeOK
      <3> QED
        BY <3>7, <3>8, <3>9, <3>10 DEF SchedulerInv
    <2> QED
      BY <1>6, <2>1, <2>2 DEF Start
  <1>7. ASSUME NEW r \in Stops, Stop(r)
        PROVE  SchedulerInv'
    <2>1. ~scheduler_running' /\ UNCHANGED <<connected, scheduler_task, stage>>
      BY <1>7 DEF Stop
    <2>2. \A u \in Tasks : ~Scheduling(u)'
      <3> SUFFICES ASSUME NEW u \in Tasks, Scheduling(u)'
                   PROVE  FALSE
        OBVIOUS
      <3>1. Live(u) /\ u \notin cancelled'
        BY <2>1 DEF Scheduling, Live
      <3>2. u \notin cancelled
        BY <1>7, <3>1 DEF Stop
      <3>3. u = scheduler_task
        BY <3>1, <3>2 DEF SchedulerInv, SchedulerIsSingle, Scheduling
      <3> QED
        BY <1>0, <1>7, <3>1, <3>3 DEF Stop, Live
    <2>3. \A u \in cancelled' : Live(u)'
      <3>1. CASE UNCHANGED cancelled
        BY <2>1, <3>1 DEF SchedulerInv, Live
      <3>2. CASE /\ scheduler_task # 0
                 /\ stage[scheduler_task] # "done"
                 /\ cancelled' = cancelled \cup {scheduler_task}
        BY <2>1, <3>2 DEF SchedulerInv, Live
      <3> QED
        BY <1>7, <3>1, <3>2 DEF Stop
    <2> QED
      BY <2>1, <2>2, <2>3 DEF SchedulerInv, SchedulerIsSingle
  <1>8. CASE Crash
    <2>1. \A u \in Tasks : ~Live(u)' /\ stage'[u] \in {"unborn", "done"}
      BY <1>8 DEF Crash, Live, TypeOK
    <2> QED
      BY <1>8, <2>1
      DEF Crash, SchedulerInv, SchedulerIsSingle, Scheduling
  <1>9. CASE UNCHANGED <<connected, scheduler, stage>>
    BY <1>9
    DEF SchedulerInv, SchedulerIsSingle, Scheduling, Live, scheduler
  <1>10. ASSUME NEW r \in Requests,
                \/ r \in Stops /\ Join(r)
                \/ r \in Fills /\ (Lookup(r) \/ Warm(r) \/ StoreNext(r))
                \/ r \in Flushes /\ (Scan(r) \/ Delete(r))
                \/ RequestFails(r)
         PROVE  SchedulerInv'
    BY <1>9, <1>10
    DEF Join, Lookup, Warm, StoreNext, Scan, Delete, RequestFails
  <1>11. CASE Tick \/ UNCHANGED vars
    BY <1>9, <1>11 DEF Tick, vars
  <1> QED
    BY <1>1, <1>2, <1>3, <1>4, <1>5, <1>6, <1>7, <1>8, <1>10, <1>11
    DEF Next, Scheduler, Requests

(* The flag and the tasks always agree, and two schedulers never run at once,*)
(* in whatever order POST /scheduler/start and /scheduler/stop overlap with  *)
(* the cancellation of the old task.                                         *)
THEOREM OneScheduler == Spec => []SchedulerIsSingle
  <1>1. Init => SchedulerInv
    BY WarmingAssumption
    DEF Init, SchedulerInv, SchedulerIsSingle, Scheduling, Live
  <1>2. TypeOK /\ TypeOK' /\ SchedulerInv /\ [Next]_vars => SchedulerInv'
    BY SchedulerStep
  <1>3. SchedulerInv => SchedulerIsSingle
    BY DEF SchedulerInv
  <1> QED
    BY <1>1, <1>2, <1>3, TypeCorrect, PTL DEF Spec

----------------------------------------------------------------------------
(* The time the scheduler may have spent since it stored a key: the lag of   *)
(* this round if it has stored the key in it; else that of the round before, *)
(* the sleep as far as it is over, and the lag of this round.                *)
Kept == {Trending, Config}

Stored(k, t) ==
    \/ stage[t] = "ending"
    \/ k = Trending /\ stage[t] = "config"

Spent(k, t) ==
    lag[t] + IF Stored(k, t) THEN 0 ELSE Lag + (SCHEDULER_INTERVAL - left[t])

(* What WarmStaysWarm needs to be inductive: a warm key still has its life   *)
(* but for the time spent since it was stored.                               *)
WarmInv ==
    \A k \in Kept : warm[k] =>
        /\ scheduler_running
        /\ connected
        /\ scheduler_task \in Tasks
        /\ Scheduling(scheduler_task)
        /\ stage[scheduler_task] # "born"
        /\ cache[k] + Spent(k, scheduler_task) >= Life(k)

LEMMA SpentType ==
    ASSUME TypeOK, NEW k, NEW t \in Tasks
    PROVE  /\ Spent(k, t) \in Nat
           /\ Spent(k, t) <= SCHEDULER_INTERVAL + 2 * Lag
  <1>1. SCHEDULER_INTERVAL \in Nat /\ Lag \in Nat
    BY WarmingAssumption
  <1>2. left[t] \in 0..SCHEDULER_INTERVAL /\ lag[t] \in 0..Lag
    BY DEF TypeOK
  <1> QED
    BY <1>1, <1>2 DEF Spent

LEMMA KeptKeys == Kept \subseteq Keys
  BY KeysOfScheduler DEF Kept

(* Nothing is spent and no key is lost by the steps of requests and of tasks *)
(* that are being cancelled; those that store lengthen the life.             *)
LEMMA OthersStore ==
    ASSUME TypeOK, TypeOK', WarmInv,
           UNCHANGED <<connected, scheduler_running, scheduler_task, timing>>,
           scheduler_task \in Tasks /\ Scheduling(scheduler_task)
               => /\ stage'[scheduler_task] = stage[scheduler_task]
                  /\ scheduler_task \notin cancelled',
           \A k \in Kept : warm'[k] => /\ warm[k]
                                       /\ cache'[k] \in {cache[k], Life(k)}
    PROVE  WarmInv'
  <1> SUFFICES ASSUME NEW k \in Kept, warm'[k]
               PROVE  /\ scheduler_running' /\ connected'
                      /\ scheduler_task' \in Tasks
                      /\ Scheduling(scheduler_task)'
                      /\ stage'[scheduler_task'] # "born"
                      /\ cache'[k] + Spent(k, scheduler_task)' >= Life(k)
    BY DEF WarmInv
  <1>1. /\ scheduler_running /\ connected /\ scheduler_task \in Tasks
        /\ Scheduling(scheduler_task)
        /\ stage[scheduler_task] # "born"
        /\ cache[k] + Spent(k, scheduler_task) >= Life(k)
    BY DEF WarmInv
  <1>2. /\ stage'[scheduler_task] = stage[scheduler_task]
        /\ scheduler_task \notin cancelled'
    BY <1>1
  <1>3. Spent(k, scheduler_task)' = Spent(k, scheduler_task)
    BY <1>2 DEF Spent, Stored, timing
  <1>4. cache'[k] + Spent(k, scheduler_task) >= Life(k)
    <2>1. Spent(k, scheduler_task) \in Nat /\ Life(k) \in Nat
      BY <1>1, SpentType, LifeType, KeptKeys
    <2> QED
      BY <1>1, <2>1
  <1>5. Scheduling(scheduler_task)'
    BY <1>1, <1>2 DEF Scheduling, Live
  <1> QED
    BY <1>1, <1>2, <1>3, <1>4, <1>5

(* A step of the scheduler itself: it stays one, and each key that is warm   *)
(* afterwards has the life it must have.                                     *)
LEMMA SchedulerMoves ==
    ASSUME TypeOK, SchedulerInv, NEW t \in Tasks, Scheduling(t),
           NEW s \in {"asleep", "trending", "config", "ending"},
           stage' = [stage EXCEPT ![t] = s],
           UNCHANGED scheduler,
           \A k \in Kept : warm'[k] => /\ connected'
                                       /\ cache'[k] + Spent(k, t)' >= Life(k)
    PROVE  WarmInv'
  <1>1. scheduler_running /\ t = scheduler_task
    BY DEF SchedulerInv, SchedulerIsSingle
  <1>2. stage'[t] = s
    BY DEF TypeOK
  <1>3. Scheduling(t)'
    BY <1>2 DEF Scheduling, Live, scheduler
  <1>4. UNCHANGED <<scheduler_running, scheduler_task>>
    BY DEF scheduler
  <1> QED
    BY <1>1, <1>2, <1>3, <1>4 DEF WarmInv

(* Before it sleeps, the lag of the round becomes that of the round before.  *)
LEMMA SleepKeepsWarm ==
    ASSUME TypeOK, TypeOK', SchedulerInv, WarmInv, NEW t \in Tasks,
           Scheduling(t), Sleep(t),
           UNCHANGED <<connected, cache, scheduler>>,
           \A k \in Kept : warm'[k] => warm[k] /\ Stored(k, t)
    PROVE  WarmInv'
  <1>1. stage' = [stage EXCEPT ![t] = "asleep"]
        /\ left' = [left EXCEPT ![t] = SCHEDULER_INTERVAL]
        /\ lag' = [lag EXCEPT ![t] = 0]
    BY DEF Sleep, SchedulerInv, SchedulerIsSingle
  <1>2. t = scheduler_task
    BY DEF SchedulerInv, SchedulerIsSingle
  <1>3. ASSUME NEW k \in Kept, warm'[k]
        PROVE  connected' /\ cache'[k] + Spent(k, t)' >= Life(k)
    <2>1. connected /\ cache[k] + Spent(k, t) >= Life(k) /\ Stored(k, t)
      BY <1>2, <1>3 DEF WarmInv
    <2>2. Spent(k, t) = lag[t] + 0
      BY <2>1 DEF Spent
    <2>3. Spent(k, t)' = 0 + (Lag + (SCHEDULER_INTERVAL - SCHEDULER_INTERVAL))
      BY <1>1 DEF Spent, Stored, TypeOK
    <2>4. /\ cache[k] \in Nat /\ lag[t] \in 0..Lag /\ Life(k) \in Nat
          /\ Lag \in Nat /\ SCHEDULER_INTERVAL \in Nat
      BY <1>3, LifeType, KeptKeys, WarmingAssumption DEF TypeOK
    <2> QED
      BY <2>1, <2>2, <2>3, <2>4
  <1> QED
    BY <1>1, <1>3, SchedulerMoves

LEMMA WarmStep ==
    ASSUME TypeOK, TypeOK', SchedulerInv, WarmInv, [Next]_vars
    PROVE  WarmInv'
  <1>0. /\ SCHEDULER_INTERVAL \in Nat /\ Lag \in Nat
        /\ \A k \in Kept : cache[k] \in Nat /\ Life(k) \in Nat
    BY LifeType, KeptKeys, WarmingAssumption DEF TypeOK
  <1>1. ASSUME NEW t \in Tasks, Begin(t) \/ EndRound(t)
        PROVE  WarmInv'
    <2>1. /\ Scheduling(t) /\ Sleep(t)
          /\ UNCHANGED <<connected, cache, scheduler, warm>>
      BY <1>1 DEF Begin, EndRound, Scheduling, Live
    <2>2. t = scheduler_task
      BY <2>1 DEF SchedulerInv, SchedulerIsSingle
    <2>3. \A k \in Kept : warm'[k] => warm[k] /\ Stored(k, t)
      BY <1>1, <2>1, <2>2 DEF Begin, EndRound, Stored, WarmInv
    <2> QED
      BY <2>1, <2>3, SleepKeepsWarm
  <1>2. ASSUME NEW t \in Tasks, RoundFails(t)
        PROVE  WarmInv'
    <2>1. /\ Scheduling(t) /\ Sleep(t)
          /\ UNCHANGED <<connected, cache, scheduler>>
      BY <1>2 DEF RoundFails, Scheduling, Live
    <2>2. \A k \in Kept : warm'[k] => warm[k] /\ Stored(k, t)
      <3>1. ~warm'[Config]
        BY <1>2, KeysOfScheduler DEF RoundFails, Spoil, TypeOK
      <3>2. warm'[Trending] => warm[Trending] /\ stage[t] = "config"
        BY <1>2, KeysOfScheduler, Zenon DEF RoundFails, Spoil, TypeOK
      <3> QED
        BY <3>1, <3>2 DEF Kept, Stored
    <2> QED
      BY <2>1, <2>2, SleepKeepsWarm
  <1>3. ASSUME NEW t \in Tasks, Wake(t)
        PROVE  WarmInv'
    <2>1. /\ Scheduling(t) /\ stage[t] = "asleep"
          /\ UNCHANGED <<connected, cache, scheduler, warm>>
      BY <1>3 DEF Wake, Scheduling, Live
    <2>2. scheduler_running /\ t = scheduler_task
      BY <2>1 DEF SchedulerInv, SchedulerIsSingle
    <2>3. CASE ~connected /\ Sleep(t)
      <3>1. \A k \in Kept : warm'[k] => warm[k] /\ Stored(k, t)
        BY <2>1, <2>3 DEF WarmInv
      <3> QED
        BY <2>1, <2>3, <3>1, SleepKeepsWarm
    <2>4. CASE Advance(t, "asleep", "trending") /\ UNCHANGED timing
      <3>1. ASSUME NEW k \in Kept, warm'[k]
            PROVE  connected' /\ cache'[k] + Spent(k, t)' >= Life(k)
        <4>1. connected /\ cache[k] + Spent(k, t) >= Life(k)
          BY <2>1, <2>2, <3>1 DEF WarmInv
        <4>2. Spent(k, t)' = Spent(k, t)
          BY <2>1, <2>4 DEF Spent, Stored, Advance, timing, TypeOK
        <4> QED
          BY <2>1, <4>1, <4>2
      <3> QED
        BY <2>1, <2>4, <3>1, SchedulerMoves DEF Advance
    <2> QED
      BY <1>3, <2>2, <2>3, <2>4 DEF Wake
  <1>4. ASSUME NEW t \in Tasks, NEW j \in Kept, NEW s \in {"config", "ending"},
               stage' = [stage EXCEPT ![t] = s],
               \/ stage[t] = "trending" /\ s = "config" /\ j = Trending
               \/ stage[t] = "config" /\ s = "ending" /\ j = Config,
               SetEx(j), Warmed(t, j),
               UNCHANGED <<connected, scheduler, timing>>
        PROVE  WarmInv'
    <2>1. cache' = [cache EXCEPT ![j] = Life(j)]
      BY <1>4 DEF SetEx
    <2>2. \A k \in Kept : /\ k = j => cache'[k] = Life(k)
                          /\ k # j => cache'[k] = cache[k]
      BY <2>1, KeptKeys DEF TypeOK
    <2>3. CASE t \in cancelled
      <3>1. \A k \in Kept : warm'[k] => warm[k]
        BY <1>4, <2>3, KeptKeys, Zenon DEF Warmed, TypeOK
      <3>2. Scheduling(scheduler_task) => scheduler_task # t
        BY <2>3 DEF Scheduling
      <3>3. scheduler_task \in Tasks /\ Scheduling(scheduler_task)
               => /\ stage'[scheduler_task] = stage[scheduler_task]
                  /\ scheduler_task \notin cancelled'
        BY <1>4, <3>2 DEF Scheduling, scheduler, TypeOK
      <3> QED
        BY <1>4, <2>2, <3>1, <3>3, OthersStore DEF scheduler
    <2>4. CASE t \notin cancelled
      <3>1. Scheduling(t) /\ connected
        BY <1>4, <2>4 DEF Scheduling, Live, SchedulerInv
      <3>2. t = scheduler_task
        BY <3>1 DEF SchedulerInv, SchedulerIsSingle
      <3>3. ASSUME NEW k \in Kept, warm'[k]
            PROVE  connected' /\ cache'[k] + Spent(k, t)' >= Life(k)
        <4>1. Spent(k, t)' \in Nat
          <5>1. lag' [t] \in 0..Lag /\ left'[t] \in 0..SCHEDULER_INTERVAL
            BY DEF TypeOK
          <5> QED
            BY <1>0, <5>1 DEF Spent
        <4>2. CASE k = j
          BY <1>0, <1>4, <2>2, <3>1, <4>1, <4>2
        <4>3. CASE k # j
          <5>1. warm[k]
            BY <1>4, <3>3, <4>3, KeptKeys, Zenon DEF Warmed, TypeOK
          <5>2. cache[k] + Spent(k, t) >= Life(k)
            BY <3>2, <5>1 DEF WarmInv
          <5>3. Spent(k, t)' = Spent(k, t)
            BY <1>4, <4>3, KeysOfScheduler
            DEF Spent, Stored, Kept, timing, TypeOK
          <5> QED
            BY <1>4, <2>2, <3>1, <4>3, <5>2, <5>3
        <4> QED
          BY <4>2, <4>3
      <3> QED
        BY <1>4, <3>1, <3>3, SchedulerMoves
    <2> QED
      BY <2>3, <2>4
  <1>5. ASSUME NEW t \in Tasks, StoreTrending(t) \/ StoreConfig(t)
        PROVE  WarmInv'
    <2>1. CASE StoreTrending(t)
      BY <1>4, <2>1 DEF StoreTrending, Advance, Kept
    <2>2. CASE StoreConfig(t)
      BY <1>4, <2>2 DEF StoreConfig, Advance, Kept
    <2> QED
      BY <1>5, <2>1, <2>2
  <1>6. ASSUME NEW t \in Tasks, Cancelled(t)
        PROVE  WarmInv'
    <2> SUFFICES ASSUME NEW k \in Kept, warm'[k]
                 PROVE  /\ scheduler_running' /\ connected'
                        /\ scheduler_task' \in Tasks
                        /\ Scheduling(scheduler_task)'
                        /\ stage'[scheduler_task'] # "born"
                        /\ cache'[k] + Spent(k, scheduler_task)' >= Life(k)
      BY DEF WarmInv
    <2>1. /\ scheduler_running /\ connected /\ scheduler_task \in Tasks
          /\ Scheduling(scheduler_task)
          /\ stage[scheduler_task] # "born"
          /\ cache[k] + Spent(k, scheduler_task) >= Life(k)
      BY <1>6 DEF Cancelled, WarmInv
    <2>2. t # scheduler_task
      BY <1>6, <2>1 DEF Cancelled, Scheduling
    <2>3. /\ stage'[scheduler_task] = stage[scheduler_task]
          /\ left'[scheduler_task] = left[scheduler_task]
          /\ lag'[scheduler_task] = lag[scheduler_task]
          /\ cancelled' \subseteq cancelled
          /\ UNCHANGED <<connected, cache, scheduler_running, scheduler_task>>
      BY <1>6, <2>1, <2>2 DEF Cancelled, Forget, TypeOK
    <2>4. Spent(k, scheduler_task)' = Spent(k, scheduler_task)
      BY <2>3 DEF Spent, Stored
    <2> QED
      BY <2>1, <2>3, <2>4 DEF Scheduling, Live
  <1>7. ASSUME NEW r \in Starts, Start(r)
        PROVE  WarmInv'
    <2>1. CASE UNCHANGED <<scheduler, stage>>
      BY <1>7, <2>1, OthersStore DEF Start, scheduler, Scheduling
    <2>2. CASE ~AlreadyRuns
      <3>1. \A k \in Kept : ~warm[k]
        BY <2>2, WarmingAssumption DEF AlreadyRuns, WarmInv, Scheduling, Live
      <3> QED
        BY <1>7, <3>1 DEF Start, WarmInv
    <2> QED
      BY <1>7, <2>1, <2>2 DEF Start
  <1>8. CASE Crash \/ \E r \in Stops : Stop(r)
    <2>1. \A k \in Kept : ~warm'[k]
      BY <1>8, KeptKeys DEF Crash, Stop, Cold
    <2> QED
      BY <2>1 DEF WarmInv
  <1>9. CASE Tick
    <2> SUFFICES ASSUME NEW k \in Kept, warm'[k]
                 PROVE  /\ scheduler_running' /\ connected'
                        /\ scheduler_task' \in Tasks
                        /\ Scheduling(scheduler_task)'
                        /\ stage'[scheduler_task'] # "born"
                        /\ cache'[k] + Spent(k, scheduler_task)' >= Life(k)
      BY DEF WarmInv
    <2> DEFINE t == scheduler_task
    <2>1. /\ UNCHANGED <<connected, scheduler_running, scheduler_task,
                         cancelled, stage, warm>>
          /\ cache'[k] = Less(cache[k])
      BY <1>9, KeptKeys DEF Tick, scheduler
    <2>2. /\ scheduler_running /\ connected /\ t \in Tasks
          /\ Scheduling(t) /\ stage[t] # "born"
          /\ cache[k] + Spent(k, t) >= Life(k)
      BY <2>1 DEF WarmInv
    <2>3. left[t] \in 0..SCHEDULER_INTERVAL /\ lag[t] \in 0..Lag
      BY <2>2 DEF TypeOK
    <2>4. cache[k] \in Nat /\ cache'[k] \in Nat /\ cache'[k] + 1 >= cache[k]
      BY <1>0, <2>1 DEF Less
    <2>5. Spent(k, t)' = Spent(k, t) + 1
      <3>1. CASE Sleeping(t)
        <4>1. left'[t] = left[t] - 1 /\ lag'[t] = lag[t]
          BY <1>9, <2>2, <3>1 DEF Tick
        <4>2. ~Stored(k, t) /\ ~Stored(k, t)'
          BY <2>1, <3>1 DEF Sleeping, Stored
        <4> QED
          BY <1>0, <2>1, <2>3, <4>1, <4>2 DEF Spent
      <3>2. CASE ~Sleeping(t)
        <4>1. left'[t] = left[t] /\ lag'[t] = lag[t] + 1
          BY <1>9, <2>2, <3>2 DEF Tick
        <4>2. Stored(k, t)' <=> Stored(k, t)
          BY <2>1 DEF Stored
        <4> QED
          BY <1>0, <2>1, <2>3, <4>1, <4>2 DEF Spent
      <3> QED
        BY <3>1, <3>2
    <2>6. Spent(k, t) \in Nat
      BY <2>2, SpentType
    <2>7. cache'[k] + Spent(k, t)' >= Life(k)
      BY <1>0, <2>2, <2>4, <2>5, <2>6
    <2> QED
      BY <2>1, <2>2, <2>7 DEF Scheduling, Live
  <1>10. ASSUME NEW r \in Fills, StoreNext(r)
         PROVE  WarmInv'
    <2>1. r \in Requests /\ plan[r] \in Seq(Keys) /\ plan[r] # <<>>
      BY <1>10 DEF StoreNext, TypeOK, Requests
    <2>2. \A k \in Kept : cache'[k] \in {cache[k], Life(k)}
      BY <1>10, <2>1, KeptKeys DEF StoreNext, SetEx, TypeOK
    <2>3. UNCHANGED <<connected, scheduler, stage, timing, warm>>
      BY <1>10 DEF StoreNext
    <2> QED
      BY <2>2, <2>3, OthersStore DEF scheduler, Scheduling
  <1>11. ASSUME NEW r \in Flushes, Delete(r)
         PROVE  WarmInv'
    <2>1. \A k \in Kept : warm'[k] => warm[k] /\ cache'[k] = cache[k]
      BY <1>11, KeptKeys DEF Delete, TypeOK
    <2>2. UNCHANGED <<connected, scheduler, stage, timing>>
      BY <1>11 DEF Delete
    <2> QED
      BY <2>1, <2>2, OthersStore DEF scheduler, Scheduling
  <1>12. CASE UNCHANGED <<connected, cache, scheduler, stage, timing, warm>>
    BY <1>12, OthersStore DEF scheduler, Scheduling
  <1>13. ASSUME NEW r \in Requests,
                \/ r \in Stops /\ Join(r)
                \/ r \in Fills /\ (Lookup(r) \/ Warm(r))
                \/ r \in Flushes /\ Scan(r)
                \/ RequestFails(r)
         PROVE  WarmInv'
    BY <1>12, <1>13 DEF Join, Lookup, Warm, Scan, RequestFails
  <1>14. CASE UNCHANGED vars
    BY <1>12, <1>14 DEF vars
  <1> QED
    BY <1>1, <1>2, <1>3, <1>5, <1>6, <1>7, <1>8, <1>9, <1>10, <1>11, <1>13,
       <1>14
    DEF Next, Scheduler, Requests

(* From its first round on the scheduler keeps both keys in the cache as     *)
(* long as its interval and twice its lag are less than their lives, unless  *)
(* a round fails or a flush deletes them.                                    *)
THEOREM KeysStayWarm == Spec => []WarmStaysWarm
  <1>1. Init => SchedulerInv /\ WarmInv
    <2> SUFFICES ASSUME Init PROVE SchedulerInv /\ WarmInv
      OBVIOUS
    <2>1. SchedulerInv
      BY WarmingAssumption
      DEF Init, SchedulerInv, SchedulerIsSingle, Scheduling, Live
    <2>2. WarmInv
      BY KeptKeys DEF Init, WarmInv, Cold
    <2> QED
      BY <2>1, <2>2
  <1>2. TypeOK /\ TypeOK' /\ SchedulerInv /\ WarmInv /\ [Next]_vars
           => SchedulerInv' /\ WarmInv'
    BY SchedulerStep, WarmStep
  <1>3. TypeOK /\ WarmInv => WarmStaysWarm
    <2> SUFFICES ASSUME TypeOK, WarmInv, NEW k \in Kept, warm[k]
                 PROVE  cache[k] > 0
      BY DEF WarmStaysWarm, Kept
    <2>1. /\ Spent(k, scheduler_task) \in Nat
          /\ Spent(k, scheduler_task) <= SCHEDULER_INTERVAL + 2 * Lag
          /\ cache[k] + Spent(k, scheduler_task) >= Life(k)
      BY SpentType DEF WarmInv
    <2>2. /\ SCHEDULER_INTERVAL \in Nat /\ Lag \in Nat
          /\ TRENDING_TTL \in Nat /\ CONFIG_TTL \in Nat
          /\ SCHEDULER_INTERVAL + 2 * Lag < TRENDING_TTL
          /\ TRENDING_TTL <= CONFIG_TTL
      BY WarmingAssumption
    <2>3. Life(k) \in {TRENDING_TTL, CONFIG_TTL} /\ cache[k] \in Nat
      BY KeptKeys DEF Life, Kept, TypeOK
    <2> QED
      BY <2>1, <2>2, <2>3
  <1> QED
    BY <1>1, <1>2, <1>3, TypeCorrect, PTL DEF Spec
============================================================================
