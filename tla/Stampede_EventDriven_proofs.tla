--------------------- MODULE Stampede_EventDriven_proofs ---------------------
(* Proofs about Stampede, for every number of requests, polls and faults,    *)
(* and about EventDriven, for every number of items, tags, requests and      *)
(* faults. The two have no name in common and nothing to do with each other. *)
EXTENDS Stampede, EventDriven, TLAPS

----------------------------------------------------------------------------
(* Stampede.                                                                 *)

(* A database call counts twice, for itself and for its reason; the counters *)
(* stay natural numbers and keep the sum that DbCallsAccounted is about.     *)
Metrics == [hits : Nat, misses : Nat, unsafeMisses : Nat, dbCalls : Nat,
            acquired : Nat, waited : Nat, timeouts : Nat]
Balanced(m) == m.dbCalls = m.acquired + m.timeouts + m.unsafeMisses

LEMMA CountTwice ==
    ASSUME NEW m \in Metrics, NEW n,
           \/ n = [m EXCEPT !.acquired = @ + 1, !.dbCalls = @ + 1]
           \/ n = [m EXCEPT !.timeouts = @ + 1, !.dbCalls = @ + 1]
           \/ n = [m EXCEPT !.unsafeMisses = @ + 1, !.dbCalls = @ + 1]
    PROVE  n \in Metrics /\ (Balanced(m) => Balanced(n))
  <1>1. CASE n = [m EXCEPT !.acquired = @ + 1, !.dbCalls = @ + 1]
    <2>1. n = [hits |-> m.hits, misses |-> m.misses,
               unsafeMisses |-> m.unsafeMisses, dbCalls |-> m.dbCalls + 1,
               acquired |-> m.acquired + 1, waited |-> m.waited,
               timeouts |-> m.timeouts]
      BY <1>1 DEF Metrics
    <2> QED
      BY <2>1 DEF Metrics, Balanced
  <1>2. CASE n = [m EXCEPT !.timeouts = @ + 1, !.dbCalls = @ + 1]
    <2>1. n = [hits |-> m.hits, misses |-> m.misses,
               unsafeMisses |-> m.unsafeMisses, dbCalls |-> m.dbCalls + 1,
               acquired |-> m.acquired, waited |-> m.waited,
               timeouts |-> m.timeouts + 1]
      BY <1>2 DEF Metrics
    <2> QED
      BY <2>1 DEF Metrics, Balanced
  <1>3. CASE n = [m EXCEPT !.unsafeMisses = @ + 1, !.dbCalls = @ + 1]
    <2>1. n = [hits |-> m.hits, misses |-> m.misses,
               unsafeMisses |-> m.unsafeMisses + 1, dbCalls |-> m.dbCalls + 1,
               acquired |-> m.acquired, waited |-> m.waited,
               timeouts |-> m.timeouts]
      BY <1>3 DEF Metrics
    <2> QED
      BY <2>1 DEF Metrics, Balanced
  <1> QED
    BY <1>1, <1>2, <1>3

(* The type invariant: only a locked request ever owns the lock, and polls   *)
(* stay within the bound.                                                    *)
THEOREM TypeCorrect == Spec => []TypeOK
  <1>1. Init => TypeOK
    <2> SUFFICES ASSUME Init PROVE TypeOK
      OBVIOUS
    <2>1. 0 \in 0 .. MaxFaults /\ 0 \in 0 .. MAX_SPINS
      BY StampedeAssumption
    <2> QED
      BY <2>1 DEF Init, TypeOK, Zero
  <1>2. TypeOK /\ [Next]_vars => TypeOK'
    <2> SUFFICES ASSUME TypeOK, [Next]_vars
                 PROVE  TypeOK'
      OBVIOUS
    <2> USE DEF TypeOK, Goto
    <2> DEFINE Steps == {"new", "acquire", "compute", "write", "release",
                         "spin", "fallback", "done"}
    <2>1. ASSUME NEW r \in SafeRequests, SafeStart(r) PROVE TypeOK'
      <3>1. CASE Hit(r)
        BY <3>1 DEF Hit, Requests
      <3>2. CASE Miss(r)
        BY <3>2 DEF Miss, Requests
      <3> QED
        BY <2>1, <3>1, <3>2 DEF SafeStart
    <2>2. ASSUME NEW r \in SafeRequests, Acquire(r) \/ Wait(r) PROVE TypeOK'
      <3>1. CASE Acquire(r)
        <4>1. metrics' \in Metrics
          BY <3>1, CountTwice DEF Acquire, Metrics
        <4> QED
          BY <3>1, <4>1 DEF Acquire, Requests, Metrics
      <3>2. CASE Wait(r)
        BY <3>2 DEF Wait, Requests
      <3> QED
        BY <2>2, <3>1, <3>2
    <2>3. ASSUME NEW r \in SafeRequests, Compute(r) \/ Write(r) PROVE TypeOK'
      BY <2>3 DEF Compute, Write, Requests
    <2>4. ASSUME NEW r \in SafeRequests, Release(r) PROVE TypeOK'
      BY <2>4 DEF Release, Evict, Requests
    <2>5. ASSUME NEW r \in SafeRequests,
                 SpinHit(r) \/ SpinMiss(r) \/ SpinTimeout(r) \/ Fallback(r)
          PROVE  TypeOK'
      <3>1. CASE SpinHit(r) \/ Fallback(r)
        BY <3>1 DEF SpinHit, Fallback, Requests
      <3>2. CASE SpinMiss(r)
        BY <3>2, StampedeAssumption DEF SpinMiss, Requests
      <3>3. CASE SpinTimeout(r)
        <4>1. spins[r] + 1 \in 0 .. MAX_SPINS
          BY <3>3, StampedeAssumption DEF SpinTimeout, Requests
        <4>2. metrics' \in Metrics
          BY <3>3, CountTwice DEF SpinTimeout, Metrics
        <4> QED
          BY <3>3, <4>1, <4>2 DEF SpinTimeout, Requests, Metrics
      <3> QED
        BY <2>5, <3>1, <3>2, <3>3
    <2>6. ASSUME NEW r \in SafeRequests, Fail(r) PROVE TypeOK'
      <3>1. faults' \in 0 .. MaxFaults
        BY <2>6, StampedeAssumption DEF Fail
      <3>2. CASE FailAcquire(r)
        BY <2>6, <3>1, <3>2 DEF Fail, FailAcquire, Requests
      <3>3. CASE FailRebuild(r)
        <4>1. entry' \in [{"safe", "unsafe"} -> BOOLEAN]
          BY <3>3, Zenon DEF FailRebuild
        <4> QED
          BY <2>6, <3>1, <3>3, <4>1 DEF Fail, FailRebuild, Requests
      <3>4. CASE FailRelease(r) /\ UNCHANGED entry
        BY <2>6, <3>1, <3>4 DEF Fail, FailRelease, Evict, Requests
      <3>5. CASE FailPoll(r)
        BY <2>6, <3>1, <3>5 DEF Fail, FailPoll, Requests
      <3> QED
        BY <2>6, <3>2, <3>3, <3>4, <3>5 DEF Fail
    <2>7. ASSUME NEW r \in UnsafeRequests, Unsafe(r) PROVE TypeOK'
      <3>1. CASE UnsafeHit(r)
        BY <3>1 DEF UnsafeHit, Requests
      <3>2. CASE UnsafeMiss(r)
        <4>1. metrics' \in Metrics
          BY <3>2, CountTwice DEF UnsafeMiss, Metrics
        <4> QED
          BY <3>2, <4>1 DEF UnsafeMiss, Requests, Metrics
      <3>3. CASE UnsafeWrite(r)
        BY <3>3 DEF UnsafeWrite, Requests
      <3> QED
        BY <2>7, <3>1, <3>2, <3>3 DEF Unsafe
    <2>8. ASSUME NEW k \in Keys, Remove(k) PROVE
             /\ entry' \in [{"safe", "unsafe"} -> BOOLEAN]
             /\ lock' \in SafeRequests \cup {None}
             /\ evicted' \subseteq SafeRequests
             /\ disturbed' \in BOOLEAN
      BY <2>8 DEF Remove, RemoveLock, RemoveEntry, Evict, Keys
    <2>9. ASSUME NEW k \in {"safe", "unsafe"}, ExpireEntry(k) PROVE TypeOK'
      BY <2>9 DEF ExpireEntry, RemoveEntry
    <2>10. CASE ExpireLock
      BY <2>10 DEF ExpireLock, RemoveLock, Evict
    <2>11. CASE Clear
      <3>1. ASSUME NEW b \in BOOLEAN, ClearStart(b) PROVE TypeOK'
        BY <3>1 DEF ClearStart, Zero, Keys
      <3>2. ASSUME NEW k \in Keys, ClearKey(k) PROVE TypeOK'
        BY <2>8, <3>2 DEF ClearKey
      <3> QED
        BY <2>11, <3>1, <3>2 DEF Clear
    <2>12. CASE Crash
      <3>1. pc' \in [Requests -> Steps] /\ faults' \in 0 .. MaxFaults
        BY <2>12, StampedeAssumption DEF Crash
      <3> QED
        BY <2>12, <3>1 DEF Crash, Zero
    <2>13. CASE UNCHANGED vars
      BY <2>13 DEF vars
    <2> QED
      BY <2>1, <2>2, <2>3, <2>4, <2>5, <2>6, <2>7, <2>9, <2>10, <2>11, <2>12,
         <2>13 DEF Next, SafeStep
  <1> QED
    BY <1>1, <1>2, PTL DEF Spec

----------------------------------------------------------------------------
(* Who believes to hold the lock and was not evicted is who set the lock     *)
(* key. So the DEL of such a request takes nobody else's lock.               *)
HolderOwns ==
    \A r \in SafeRequests : Holding(r) /\ r \notin evicted => lock = r

LockInv == HolderOwns /\ EvictionNeedsDisturbance

(* A step after which no new request holds and that touches the lock key    *)
(* only where it was absent (a SET NX whose answer was lost).                *)
LEMMA LockKept ==
    ASSUME TypeOK, LockInv,
           \A q \in SafeRequests : Holding(q)' => Holding(q),
           UNCHANGED <<evicted, disturbed>>,
           lock' = lock \/ lock = None
    PROVE  LockInv'
  <1>1. HolderOwns'
    <2> SUFFICES ASSUME NEW q \in SafeRequests, Holding(q)', q \notin evicted
                 PROVE  lock' = q
      BY DEF HolderOwns
    <2>1. lock = q
      BY DEF LockInv, HolderOwns
    <2>2. q # None
      BY StampedeAssumption DEF Requests
    <2> QED
      BY <2>1, <2>2
  <1>2. EvictionNeedsDisturbance'
    BY DEF LockInv, EvictionNeedsDisturbance
  <1> QED
    BY <1>1, <1>2 DEF LockInv

(* The finally block: the lock is its own, or it evicts who has it.          *)
LEMMA LockReleased ==
    ASSUME TypeOK, LockInv, NEW r \in SafeRequests, lock' = None,
           Evict(r), Holding(r), ~Holding(r)',
           \A q \in SafeRequests : Holding(q)' => Holding(q),
           disturbed' = disturbed
    PROVE  LockInv'
  <1>1. HolderOwns'
    <2> SUFFICES ASSUME NEW q \in SafeRequests, Holding(q)', q \notin evicted'
                 PROVE  FALSE
      BY DEF HolderOwns
    <2>1. q \notin evicted /\ q # r
      BY DEF Evict
    <2>2. lock = q
      BY <2>1 DEF LockInv, HolderOwns
    <2> QED
      BY <2>1, <2>2 DEF Evict
  <1>2. EvictionNeedsDisturbance'
    <2> SUFFICES ASSUME ~disturbed
                 PROVE  evicted' = {}
      BY DEF EvictionNeedsDisturbance
    <2>1. evicted = {}
      BY DEF LockInv, EvictionNeedsDisturbance
    <2>2. lock = r
      BY <2>1 DEF LockInv, HolderOwns
    <2> QED
      BY <2>1, <2>2 DEF Evict
  <1> QED
    BY <1>1, <1>2 DEF LockInv

(* Expiry or a clear of the lock key evicts its holder.                      *)
LEMMA LockCleared ==
    ASSUME TypeOK, LockInv, RemoveLock, pc' = pc
    PROVE  LockInv'
  <1>1. HolderOwns'
    <2> SUFFICES ASSUME NEW q \in SafeRequests, Holding(q), q \notin evicted'
                 PROVE  FALSE
      BY DEF HolderOwns, Holding
    <2>1. q \notin evicted /\ q # None
      BY StampedeAssumption DEF RemoveLock, Evict, Requests
    <2>2. lock = q
      BY <2>1 DEF LockInv, HolderOwns
    <2> QED
      BY <2>1, <2>2 DEF RemoveLock, Evict
  <1>2. EvictionNeedsDisturbance'
    BY DEF RemoveLock, EvictionNeedsDisturbance
  <1> QED
    BY <1>1, <1>2 DEF LockInv

LEMMA LockFail ==
    ASSUME TypeOK, LockInv, NEW r \in SafeRequests, Fail(r)
    PROVE  LockInv'
  <1>1. \A q \in SafeRequests : Holding(q)' => Holding(q)
    BY DEF Fail, FailAcquire, FailRebuild, FailRelease, FailPoll, Goto, Holding,
           TypeOK, Requests
  <1>2. disturbed' = disturbed
    BY DEF Fail
  <1>3. CASE FailAcquire(r)
    <2>1. lock' = lock \/ lock = None
      BY <1>3, Zenon DEF FailAcquire
    <2> QED
      BY <1>1, <1>2, <1>3, <2>1, LockKept DEF FailAcquire
  <1>4. CASE FailRebuild(r) \/ FailPoll(r)
    BY <1>1, <1>2, <1>4, LockKept DEF FailRebuild, FailPoll
  <1>5. CASE FailRelease(r)
    <2>1. CASE lock' = None /\ Evict(r)
      <3>1. Holding(r) /\ ~Holding(r)'
        BY <1>5 DEF FailRelease, Goto, Holding, TypeOK, Requests
      <3> QED
        BY <1>1, <1>2, <2>1, <3>1, LockReleased
    <2>2. CASE UNCHANGED <<lock, evicted>>
      BY <1>1, <1>2, <2>2, LockKept
    <2> QED
      BY <1>5, <2>1, <2>2 DEF FailRelease
  <1> QED
    BY <1>3, <1>4, <1>5 DEF Fail

LEMMA LockInvariant == Spec => []LockInv
  <1>1. Init => LockInv
    BY DEF Init, LockInv, HolderOwns, EvictionNeedsDisturbance, Holding, Requests
  <1>2. TypeOK /\ LockInv /\ [Next]_vars => LockInv'
    <2> SUFFICES ASSUME TypeOK, LockInv, [Next]_vars
                 PROVE  LockInv'
      OBVIOUS
    <2> USE DEF Goto, Holding, TypeOK, Requests
    <2>1. ASSUME NEW r \in SafeRequests, Hit(r) \/ Miss(r) \/ Wait(r)
          PROVE  LockInv'
      BY <2>1, LockKept DEF Hit, Miss, Wait
    <2>2. ASSUME NEW r \in SafeRequests, Acquire(r) PROVE LockInv'
      <3>1. HolderOwns'
        <4> SUFFICES ASSUME NEW q \in SafeRequests, Holding(q)', q \notin evicted'
                     PROVE  lock' = q
          BY DEF HolderOwns
        <4>1. CASE q # r
          <5>1. lock = q
            BY <2>2, <4>1 DEF Acquire, LockInv, HolderOwns
          <5> QED
            BY <2>2, <5>1, StampedeAssumption DEF Acquire
        <4> QED
          BY <2>2, <4>1 DEF Acquire
      <3>2. EvictionNeedsDisturbance'
        BY <2>2 DEF Acquire, LockInv, EvictionNeedsDisturbance
      <3> QED
        BY <3>1, <3>2 DEF LockInv
    <2>3. ASSUME NEW r \in SafeRequests, Compute(r) \/ Write(r) PROVE LockInv'
      BY <2>3, LockKept DEF Compute, Write
    <2>4. ASSUME NEW r \in SafeRequests, Release(r) PROVE LockInv'
      BY <2>4, LockReleased DEF Release
    <2>5. ASSUME NEW r \in SafeRequests,
                 SpinHit(r) \/ SpinMiss(r) \/ SpinTimeout(r) \/ Fallback(r)
          PROVE  LockInv'
      BY <2>5, LockKept DEF SpinHit, SpinMiss, SpinTimeout, Fallback
    <2>6. ASSUME NEW r \in SafeRequests, Fail(r) PROVE LockInv'
      BY <2>6, LockFail
    <2>7. ASSUME NEW r \in UnsafeRequests, Unsafe(r) PROVE LockInv'
      <3>1. \A q \in SafeRequests : Holding(q)' => Holding(q)
        BY <2>7, StampedeAssumption DEF Unsafe, UnsafeHit, UnsafeMiss, UnsafeWrite
      <3>2. UNCHANGED <<lock, evicted, disturbed>>
        BY <2>7 DEF Unsafe, UnsafeHit, UnsafeMiss, UnsafeWrite
      <3> QED
        BY <3>1, <3>2, LockKept
    <2>8. ASSUME NEW k \in Keys, Remove(k), pc' = pc PROVE LockInv'
      <3>1. CASE k = "lock"
        BY <2>8, <3>1, LockCleared DEF Remove
      <3>2. CASE k # "lock"
        <4>1. UNCHANGED <<lock, evicted, pc>> /\ disturbed'
          BY <2>8, <3>2 DEF Remove, RemoveEntry
        <4> QED
          BY <4>1 DEF LockInv, HolderOwns, EvictionNeedsDisturbance
      <3> QED
        BY <3>1, <3>2
    <2>9. ASSUME NEW k \in {"safe", "unsafe"}, ExpireEntry(k) PROVE LockInv'
      BY <2>8, <2>9 DEF ExpireEntry, Remove, Keys
    <2>10. CASE ExpireLock
      BY <2>8, <2>10 DEF ExpireLock, Remove, Keys
    <2>11. CASE Clear
      <3>1. ASSUME NEW b \in BOOLEAN, ClearStart(b) PROVE LockInv'
        BY <3>1, LockKept DEF ClearStart
      <3>2. ASSUME NEW k \in Keys, ClearKey(k) PROVE LockInv'
        BY <2>8, <3>2 DEF ClearKey
      <3> QED
        BY <2>11, <3>1, <3>2 DEF Clear
    <2>12. CASE Crash
      <3>1. \A q \in SafeRequests : ~Holding(q)'
        BY <2>12 DEF Crash
      <3>2. UNCHANGED <<lock, evicted, disturbed>>
        BY <2>12 DEF Crash
      <3> QED
        BY <3>1, <3>2, LockKept
    <2>13. CASE UNCHANGED vars
      BY <2>13, LockKept DEF vars
    <2> QED
      BY <2>1, <2>2, <2>3, <2>4, <2>5, <2>6, <2>7, <2>9, <2>10, <2>11, <2>12,
         <2>13 DEF Next, SafeStart, SafeStep
  <1> QED
    BY <1>1, <1>2, TypeCorrect, PTL DEF Spec

(* The lock keeps rebuilds apart for every number of requests as long as no  *)
(* holder has lost its lock, and the finally block's DEL is harmless until a *)
(* key expires or is cleared.                                                *)
THEOREM MutualExclusion == Spec => []LockExcludes
  <1>1. LockInv => LockExcludes
    BY DEF LockInv, HolderOwns, OneRebuilder, LockExcludes
  <1> QED
    BY <1>1, LockInvariant, PTL

(* The db_calls metric is the sum of its three causes at every moment, also  *)
(* after a POST /reset between a request's steps.                            *)
THEOREM DbCallsAddUp == Spec => []DbCallsAccounted
  <1>1. Init => DbCallsAccounted
    BY DEF Init, DbCallsAccounted, Zero
  <1>2. TypeOK /\ DbCallsAccounted /\ [Next]_vars => DbCallsAccounted'
    <2> SUFFICES ASSUME TypeOK, DbCallsAccounted, [Next]_vars
                 PROVE  DbCallsAccounted'
      OBVIOUS
    <2>1. metrics \in Metrics /\ Balanced(metrics)
      BY DEF TypeOK, Metrics, DbCallsAccounted, Balanced
    <2>2. \/ metrics' \in {metrics, Zero}
          \/ metrics' = [metrics EXCEPT !.hits = @ + 1]
          \/ metrics' = [metrics EXCEPT !.misses = @ + 1]
          \/ metrics' = [metrics EXCEPT !.waited = @ + 1]
          \/ metrics' = [metrics EXCEPT !.acquired = @ + 1, !.dbCalls = @ + 1]
          \/ metrics' = [metrics EXCEPT !.timeouts = @ + 1, !.dbCalls = @ + 1]
          \/ metrics' = [metrics EXCEPT !.unsafeMisses = @ + 1, !.dbCalls = @ + 1]
      BY DEF Next, vars, SafeStart, SafeStep, Unsafe, Clear, Hit, Miss, Acquire,
             Wait, Compute, Write, Release, SpinHit, SpinMiss, SpinTimeout,
             Fallback, Fail, UnsafeHit, UnsafeMiss, UnsafeWrite, ExpireEntry,
             ExpireLock, ClearStart, ClearKey, Crash
    <2>3. Balanced(metrics')
      <3>1. CASE metrics' \in {metrics, Zero}
        BY <2>1, <3>1 DEF Zero, Balanced
      <3>2. CASE \/ metrics' = [metrics EXCEPT !.hits = @ + 1]
                 \/ metrics' = [metrics EXCEPT !.misses = @ + 1]
                 \/ metrics' = [metrics EXCEPT !.waited = @ + 1]
        BY <2>1, <3>2 DEF Metrics, Balanced
      <3>3. CASE \/ metrics' = [metrics EXCEPT !.acquired = @ + 1, !.dbCalls = @ + 1]
                 \/ metrics' = [metrics EXCEPT !.timeouts = @ + 1, !.dbCalls = @ + 1]
                 \/ metrics' = [metrics EXCEPT !.unsafeMisses = @ + 1,
                                               !.dbCalls = @ + 1]
        BY <2>1, <3>3, CountTwice
      <3> QED
        BY <2>2, <3>1, <3>2, <3>3
    <2> QED
      BY <2>3 DEF Balanced, DbCallsAccounted
  <1> QED
    BY <1>1, <1>2, TypeCorrect, PTL DEF Spec

----------------------------------------------------------------------------
(* EventDriven.                                                              *)

(* What an append and a Tail leave of the messages, or the tags, in a        *)
(* sequence.                                                                 *)
LEMMA RangeOfAppend ==
    ASSUME NEW S, NEW s \in Seq(S), NEW m \in S
    PROVE  /\ Append(s, m) \in Seq(S)
           /\ Range(s) \subseteq Range(Append(s, m))
           /\ m \in Range(Append(s, m))
  <1> DEFINE t == Append(s, m)
  <1>1. /\ t \in Seq(S) /\ Len(t) = Len(s) + 1
        /\ DOMAIN t = 1 .. Len(t) /\ DOMAIN s = 1 .. Len(s) /\ Len(s) \in Nat
        /\ t[Len(s) + 1] = m
        /\ \A k \in 1 .. Len(s) : t[k] = s[k]
    OBVIOUS
  <1> HIDE DEF t
  <1>2. Range(s) \subseteq Range(t)
    BY <1>1 DEF Range
  <1>3. m \in Range(t)
    BY <1>1 DEF Range
  <1> QED
    BY <1>1, <1>2, <1>3 DEF t

LEMMA RangeOfTail ==
    ASSUME NEW S, NEW s \in Seq(S), s # <<>>
    PROVE  /\ Head(s) \in S /\ Tail(s) \in Seq(S)
           /\ Range(s) \subseteq {Head(s)} \cup Range(Tail(s))
           /\ Head(s) \in Range(s)
  <1> DEFINE t == Tail(s)
  <1>1. /\ t \in Seq(S) /\ Len(t) = Len(s) - 1 /\ Len(s) \in Nat \ {0}
        /\ DOMAIN t = 1 .. Len(t) /\ DOMAIN s = 1 .. Len(s)
        /\ Head(s) = s[1]
        /\ \A k \in 1 .. Len(t) : t[k] = s[k + 1]
    OBVIOUS
  <1>2. Head(s) \in S
    BY <1>1
  <1> HIDE DEF t
  <1>3. ASSUME NEW k \in 1 .. Len(s), k # 1
        PROVE  s[k] \in Range(t)
    <2>1. k - 1 \in 1 .. Len(t) /\ t[k - 1] = s[k]
      BY <1>1, <1>3
    <2> QED
      BY <1>1, <2>1 DEF Range
  <1>4. Range(s) \subseteq {Head(s)} \cup Range(t)
    BY <1>1, <1>3 DEF Range
  <1>5. Head(s) \in Range(s)
    BY <1>1 DEF Range
  <1> QED
    BY <1>1, <1>2, <1>4, <1>5 DEF t

LEMMA RangeOfNothing == Range(<<>>) = {}
  BY DEF Range

----------------------------------------------------------------------------
(* Where requests and the listener are follows from what they are, and what  *)
(* the listener works on is of the kind of its branch.                       *)
EDTypeInv ==
    /\ EDTypeOK
    /\ listener = "key" => handling \in Names
    /\ listener \in {"tag", "entries", "set"} => handling \in Tags
    /\ \A r \in Callers : stage[r] \in {"load", "fill", "tag", "expire"} => r \in Gets
    /\ \A r \in Callers : stage[r] = "publish" => r \in Puts
    /\ \A r \in Callers : stage[r] = "expire" => untagged[r] # <<>>

LEMMA RowsAreNoAbsence == Absent \notin Rows /\ Absent \notin Names /\ Seed \in Rows
  BY EventDrivenAssumption DEF Rows, Names

LEMMA MessagesAreTyped ==
    /\ \A m \in Messages : /\ m.kind \in {"key", "tag"} /\ m.name \in Names
                           /\ m.kind = "tag" => m.name \in Tags
    /\ \A n \in Names : Key(n) \in Messages /\ Key(n).kind = "key" /\ Key(n).name = n
  BY DEF Messages, Names, Key

LEMMA FailureTyped ==
    ASSUME EDTypeOK, failures < MaxFailures, failures' = failures + 1
    PROVE  failures' \in 0 .. MaxFailures
  BY EventDrivenAssumption DEF EDTypeOK

LEMMA ManualTyped ==
    ASSUME EDTypeOK, manual < MaxManual, manual' = manual + 1
    PROVE  manual' \in 0 .. MaxManual
  BY EventDrivenAssumption DEF EDTypeOK

LEMMA ForgetTyped ==
    ASSUME EDTypeOK, NEW items, NEW sets, Forget(items, sets)
    PROVE  /\ cached' \in [Items -> Rows \cup {Absent}]
           /\ ttl' \in [Items -> 0 .. TTL]
           /\ tags' \in [Tags -> SUBSET Items]
           /\ tagTtl' \in [Tags -> 0 .. TTL + SLACK]
  <1>1. 0 \in 0 .. TTL /\ 0 \in 0 .. TTL + SLACK
    BY EventDrivenAssumption
  <1> QED
    BY <1>1 DEF Forget, EDTypeOK

LEMMA DeliverTyped ==
    ASSUME EDTypeOK, NEW m \in Messages, Deliver(m)
    PROVE  channel' \in Seq(Messages)
  BY RangeOfAppend DEF Deliver, EDTypeOK

(* The requests: one that moves on, and where it may then be.                *)
LEMMA AdvanceTyped ==
    ASSUME EDTypeInv, NEW r \in Callers, NEW from,
           NEW to \in {"load", "fill", "tag", "expire", "publish", "done"},
           Advance(r, from, to),
           to \in {"load", "fill", "tag", "expire"} => r \in Gets,
           to = "publish" => r \in Puts
    PROVE  /\ stage' \in [Callers -> {"new", "load", "fill", "tag", "expire", "publish", "done"}]
           /\ \A q \in Callers : stage'[q] \in {"load", "fill", "tag", "expire"} => q \in Gets
           /\ \A q \in Callers : stage'[q] = "publish" => q \in Puts
           /\ stage[r] = from /\ stage'[r] = to
           /\ \A q \in Callers : q # r => stage'[q] = stage[q]
  BY DEF Advance, EDTypeInv, EDTypeOK

LEMMA ReadTyped ==
    ASSUME EDTypeInv, NEW r \in Gets, ReadHit(r) \/ ReadMiss(r)
    PROVE  EDTypeInv'
  <1> USE DEF redis, listening, bounds, history
  <1>1. r \in Callers
    BY DEF Callers
  <1>2. PICK to \in {"load", "done"} : Advance(r, "new", to)
    BY DEF ReadHit, ReadMiss
  <1>3. UNCHANGED <<row, cached, ttl, tags, tagTtl, channel, listener, handling, found,
                    item, val, untagged, wipe, manual, failures, excused, orphaned,
                    lapsed>>
    BY DEF ReadHit, ReadMiss
  <1> QED
    BY <1>1, <1>2, <1>3, AdvanceTyped DEF EDTypeInv, EDTypeOK

LEMMA UpdateTyped ==
    ASSUME EDTypeInv, NEW r \in Puts, Update(r)
    PROVE  EDTypeInv'
  <1> USE DEF redis, listening, bounds, history
  <1>1. r \in Callers /\ r \in Rows
    BY DEF Callers, Rows
  <1>2. row' \in [Items -> Rows]
    BY <1>1 DEF Update, EDTypeInv, EDTypeOK
  <1>3. Advance(r, "new", "publish")
    BY DEF Update
  <1> QED
    BY <1>1, <1>2, <1>3, AdvanceTyped DEF Update, EDTypeInv, EDTypeOK

LEMMA ContinueTyped ==
    ASSUME EDTypeInv, NEW r \in Callers, Continue(r)
    PROVE  EDTypeInv'
  <1> USE DEF redis, listening, bounds, history
  <1>1. /\ item[r] \in Items /\ val[r] \in Rows /\ untagged[r] \in Seq(Tags)
        /\ TagsOf[item[r]] \in Seq(Tags) /\ TTL \in 0 .. TTL
        /\ TTL + SLACK \in 0 .. TTL + SLACK
    BY EventDrivenAssumption DEF EDTypeInv, EDTypeOK
  <1>2. CASE Load(r)
    <2>1. Advance(r, "load", "fill") /\ r \in Gets
      BY <1>2 DEF Load, Advance, EDTypeInv
    <2>2. val' \in [Callers -> Rows]
      BY <1>1, <1>2 DEF Load, EDTypeInv, EDTypeOK
    <2> QED
      BY <1>2, <2>1, <2>2, AdvanceTyped DEF Load, EDTypeInv, EDTypeOK
  <1>3. CASE Fill(r)
    <2>1. Advance(r, "fill", "tag") /\ r \in Gets
      BY <1>3 DEF Fill, Advance, EDTypeInv
    <2>2. /\ cached' \in [Items -> Rows \cup {Absent}] /\ ttl' \in [Items -> 0 .. TTL]
          /\ untagged' \in [Callers -> Seq(Tags)]
          /\ val' \in [Callers -> Rows]
          /\ excused' \in [Items -> BOOLEAN] /\ orphaned' \in [Items -> BOOLEAN]
          /\ lapsed' \in [Items -> BOOLEAN]
      BY <1>1, <1>3, RowsAreNoAbsence DEF Fill, EDTypeInv, EDTypeOK
    <2> QED
      BY <1>3, <2>1, <2>2, AdvanceTyped DEF Fill, EDTypeInv, EDTypeOK
  <1>4. CASE Register(r)
    <2>1. /\ Advance(r, "tag", "expire") /\ r \in Gets
          /\ untagged[r] # <<>> /\ Head(untagged[r]) \in Tags
      BY <1>1, <1>4, RangeOfTail DEF Register, Advance, EDTypeInv
    <2>2. tags' \in [Tags -> SUBSET Items]
      BY <1>1, <1>4, <2>1 DEF Register, EDTypeInv, EDTypeOK
    <2> QED
      BY <1>4, <2>1, <2>2, AdvanceTyped DEF Register, EDTypeInv, EDTypeOK
  <1>5. CASE Prolong(r)
    <2>1. Advance(r, "expire", "tag") /\ r \in Gets /\ untagged[r] # <<>>
      BY <1>5 DEF Prolong, Advance, EDTypeInv
    <2>2. Tail(untagged[r]) \in Seq(Tags)
      BY <1>1, <2>1, RangeOfTail
    <2>3. tagTtl' \in [Tags -> 0 .. TTL + SLACK] /\ untagged' \in [Callers -> Seq(Tags)]
      BY <1>1, <1>5, <2>2 DEF Prolong, EDTypeInv, EDTypeOK
    <2>4. \A q \in Callers : q # r => untagged'[q] = untagged[q]
      BY <1>5 DEF Prolong, EDTypeInv, EDTypeOK
    <2> QED
      BY <1>5, <2>1, <2>3, <2>4, AdvanceTyped DEF Prolong, EDTypeInv, EDTypeOK
  <1>6. CASE Answer(r)
    <2>1. Advance(r, "tag", "done")
      BY <1>6 DEF Answer
    <2> QED
      BY <1>6, <2>1, AdvanceTyped DEF Answer, EDTypeInv, EDTypeOK
  <1>7. CASE Publish(r)
    <2>1. Advance(r, "publish", "done") /\ Key(item[r]) \in Messages /\ EDTypeOK
      BY <1>1, <1>7, MessagesAreTyped DEF Publish, Names, EDTypeInv
    <2>2. channel' \in Seq(Messages)
      BY <1>7, <2>1, DeliverTyped DEF Publish
    <2>3. excused' \in [Items -> BOOLEAN]
      <3> DEFINE lost == excused[item[r]] \/ ~Subscribed
      <3>1. excused' = [excused EXCEPT ![item[r]] = lost] /\ lost \in BOOLEAN
        BY <1>7 DEF Publish
      <3> HIDE DEF lost
      <3> QED
        BY <3>1 DEF EDTypeInv, EDTypeOK
    <2> QED
      BY <1>7, <2>1, <2>2, <2>3, AdvanceTyped DEF Publish, EDTypeInv, EDTypeOK
  <1> QED
    BY <1>2, <1>3, <1>4, <1>5, <1>6, <1>7 DEF Continue

LEMMA RaiseTyped ==
    ASSUME EDTypeInv, NEW r \in Callers, Raise(r)
    PROVE  EDTypeInv'
  <1> USE DEF redis, listening, bounds, history
  <1>1. /\ EDTypeOK /\ Advance(r, stage[r], "done")
        /\ failures < MaxFailures /\ failures' = failures + 1
    BY DEF Raise, Advance, EDTypeInv
  <1> DEFINE unsent == excused[item[r]] \/ stage[r] = "publish"
             unlisted == orphaned[item[r]] \/ stage[r] \in {"tag", "expire"}
  <1>2. /\ excused' = [excused EXCEPT ![item[r]] = unsent] /\ unsent \in BOOLEAN
        /\ orphaned' = [orphaned EXCEPT ![item[r]] = unlisted] /\ unlisted \in BOOLEAN
    BY DEF Raise
  <1> HIDE DEF unsent, unlisted
  <1>3. excused' \in [Items -> BOOLEAN] /\ orphaned' \in [Items -> BOOLEAN]
    BY <1>2 DEF EDTypeInv, EDTypeOK
  <1>4. /\ val' \in [Callers -> Rows] /\ untagged' \in [Callers -> Seq(Tags)]
        /\ \A q \in Callers : q # r => untagged'[q] = untagged[q]
    BY RowsAreNoAbsence DEF Raise, EDTypeInv, EDTypeOK
  <1> QED
    BY <1>1, <1>3, <1>4, AdvanceTyped, FailureTyped DEF Raise, EDTypeInv, EDTypeOK


LEMMA ListenTyped ==
    ASSUME EDTypeInv, Listen
    PROVE  EDTypeInv'
  <1> USE DEF redis, request, bounds, history
  <1>1. CASE Subscribe
    BY <1>1 DEF Subscribe, EDTypeInv, EDTypeOK
  <1>2. CASE Receive
    <2>1. Head(channel) \in Messages /\ Tail(channel) \in Seq(Messages)
      BY <1>2, RangeOfTail DEF Receive, EDTypeInv, EDTypeOK
    <2>2. /\ handling' \in Names /\ listener' \in {"key", "tag"}
          /\ listener' = "tag" => handling' \in Tags
      BY <1>2, <2>1, MessagesAreTyped DEF Receive
    <2> QED
      BY <1>2, <2>1, <2>2 DEF Receive, EDTypeInv, EDTypeOK
  <1>3. CASE DeleteKey
    <2>1. EDTypeOK /\ Forget({handling}, {handling})
      BY <1>3 DEF DeleteKey, EDTypeInv
    <2>2. orphaned' \in [Items -> BOOLEAN]
      BY <1>3, Zenon DEF DeleteKey
    <2> QED
      BY <1>3, <2>1, <2>2, ForgetTyped DEF DeleteKey, EndRound, EDTypeInv, EDTypeOK
  <1>4. CASE ReadTag
    <2>1. tags[handling] \subseteq Items
      BY <1>4 DEF ReadTag, EDTypeInv, EDTypeOK
    <2> QED
      BY <1>4, <2>1 DEF ReadTag, EndRound, EDTypeInv, EDTypeOK
  <1>5. CASE DeleteEntries
    <2>1. EDTypeOK /\ Forget(found, {})
      BY <1>5 DEF DeleteEntries, EDTypeInv
    <2> QED
      BY <1>5, <2>1, ForgetTyped DEF DeleteEntries, EDTypeInv, EDTypeOK
  <1>6. CASE DeleteSet
    <2>1. EDTypeOK /\ Forget({}, {handling})
      BY <1>6 DEF DeleteSet, EDTypeInv
    <2>2. orphaned' \in [Items -> BOOLEAN]
      BY <1>6, Zenon DEF DeleteSet
    <2> QED
      BY <1>6, <2>1, <2>2, ForgetTyped DEF DeleteSet, EndRound, EDTypeInv, EDTypeOK
  <1> QED
    BY <1>1, <1>2, <1>3, <1>4, <1>5, <1>6 DEF Listen

LEMMA ListenerFailsTyped ==
    ASSUME EDTypeInv, ListenerFails
    PROVE  EDTypeInv'
  <1>1. EDTypeOK /\ <<>> \in Seq(Messages)
    BY DEF EDTypeInv
  <1>2. excused' \in [Items -> BOOLEAN]
    BY Zenon DEF ListenerFails
  <1> QED
    BY <1>1, <1>2, FailureTyped DEF ListenerFails, EDTypeInv, EDTypeOK, redis, request

LEMMA AdministratorTyped ==
    ASSUME EDTypeInv, (\E m \in Messages : Invalidate(m)) \/ ResetScan \/ ResetDelete
    PROVE  EDTypeInv'
  <1> USE DEF redis, listening, request, bounds, history
  <1>1. EDTypeOK
    BY DEF EDTypeInv
  <1>2. ASSUME NEW m \in Messages, Invalidate(m) PROVE EDTypeInv'
    BY <1>1, <1>2, DeliverTyped, ManualTyped DEF Invalidate, EDTypeInv, EDTypeOK
  <1>3. CASE ResetScan
    <2>1. wipe' \subseteq Names
      BY <1>3 DEF ResetScan, Names
    <2> QED
      BY <1>1, <1>3, <2>1, ManualTyped DEF ResetScan, EDTypeInv, EDTypeOK
  <1>4. CASE ResetDelete
    <2>1. Forget(wipe \cap Items, wipe \cap Tags)
      BY <1>4 DEF ResetDelete
    <2>2. orphaned' \in [Items -> BOOLEAN]
      BY <1>4, Zenon DEF ResetDelete
    <2> QED
      BY <1>1, <1>4, <2>1, <2>2, ForgetTyped DEF ResetDelete, EDTypeInv, EDTypeOK
  <1> QED
    BY <1>2, <1>3, <1>4

LEMMA TickTyped ==
    ASSUME EDTypeInv, Tick
    PROVE  EDTypeInv'
  <1> USE DEF listening, request, bounds
  <1>1. ttl' \in [Items -> 0 .. TTL] /\ tagTtl' \in [Tags -> 0 .. TTL + SLACK]
    BY EventDrivenAssumption DEF Tick, Less, EDTypeInv, EDTypeOK
  <1>2. cached' \in [Items -> Rows \cup {Absent}] /\ tags' \in [Tags -> SUBSET Items]
    BY DEF Tick, EDTypeInv, EDTypeOK
  <1>3. lapsed' \in [Items -> BOOLEAN]
    BY Zenon DEF Tick
  <1> QED
    BY <1>1, <1>2, <1>3 DEF Tick, EDTypeInv, EDTypeOK

LEMMA RestartTyped ==
    ASSUME EDTypeInv, Restart
    PROVE  EDTypeInv'
  <1>1. EDTypeOK /\ <<>> \in Seq(Messages)
    BY DEF EDTypeInv
  <1>2. orphaned' \in [Items -> BOOLEAN]
    BY Zenon DEF Restart
  <1>3. row' \in [Items -> Rows] /\ excused' \in [Items -> BOOLEAN] /\ wipe' \subseteq Names
    BY DEF Restart, Rows
  <1>4. stage' \in [Callers -> {"new", "done"}]
    BY DEF Restart
  <1>5. val' \in [Callers -> Rows] /\ untagged' \in [Callers -> Seq(Tags)]
    BY RowsAreNoAbsence DEF Restart
  <1> QED
    BY <1>1, <1>2, <1>3, <1>4, <1>5, FailureTyped DEF Restart, EDTypeInv, EDTypeOK, redis

LEMMA EDTypeInit == EDInit => EDTypeInv
  <1> SUFFICES ASSUME EDInit PROVE EDTypeInv
    OBVIOUS
  <1>1. /\ 0 \in 0 .. TTL /\ 0 \in 0 .. TTL + SLACK /\ 0 \in 0 .. MaxManual
        /\ 0 \in 0 .. MaxFailures
    BY EventDrivenAssumption
  <1>2. <<>> \in Seq(Messages) /\ <<>> \in Seq(Tags)
    OBVIOUS
  <1>3. EDTypeOK
    BY <1>1, <1>2 DEF EDInit, EDTypeOK, Rows
  <1> QED
    BY <1>3 DEF EDInit, EDTypeInv

LEMMA EDTypeStep ==
    ASSUME EDTypeInv, [EDNext]_edVars
    PROVE  EDTypeInv'
  <1>1. CASE UNCHANGED edVars
    BY <1>1 DEF edVars, EDTypeInv, EDTypeOK, redis, listening, request, bounds, history
  <1> QED
    BY <1>1, ReadTyped, UpdateTyped, ContinueTyped, RaiseTyped, ListenTyped,
       ListenerFailsTyped, AdministratorTyped, TickTyped, RestartTyped DEF EDNext

LEMMA EDTypeInvariant == EDSpec => []EDTypeInv
  BY EDTypeInit, EDTypeStep, PTL DEF EDSpec

(* The type invariant.                                                       *)
THEOREM EDTypeCorrect == EDSpec => []EDTypeOK
  <1>1. EDTypeInv => EDTypeOK
    BY DEF EDTypeInv
  <1> QED
    BY <1>1, EDTypeInvariant, PTL


----------------------------------------------------------------------------
(* Steps that store nothing, change no row, and lose no message.             *)
LEMMA StaleKept ==
    ASSUME StaleIsPending, row' = row, item' = item,
           \A i \in Items : cached'[i] = cached[i] \/ cached'[i] = Absent,
           \A i \in Items : excused[i] => excused'[i],
           \A q \in Puts : stage[q] = "publish" => stage'[q] = "publish",
           \A i \in Items : Undelivered(i) => Undelivered(i)'
    PROVE  StaleIsPending'
  <1>1. \A i \in Items : Unpublished(i) => Unpublished(i)'
    BY DEF Unpublished
  <1>2. \A i \in Items : Coherent(i) => Coherent(i)'
    BY DEF Coherent
  <1> QED
    BY <1>1, <1>2 DEF StaleIsPending

(* Nothing leaves the channel, and the listener stays where it is, or goes   *)
(* on from where it holds no key.                                            *)
LEMMA UndeliveredKept ==
    ASSUME Range(channel) \subseteq Range(channel)',
           listener = "key" => listener' = "key" /\ handling' = handling
    PROVE  \A i \in Items : Undelivered(i) => Undelivered(i)'
  BY DEF Undelivered

LEMMA DeliverKeeps ==
    ASSUME EDTypeInv, NEW m \in Messages, Deliver(m)
    PROVE  /\ Range(channel) \subseteq Range(channel)'
           /\ Subscribed => m \in Range(channel)'
  <1>1. channel \in Seq(Messages)
    BY DEF EDTypeInv, EDTypeOK
  <1> QED
    BY <1>1, RangeOfAppend DEF Deliver

LEMMA StaleCaller ==
    ASSUME EDTypeInv, StaleIsPending, NEW r \in Callers, Continue(r) \/ Raise(r)
    PROVE  StaleIsPending'
  <1> USE DEF redis, listening, bounds, history
  <1>1. item[r] \in Items
    BY DEF EDTypeInv, EDTypeOK
  <1>2. CASE Load(r) \/ Answer(r)
    <2>1. /\ UNCHANGED <<row, item, cached, excused, channel, listener, handling>>
          /\ \A q \in Puts : stage[q] = "publish" => stage'[q] = "publish"
      BY <1>2 DEF Load, Answer, Advance, EDTypeInv, EDTypeOK, Callers
    <2> QED
      BY <2>1, UndeliveredKept, StaleKept
  <1>3. CASE Register(r) \/ Prolong(r)
    <2>1. /\ UNCHANGED <<row, item, cached, excused, channel, listener, handling>>
          /\ \A q \in Puts : stage[q] = "publish" => stage'[q] = "publish"
      BY <1>3 DEF Register, Prolong, Advance, EDTypeInv, EDTypeOK, Callers
    <2> QED
      BY <2>1, UndeliveredKept, StaleKept
  <1>4. CASE Fill(r)
    <2>1. /\ UNCHANGED <<row, item, channel, listener, handling>>
          /\ \A q \in Puts : stage[q] = "publish" => stage'[q] = "publish"
      BY <1>4 DEF Fill, Advance, EDTypeInv, EDTypeOK, Callers
    <2>2. /\ cached'[item[r]] = val[r]
          /\ excused'[item[r]] = (val[r] # row[item[r]])
          /\ \A i \in Items : i # item[r] =>
                 cached'[i] = cached[i] /\ excused'[i] = excused[i]
      BY <1>1, <1>4 DEF Fill, EDTypeInv, EDTypeOK
    <2>3. Coherent(item[r])' \/ excused'[item'[r]]
      BY <2>1, <2>2 DEF Coherent
    <2>4. \A i \in Items : Undelivered(i) => Undelivered(i)'
      BY <2>1, UndeliveredKept
    <2>5. \A i \in Items : Unpublished(i) => Unpublished(i)'
      BY <2>1 DEF Unpublished
    <2>6. \A i \in Items : i # item[r] /\ Coherent(i) => Coherent(i)'
      BY <2>1, <2>2 DEF Coherent
    <2> QED
      BY <2>1, <2>2, <2>3, <2>4, <2>5, <2>6 DEF StaleIsPending
  <1>5. CASE Publish(r)
    <2>1. /\ UNCHANGED <<row, item, cached, listener, handling>>
          /\ \A q \in Callers : q # r => stage'[q] = stage[q]
          /\ Deliver(Key(item[r])) /\ Key(item[r]) \in Messages
      BY <1>1, <1>5, MessagesAreTyped DEF Publish, Advance, EDTypeInv, EDTypeOK, Names
    <2>2. /\ Range(channel) \subseteq Range(channel)'
          /\ Subscribed => Key(item[r]) \in Range(channel)'
      BY <2>1, DeliverKeeps
    <2>3. /\ excused'[item[r]] = (excused[item[r]] \/ ~Subscribed)
          /\ \A i \in Items : i # item[r] => excused'[i] = excused[i]
      BY <1>1, <1>5 DEF Publish, EDTypeInv, EDTypeOK
    <2>4. \A i \in Items : Undelivered(i) => Undelivered(i)'
      BY <2>1, <2>2, UndeliveredKept
    <2>5. \A i \in Items : i # item[r] /\ Unpublished(i) => Unpublished(i)'
      BY <2>1 DEF Unpublished, Callers
    <2>6. Undelivered(item[r])' \/ excused'[item'[r]]
      BY <2>1, <2>2, <2>3 DEF Undelivered
    <2>7. \A i \in Items : Coherent(i) => Coherent(i)'
      BY <2>1 DEF Coherent
    <2> QED
      BY <2>1, <2>3, <2>4, <2>5, <2>6, <2>7 DEF StaleIsPending
  <1>6. CASE Raise(r)
    <2>1. /\ UNCHANGED <<row, item, cached, channel, listener, handling>>
          /\ \A q \in Callers : q # r => stage'[q] = stage[q]
      BY <1>6 DEF Raise, EDTypeInv, EDTypeOK
    <2>2. /\ excused'[item[r]] = (excused[item[r]] \/ stage[r] = "publish")
          /\ \A i \in Items : i # item[r] => excused'[i] = excused[i]
      BY <1>1, <1>6 DEF Raise, EDTypeInv, EDTypeOK
    <2>3. \A i \in Items : Undelivered(i) => Undelivered(i)'
      BY <2>1, UndeliveredKept
    <2>4. ASSUME NEW i \in Items, Unpublished(i)
          PROVE  Unpublished(i)' \/ excused'[i]
      BY <2>1, <2>2, <2>4 DEF Unpublished, Callers
    <2>5. \A i \in Items : Coherent(i) => Coherent(i)'
      BY <2>1 DEF Coherent
    <2>6. \A i \in Items : excused[i] => excused'[i]
      BY <2>2
    <2> QED
      BY <2>3, <2>4, <2>5, <2>6 DEF StaleIsPending
  <1> QED
    BY <1>2, <1>3, <1>4, <1>5, <1>6 DEF Continue

LEMMA StaleListen ==
    ASSUME EDTypeInv, StaleIsPending, Listen
    PROVE  StaleIsPending'
  <1> USE DEF redis, request, bounds, history
  <1>1. CASE Subscribe \/ ReadTag \/ DeleteEntries \/ DeleteSet
    <2>1. /\ UNCHANGED <<row, item, stage, excused, channel>>
          /\ \A i \in Items : cached'[i] = cached[i] \/ cached'[i] = Absent
          /\ listener # "key"
      BY <1>1 DEF Subscribe, ReadTag, DeleteEntries, DeleteSet, Forget
    <2> QED
      BY <2>1, UndeliveredKept, StaleKept
  <1>2. CASE Receive
    <2>1. /\ UNCHANGED <<row, item, stage, excused, cached>>
          /\ handling' = Head(channel).name /\ listener' = Head(channel).kind
          /\ channel' = Tail(channel)
          /\ listener # "key"
      BY <1>2 DEF Receive
    <2>2. Range(channel) \subseteq {Head(channel)} \cup Range(Tail(channel))
      BY <1>2, RangeOfTail DEF Receive, EDTypeInv, EDTypeOK
    <2>3. ASSUME NEW i \in Items, Undelivered(i) PROVE Undelivered(i)'
      <3>1. Key(i) \in Range(channel)
        BY <2>1, <2>3 DEF Undelivered
      <3>2. Key(i).kind = "key" /\ Key(i).name = i
        BY DEF Key
      <3> QED
        BY <2>1, <2>2, <3>1, <3>2 DEF Undelivered
    <2> QED
      BY <2>1, <2>3, StaleKept
  <1>3. CASE DeleteKey
    <2>1. /\ UNCHANGED <<row, item, stage, excused, channel>>
          /\ \A i \in Items : i # handling => cached'[i] = cached[i]
          /\ handling \in Items => cached'[handling] = Absent
      BY <1>3 DEF DeleteKey, Forget
    <2>2. ASSUME NEW i \in Items, i # handling, Undelivered(i) PROVE Undelivered(i)'
      BY <2>1, <2>2 DEF Undelivered
    <2>3. /\ \A i \in Items : i # handling /\ Coherent(i) => Coherent(i)'
          /\ \A i \in Items : i = handling => Coherent(i)'
      BY <2>1 DEF Coherent
    <2>4. \A i \in Items : Unpublished(i) => Unpublished(i)'
      BY <2>1 DEF Unpublished
    <2> QED
      BY <2>1, <2>2, <2>3, <2>4 DEF StaleIsPending
  <1> QED
    BY <1>1, <1>2, <1>3 DEF Listen

LEMMA StaleStep ==
    ASSUME EDTypeInv, StaleIsPending, [EDNext]_edVars
    PROVE  StaleIsPending'
  <1> USE DEF redis, listening, bounds, history
  <1>1. ASSUME NEW r \in Gets, ReadHit(r) \/ ReadMiss(r) PROVE StaleIsPending'
    <2>1. /\ UNCHANGED <<row, item, cached, excused, channel, listener, handling>>
          /\ \A q \in Puts : stage[q] = "publish" => stage'[q] = "publish"
      BY <1>1 DEF ReadHit, ReadMiss, Advance, EDTypeInv, EDTypeOK, Callers
    <2> QED
      BY <2>1, UndeliveredKept, StaleKept
  <1>2. ASSUME NEW r \in Puts, Update(r) PROVE StaleIsPending'
    <2>1. /\ item[r] \in Items /\ stage'[r] = "publish"
          /\ \A q \in Puts : stage[q] = "publish" => stage'[q] = "publish"
          /\ \A i \in Items : i # item[r] => row'[i] = row[i]
          /\ UNCHANGED <<item, cached, excused, channel, listener, handling>>
      BY <1>2 DEF Update, Advance, EDTypeInv, EDTypeOK, Callers
    <2>2. Unpublished(item[r])'
      BY <2>1 DEF Unpublished
    <2>3. \A i \in Items : Unpublished(i) => Unpublished(i)'
      BY <2>1 DEF Unpublished
    <2>4. \A i \in Items : Undelivered(i) => Undelivered(i)'
      BY <2>1, UndeliveredKept
    <2>5. \A i \in Items : i # item[r] /\ Coherent(i) => Coherent(i)'
      BY <2>1 DEF Coherent
    <2> QED
      BY <2>1, <2>2, <2>3, <2>4, <2>5 DEF StaleIsPending
  <1>3. CASE ListenerFails
    <2>1. /\ UNCHANGED <<row, item, cached, stage>>
          /\ \A i \in Items : excused[i] \/ Undelivered(i) => excused'[i]
      BY <1>3 DEF ListenerFails, request
    <2>2. /\ \A i \in Items : Coherent(i) => Coherent(i)'
          /\ \A i \in Items : Unpublished(i) => Unpublished(i)'
      BY <2>1 DEF Coherent, Unpublished
    <2> QED
      BY <2>1, <2>2 DEF StaleIsPending
  <1>4. ASSUME NEW m \in Messages, Invalidate(m) PROVE StaleIsPending'
    <2>1. UNCHANGED <<row, item, cached, excused, stage, listener, handling>> /\ Deliver(m)
      BY <1>4 DEF Invalidate, request
    <2>2. Range(channel) \subseteq Range(channel)'
      BY <2>1, DeliverKeeps
    <2> QED
      BY <2>1, <2>2, UndeliveredKept, StaleKept
  <1>5. CASE ResetScan \/ ResetDelete \/ Tick
    <2>1. /\ UNCHANGED <<row, item, excused, stage, channel, listener, handling>>
          /\ \A i \in Items : cached'[i] = cached[i] \/ cached'[i] = Absent
      BY <1>5 DEF ResetScan, ResetDelete, Tick, Forget, request
    <2> QED
      BY <2>1, UndeliveredKept, StaleKept
  <1>6. CASE Restart
    <2>1. \A i \in Items : excused'[i]
      BY <1>6 DEF Restart
    <2> QED
      BY <2>1 DEF StaleIsPending
  <1>7. CASE UNCHANGED edVars
    BY <1>7 DEF edVars, request, StaleIsPending, Coherent, Unpublished, Undelivered
  <1> QED
    BY <1>1, <1>2, <1>3, <1>4, <1>5, <1>6, <1>7, StaleCaller, StaleListen DEF EDNext

(* A stale entry is about to be invalidated, was stored outdated, or its     *)
(* message was lost: for any number of requests, messages and failures.      *)
THEOREM StaleCorrect == EDSpec => []StaleIsPending
  <1>1. EDInit => StaleIsPending
    BY DEF EDInit, StaleIsPending, Coherent
  <1>2. EDTypeInv /\ StaleIsPending /\ [EDNext]_edVars => StaleIsPending'
    BY StaleStep
  <1> QED
    BY <1>1, <1>2, EDTypeInvariant, PTL DEF EDSpec


----------------------------------------------------------------------------
(* A set that holds an entry and outlives it, or has no expiry.              *)
Held(i, t) == i \in tags[t] /\ (tagTtl[t] = 0 \/ tagTtl[t] >= ttl[i])

(* The tags that a GET has yet to SADD to, and the one that it has yet to    *)
(* EXPIRE, if the item is still in its set.                                  *)
Owed(r) ==
    Range(IF stage[r] = "expire" THEN Tail(untagged[r]) ELSE untagged[r])
Midway(i, r, t) ==
    stage[r] = "expire" /\ t = Head(untagged[r]) /\ i \in tags[t]

(* The GET that registers an entry has the tags in hand that do not hold it. *)
Leads(i, r) ==
    /\ item[r] = i /\ stage[r] \in {"tag", "expire"}
    /\ \A t \in Range(TagsOf[i]) : Held(i, t) \/ t \in Owed(r) \/ Midway(i, r, t)

(* TagsReachEntries as it is kept: of the GETs that register the item, one,  *)
(* the last that stored it, has all the tags that are missing. What is       *)
(* missing for the others, a deletion between their two stores took, or the  *)
(* end of a set between their SADD and their EXPIRE.                         *)
Strayed(i) == orphaned[i] \/ lapsed[i]
Reached(i) ==
    \/ Strayed(i)
    \/ \A t \in Range(TagsOf[i]) : Held(i, t)
    \/ \E r \in Gets : Leads(i, r)

TagsHold == \A i \in Items : cached[i] # Absent => Reached(i)

LEMMA TagsOfItem ==
    ASSUME NEW i \in Items
    PROVE  TagsOf[i] \in Seq(Tags) /\ Range(TagsOf[i]) \subseteq Tags
  BY EventDrivenAssumption DEF Range

(* Steps that store no entry and leave the sets of a living one alone, or    *)
(* record that they do not.                                                  *)
LEMMA TagsKept ==
    ASSUME TagsHold, item' = item,
           \A i \in Items : cached'[i] # Absent =>
               /\ cached[i] # Absent
               /\ Strayed(i) => Strayed(i)'
               /\ Strayed(i)' \/ \A t \in Tags : Held(i, t) => Held(i, t)'
               /\ \A q \in Gets : item[q] = i /\ stage[q] \in {"tag", "expire"} =>
                      \/ Strayed(i)'
                      \/ /\ stage'[q] = stage[q] /\ untagged'[q] = untagged[q]
                         /\ \A t \in Tags : Midway(i, q, t) => Midway(i, q, t)'
    PROVE  TagsHold'
  <1> SUFFICES ASSUME NEW i \in Items, cached'[i] # Absent, ~Strayed(i)'
               PROVE  Reached(i)'
    BY DEF TagsHold, Reached
  <1>1. Reached(i) /\ ~Strayed(i) /\ \A t \in Tags : Held(i, t) => Held(i, t)'
    BY DEF TagsHold
  <1>2. CASE \A t \in Range(TagsOf[i]) : Held(i, t)
    BY <1>1, <1>2, TagsOfItem DEF Reached
  <1>3. ASSUME NEW q \in Gets, Leads(i, q) PROVE Leads(i, q)'
    <2>1. /\ item[q] = i /\ stage[q] \in {"tag", "expire"}
          /\ \A t \in Range(TagsOf[i]) : Held(i, t) \/ t \in Owed(q) \/ Midway(i, q, t)
      BY <1>3 DEF Leads
    <2>2. /\ stage'[q] = stage[q] /\ untagged'[q] = untagged[q]
          /\ \A t \in Tags : Midway(i, q, t) => Midway(i, q, t)'
      BY <2>1
    <2>3. Owed(q)' = Owed(q)
      BY <2>2 DEF Owed, Range
    <2> QED
      BY <1>1, <2>1, <2>2, <2>3, TagsOfItem DEF Leads
  <1> QED
    BY <1>1, <1>2, <1>3 DEF Reached

(* Steps that leave Redis alone, and the requests that register an entry.    *)
LEMMA TagsUntouched ==
    ASSUME TagsHold, UNCHANGED <<item, cached, ttl, tags, tagTtl>>,
           \A i \in Items : Strayed(i) => Strayed(i)',
           \A q \in Gets : stage[q] \in {"tag", "expire"} =>
               \/ Strayed(item[q])'
               \/ stage'[q] = stage[q] /\ untagged'[q] = untagged[q]
    PROVE  TagsHold'
  <1>1. \A i \in Items, t \in Tags : Held(i, t) => Held(i, t)'
    BY DEF Held
  <1>2. ASSUME NEW i \in Items, NEW q \in Gets, NEW t \in Tags,
               stage'[q] = stage[q], untagged'[q] = untagged[q], Midway(i, q, t)
        PROVE  Midway(i, q, t)'
    BY <1>2 DEF Midway
  <1> QED
    BY <1>1, <1>2, TagsKept DEF Strayed

(* The steps that forget keys and sets.                                      *)
LEMMA TagsForgotten ==
    ASSUME TagsHold, NEW items, NEW sets, Forget(items, sets),
           UNCHANGED <<item, untagged, stage, lapsed>>,
           \A q \in Gets : stage[q] = "expire" => Head(untagged[q]) \in Tags,
           \A i \in Items : orphaned[i] \/ LosesTag(i, Tags \cap sets) => orphaned'[i]
    PROVE  TagsHold'
  <1>1. ASSUME NEW i \in Items, cached'[i] # Absent
        PROVE  /\ cached[i] # Absent
               /\ Strayed(i) => Strayed(i)'
               /\ Strayed(i)' \/ \A t \in Tags : i \in tags[t] => t \notin sets
    <2>1. cached[i] # Absent
      BY <1>1 DEF Forget
    <2>2. Strayed(i)' \/ \A t \in Tags : i \in tags[t] => t \notin sets
      BY <2>1 DEF LosesTag, Strayed
    <2> QED
      BY <2>1, <2>2 DEF Strayed
  <1>2. ASSUME NEW i \in Items, cached'[i] # Absent, NEW t \in Tags, t \notin sets, Held(i, t)
        PROVE  Held(i, t)'
    <2>1. ttl'[i] = ttl[i] /\ tags'[t] = tags[t] /\ tagTtl'[t] = tagTtl[t]
      BY <1>2 DEF Forget
    <2> QED
      BY <1>2, <2>1 DEF Held
  <1>3. ASSUME NEW i \in Items, NEW q \in Gets, NEW t \in Tags, t \notin sets, Midway(i, q, t)
        PROVE  Midway(i, q, t)'
    <2>1. tags'[t] = tags[t]
      BY <1>3 DEF Forget
    <2> QED
      BY <1>3, <2>1 DEF Midway
  <1> QED
    BY <1>1, <1>2, <1>3, TagsKept DEF Held, Midway

LEMMA TagsCaller ==
    ASSUME EDTypeInv, TagsHold, NEW r \in Callers, Continue(r) \/ Raise(r)
    PROVE  TagsHold'
  <1> USE DEF redis, listening, bounds, history
  <1>1. item[r] \in Items
    BY DEF EDTypeInv, EDTypeOK
  <1>2. CASE Load(r) \/ Publish(r)
    <2>1. /\ UNCHANGED <<item, untagged, cached, orphaned, lapsed, tags, tagTtl, ttl>>
          /\ \A q \in Gets : stage[q] \in {"tag", "expire"} => stage'[q] = stage[q]
      BY <1>2 DEF Load, Publish, Advance, EDTypeInv, EDTypeOK, Callers
    <2> QED
      BY <2>1, TagsUntouched DEF Strayed
  <1>3. CASE Fill(r)
    <2>1. /\ r \in Gets /\ stage'[r] = "tag" /\ stage[r] = "fill"
          /\ \A q \in Callers : q # r => stage'[q] = stage[q]
      BY <1>3 DEF Fill, Advance, EDTypeInv, EDTypeOK
    <2>2. /\ UNCHANGED <<item, tags, tagTtl>>
          /\ untagged'[r] = TagsOf[item[r]]
          /\ \A q \in Callers : q # r => untagged'[q] = untagged[q]
          /\ \A i \in Items : i # item[r] =>
                 /\ cached'[i] = cached[i] /\ ttl'[i] = ttl[i]
                 /\ orphaned'[i] = orphaned[i] /\ lapsed'[i] = lapsed[i]
      BY <1>1, <1>3 DEF Fill, EDTypeInv, EDTypeOK
    <2>3. ASSUME NEW i \in Items, i = item[r] PROVE Reached(i)'
      BY <2>1, <2>2, <2>3 DEF Reached, Leads, Owed, Range
    <2>4. ASSUME NEW i \in Items, i # item[r], cached'[i] # Absent PROVE Reached(i)'
      <3>1. Reached(i)
        BY <2>2, <2>4 DEF TagsHold
      <3>2. \A t : Held(i, t) => Held(i, t)'
        BY <2>2, <2>4 DEF Held
      <3>3. ASSUME NEW q \in Gets, Leads(i, q) PROVE Leads(i, q)'
        <4>1. q # r /\ q \in Callers
          BY <2>4, <3>3 DEF Leads, Callers
        <4>2. stage'[q] = stage[q] /\ untagged'[q] = untagged[q] /\ item'[q] = item[q]
          BY <2>1, <2>2, <4>1
        <4>3. Owed(q)' = Owed(q) /\ \A t : Midway(i, q, t) => Midway(i, q, t)'
          BY <2>2, <4>2 DEF Owed, Midway, Range
        <4> QED
          BY <2>2, <3>2, <3>3, <4>2, <4>3 DEF Leads
      <3> QED
        BY <2>2, <2>4, <3>1, <3>2, <3>3 DEF Reached, Strayed
    <2> QED
      BY <2>3, <2>4 DEF TagsHold
  <1>4. CASE Register(r)
    <2> DEFINE h == Head(untagged[r])
    <2>1. /\ h \in Tags /\ Range(untagged[r]) \subseteq {h} \cup Range(Tail(untagged[r]))
      BY <1>4, RangeOfTail DEF Register, EDTypeInv, EDTypeOK
    <2>2. /\ UNCHANGED <<item, cached, ttl, tagTtl, untagged, orphaned, lapsed>>
          /\ stage[r] = "tag" /\ stage'[r] = "expire"
          /\ \A q \in Callers : q # r => stage'[q] = stage[q]
          /\ tags'[h] = tags[h] \cup {item[r]}
          /\ \A t \in Tags : t # h => tags'[t] = tags[t]
      BY <1>4, <2>1 DEF Register, Advance, EDTypeInv, EDTypeOK
    <2>3. h = Head(untagged'[r])
      BY <2>2
    <2> HIDE DEF h
    <2>4. ASSUME NEW i \in Items, NEW t \in Tags, Held(i, t) PROVE Held(i, t)'
      BY <2>2, <2>4 DEF Held
    <2>5. ASSUME NEW i \in Items, NEW q \in Gets, Leads(i, q) PROVE Leads(i, q)'
      <3>1. CASE q = r
        <4>1. \A t \in Range(TagsOf[i]) :
                  Held(i, t)' \/ t \in Range(Tail(untagged[r])) \/ t = h
          BY <2>1, <2>2, <2>4, <2>5, <3>1, TagsOfItem DEF Leads, Owed, Midway
        <4>2. Owed(q)' = Range(Tail(untagged[r]))
          BY <2>2, <3>1 DEF Owed, Range
        <4>3. \A t : t = h => Midway(i, q, t)'
          BY <2>2, <2>3, <2>5, <3>1 DEF Midway, Leads
        <4> QED
          BY <2>2, <2>5, <3>1, <4>1, <4>2, <4>3 DEF Leads
      <3>2. CASE q # r
        <4>1. stage'[q] = stage[q] /\ untagged'[q] = untagged[q]
          BY <2>2, <3>2 DEF Callers
        <4>2. Owed(q)' = Owed(q) /\ \A t \in Tags : Midway(i, q, t) => Midway(i, q, t)'
          BY <2>2, <4>1 DEF Owed, Midway, Range
        <4> QED
          BY <2>2, <2>4, <2>5, <4>1, <4>2, TagsOfItem DEF Leads
      <3> QED
        BY <3>1, <3>2
    <2> QED
      BY <2>2, <2>4, <2>5, TagsOfItem DEF TagsHold, Reached, Strayed
  <1>5. CASE Prolong(r)
    <2> DEFINE h == Head(untagged[r])
    <2>1. /\ untagged[r] # <<>> /\ h \in Tags
      BY <1>5, RangeOfTail DEF Prolong, Advance, EDTypeInv, EDTypeOK
    <2>2. /\ UNCHANGED <<item, cached, ttl, tags, orphaned, lapsed>>
          /\ stage[r] = "expire" /\ stage'[r] = "tag"
          /\ \A q \in Callers : q # r => stage'[q] = stage[q]
          /\ untagged'[r] = Tail(untagged[r])
          /\ \A q \in Callers : q # r => untagged'[q] = untagged[q]
          /\ tags[h] # {} => tagTtl'[h] = TTL + SLACK
          /\ tags[h] = {} => tagTtl'[h] = tagTtl[h]
          /\ \A t \in Tags : t # h => tagTtl'[t] = tagTtl[t]
      BY <1>5, <2>1 DEF Prolong, Advance, EDTypeInv, EDTypeOK
    <2> HIDE DEF h
    <2>3. \A i \in Items : ttl[i] <= TTL + SLACK
      BY EventDrivenAssumption DEF EDTypeInv, EDTypeOK
    <2>4. ASSUME NEW i \in Items, NEW t \in Tags, Held(i, t) \/ (t = h /\ i \in tags[h])
          PROVE  Held(i, t)'
      BY <2>2, <2>3, <2>4 DEF Held
    <2>5. ASSUME NEW i \in Items, NEW q \in Gets, Leads(i, q) PROVE Leads(i, q)'
      <3>1. CASE q = r
        <4>1. Owed(q)' = Owed(q)
          <5>1. Owed(q) = Range(Tail(untagged[r]))
            BY <2>2, <3>1 DEF Owed
          <5>2. Owed(q)' = Range(untagged[r])'
            BY <2>2, <3>1 DEF Owed
          <5> QED
            BY <2>2, <5>1, <5>2 DEF Range
        <4>2. ASSUME NEW t \in Tags, Midway(i, q, t) PROVE Held(i, t)'
          BY <2>4, <3>1, <4>2 DEF Midway, h
        <4> QED
          BY <2>2, <2>4, <2>5, <3>1, <4>1, <4>2, TagsOfItem DEF Leads
      <3>2. CASE q # r
        <4>1. stage'[q] = stage[q] /\ untagged'[q] = untagged[q]
          BY <2>2, <3>2 DEF Callers
        <4>2. Owed(q)' = Owed(q) /\ \A t \in Tags : Midway(i, q, t) => Midway(i, q, t)'
          BY <2>2, <4>1 DEF Owed, Midway, Range
        <4> QED
          BY <2>2, <2>4, <2>5, <4>1, <4>2, TagsOfItem DEF Leads
      <3> QED
        BY <3>1, <3>2
    <2> QED
      BY <2>2, <2>4, <2>5, TagsOfItem DEF TagsHold, Reached, Strayed
  <1>6. CASE Answer(r)
    <2>1. /\ UNCHANGED <<item, untagged, cached, orphaned, lapsed, tags, tagTtl, ttl>>
          /\ stage[r] = "tag" /\ untagged[r] = <<>>
          /\ \A q \in Callers : q # r => stage'[q] = stage[q]
      BY <1>6 DEF Answer, Advance, EDTypeInv, EDTypeOK
    <2>2. \A i \in Items, t \in Tags : Held(i, t) => Held(i, t)'
      BY <2>1 DEF Held
    <2>3. ASSUME NEW i \in Items, NEW q \in Gets, Leads(i, q) PROVE Reached(i)'
      <3>1. CASE q = r
        <4>1. Owed(q) = {} /\ \A t : ~Midway(i, q, t)
          BY <2>1, <3>1, RangeOfNothing DEF Owed, Midway, Range
        <4> QED
          BY <2>2, <2>3, <4>1, TagsOfItem DEF Leads, Reached
      <3>2. CASE q # r
        <4>1. stage'[q] = stage[q] /\ untagged'[q] = untagged[q]
          BY <2>1, <3>2 DEF Callers
        <4>2. Owed(q)' = Owed(q) /\ \A t \in Tags : Midway(i, q, t) => Midway(i, q, t)'
          BY <2>1, <4>1 DEF Owed, Midway, Range
        <4>3. Leads(i, q)'
          BY <2>1, <2>2, <2>3, <4>1, <4>2, TagsOfItem DEF Leads
        <4> QED
          BY <4>3 DEF Reached
      <3> QED
        BY <3>1, <3>2
    <2>4. ASSUME NEW i \in Items, \A t \in Range(TagsOf[i]) : Held(i, t)
          PROVE  Reached(i)'
      BY <2>2, <2>4, TagsOfItem DEF Reached
    <2> QED
      BY <2>1, <2>3, <2>4 DEF TagsHold, Reached, Strayed
  <1>7. CASE Raise(r)
    <2>1. /\ UNCHANGED <<item, cached, tags, tagTtl, ttl, lapsed>>
          /\ \A q \in Callers : q # r => stage'[q] = stage[q] /\ untagged'[q] = untagged[q]
      BY <1>7 DEF Raise, EDTypeInv, EDTypeOK
    <2>2. /\ orphaned'[item[r]] = (orphaned[item[r]] \/ stage[r] \in {"tag", "expire"})
          /\ \A i \in Items : i # item[r] => orphaned'[i] = orphaned[i]
      BY <1>1, <1>7 DEF Raise, EDTypeInv, EDTypeOK
    <2>3. \A i \in Items : Strayed(i) => Strayed(i)'
      BY <2>1, <2>2 DEF Strayed
    <2>4. ASSUME NEW q \in Gets, stage[q] \in {"tag", "expire"}
          PROVE  \/ Strayed(item[q])'
                 \/ stage'[q] = stage[q] /\ untagged'[q] = untagged[q]
      BY <2>1, <2>2, <2>4 DEF Callers, Strayed
    <2> QED
      BY <2>1, <2>3, <2>4, TagsUntouched
  <1> QED
    BY <1>2, <1>3, <1>4, <1>5, <1>6, <1>7 DEF Continue

(* What a GET is about to EXPIRE is a tag.                                   *)
LEMMA HeadIsTag ==
    ASSUME EDTypeInv
    PROVE  \A q \in Gets : stage[q] = "expire" => Head(untagged[q]) \in Tags
  <1> SUFFICES ASSUME NEW q \in Gets, stage[q] = "expire" PROVE Head(untagged[q]) \in Tags
    OBVIOUS
  <1>1. untagged[q] \in Seq(Tags) /\ untagged[q] # <<>>
    BY DEF EDTypeInv, EDTypeOK, Callers
  <1> QED
    BY <1>1, RangeOfTail

LEMMA TagsListen ==
    ASSUME EDTypeInv, TagsHold, Listen
    PROVE  TagsHold'
  <1> USE DEF redis, request, bounds, history
  <1>1. CASE Subscribe \/ Receive \/ ReadTag
    <2>1. UNCHANGED <<item, untagged, stage, cached, orphaned, lapsed, tags, tagTtl, ttl>>
      BY <1>1 DEF Subscribe, Receive, ReadTag
    <2> QED
      BY <2>1, TagsUntouched DEF Strayed
  <1>2. CASE DeleteKey
    <2>1. Forget({handling}, {handling}) /\ UNCHANGED <<item, untagged, stage, lapsed>>
      BY <1>2 DEF DeleteKey
    <2>2. \A i \in Items : orphaned[i] \/ LosesTag(i, Tags \cap {handling}) => orphaned'[i]
      BY <1>2 DEF DeleteKey, LosesTag
    <2> QED
      BY <2>1, <2>2, TagsForgotten, HeadIsTag
  <1>3. CASE DeleteEntries
    <2>1. Forget(found, {}) /\ UNCHANGED <<item, untagged, stage, orphaned, lapsed>>
      BY <1>3 DEF DeleteEntries
    <2> QED
      BY <2>1, TagsForgotten, HeadIsTag DEF LosesTag
  <1>4. CASE DeleteSet
    <2>1. Forget({}, {handling}) /\ UNCHANGED <<item, untagged, stage, lapsed>>
      BY <1>4 DEF DeleteSet
    <2>2. \A i \in Items : orphaned[i] \/ LosesTag(i, Tags \cap {handling}) => orphaned'[i]
      BY <1>4 DEF DeleteSet, LosesTag
    <2> QED
      BY <2>1, <2>2, TagsForgotten, HeadIsTag
  <1> QED
    BY <1>1, <1>2, <1>3, <1>4 DEF Listen

(* Time goes by for an entry and for its sets alike: a set that outlives an  *)
(* entry does so after the tick, and is there while the entry is. A set that *)
(* has yet to be prolonged may end, and that is recorded.                    *)
LEMMA TagsTick ==
    ASSUME EDTypeInv, TagsHold, Tick
    PROVE  TagsHold'
  <1>1. UNCHANGED <<item, untagged, stage, orphaned>>
    BY DEF Tick, request
  <1>2. ASSUME NEW i \in Items, cached'[i] # Absent
        PROVE  ttl[i] \in Nat /\ ttl[i] > 1 /\ ttl'[i] = ttl[i] - 1
    BY <1>2, EventDrivenAssumption DEF Tick, Less, EDTypeInv, EDTypeOK
  <1>3. ASSUME NEW i \in Items, cached'[i] # Absent, NEW t \in Tags, Held(i, t)
        PROVE  Held(i, t)'
    <2>1. tagTtl[t] \in Nat /\ tagTtl[t] # 1
      BY <1>2, <1>3, EventDrivenAssumption DEF Held, EDTypeInv, EDTypeOK
    <2>2. tagTtl'[t] = Less(tagTtl[t]) /\ tags'[t] = tags[t]
      BY <2>1 DEF Tick
    <2> QED
      BY <1>2, <1>3, <2>1, <2>2 DEF Held, Less
  <1>4. \A i \in Items : cached'[i] # Absent => cached[i] # Absent
    BY DEF Tick
  <1>5. \A i \in Items : lapsed[i] \/ Lapses(i) => lapsed'[i]
    BY DEF Tick
  <1>6. ASSUME NEW i \in Items, cached'[i] # Absent, NEW q \in Gets, item[q] = i,
               ~Strayed(i)', NEW t \in Tags, Midway(i, q, t)
        PROVE  Midway(i, q, t)'
    <2>1. ~Lapses(i)
      BY <1>5, <1>6 DEF Strayed
    <2>2. tagTtl[t] # 1
      BY <1>2, <1>6, <2>1 DEF Lapses, Midway
    <2>3. tags'[t] = tags[t]
      BY <2>2 DEF Tick
    <2> QED
      BY <1>1, <1>6, <2>3 DEF Midway
  <1> QED
    BY <1>1, <1>3, <1>4, <1>5, <1>6, TagsKept DEF Strayed

LEMMA TagsStep ==
    ASSUME EDTypeInv, TagsHold, [EDNext]_edVars
    PROVE  TagsHold'
  <1> USE DEF redis, listening, bounds, history
  <1>1. ASSUME NEW r \in Callers, ReadHit(r) \/ ReadMiss(r) \/ Update(r) PROVE TagsHold'
    <2>1. /\ UNCHANGED <<item, untagged, cached, orphaned, lapsed, tags, tagTtl, ttl>>
          /\ \A q \in Gets : stage[q] \in {"tag", "expire"} => stage'[q] = stage[q]
      BY <1>1 DEF ReadHit, ReadMiss, Update, Advance, EDTypeInv, EDTypeOK, Callers
    <2> QED
      BY <2>1, TagsUntouched DEF Strayed
  <1>2. CASE ListenerFails \/ ResetScan \/ \E m \in Messages : Invalidate(m)
    <2>1. UNCHANGED <<item, untagged, stage, cached, orphaned, lapsed, tags, tagTtl, ttl>>
      BY <1>2 DEF ListenerFails, ResetScan, Invalidate, request
    <2> QED
      BY <2>1, TagsUntouched DEF Strayed
  <1>3. CASE ResetDelete
    <2>1. /\ Forget(wipe \cap Items, wipe \cap Tags)
          /\ UNCHANGED <<item, untagged, stage, lapsed>>
      BY <1>3 DEF ResetDelete, request
    <2>2. \A i \in Items : orphaned[i] \/ LosesTag(i, Tags \cap (wipe \cap Tags)) => orphaned'[i]
      BY <1>3 DEF ResetDelete, LosesTag
    <2> QED
      BY <2>1, <2>2, TagsForgotten, HeadIsTag
  <1>4. CASE Restart
    <2>1. UNCHANGED <<item, cached, tags, tagTtl, ttl, lapsed>>
      BY <1>4 DEF Restart
    <2>2. /\ \A i \in Items : orphaned[i] => orphaned'[i]
          /\ \A q \in Gets : stage[q] \in {"tag", "expire"} => orphaned'[item[q]]
      BY <1>4 DEF Restart, EDTypeInv, EDTypeOK, Callers
    <2> QED
      BY <2>1, <2>2, TagsUntouched DEF Strayed
  <1>5. CASE UNCHANGED edVars
    <2>1. UNCHANGED <<item, untagged, stage, cached, orphaned, lapsed, tags, tagTtl, ttl>>
      BY <1>5 DEF edVars, request
    <2> QED
      BY <2>1, TagsUntouched DEF Strayed
  <1> QED
    BY <1>1, <1>2, <1>3, <1>4, <1>5, TagsCaller, TagsListen, TagsTick DEF EDNext, Callers

(* The tags lead to every entry but one that lost a tag to a deletion, or    *)
(* whose registration is not over or broke off, or for which a set ended     *)
(* between SADD and EXPIRE; once both are through, expiry takes no tag: for  *)
(* any lives of entries and sets, and any tags of the items.                 *)
THEOREM TagsCorrect == EDSpec => []TagsReachEntries
  <1>1. EDInit => TagsHold
    BY DEF EDInit, TagsHold
  <1>2. EDTypeInv /\ TagsHold /\ [EDNext]_edVars => TagsHold'
    BY TagsStep
  <1>3. TagsHold => TagsReachEntries
    BY DEF TagsHold, Reached, Strayed, Leads, Held, TagsReachEntries, Listed, Registering
  <1> QED
    BY <1>1, <1>2, <1>3, EDTypeInvariant, PTL DEF EDSpec

----------------------------------------------------------------------------
(* Before the first request of the administrator nothing is published but    *)
(* the keys of items, so that the listener deletes no set, and there is      *)
(* nothing to wipe; then, as long as nothing fails either, no entry loses a  *)
(* tag to a deletion.                                                        *)
Undisturbed ==
    manual = 0 =>
        /\ wipe = {}
        /\ Range(channel) \subseteq {Key(i) : i \in Items}
        /\ listener \notin {"tag", "entries", "set"}
        /\ listener = "key" => handling \in Items
        /\ failures = 0 => \A i \in Items : ~orphaned[i]

TagsLeadToAll ==
    manual = 0 /\ failures = 0 =>
        \A i \in Items :
            cached[i] # Absent => Listed(i) \/ Registering(i) \/ lapsed[i]

LEMMA RangeWithin ==
    ASSUME NEW S, NEW s \in Seq(S)
    PROVE  /\ \A m \in S : Range(Append(s, m)) \subseteq Range(s) \cup {m}
           /\ s # <<>> => Range(Tail(s)) \subseteq Range(s)
  <1>1. ASSUME NEW m \in S PROVE Range(Append(s, m)) \subseteq Range(s) \cup {m}
    <2> DEFINE t == Append(s, m)
    <2>1. /\ DOMAIN t = 1 .. Len(s) + 1 /\ DOMAIN s = 1 .. Len(s) /\ Len(s) \in Nat
          /\ t[Len(s) + 1] = m
          /\ \A k \in 1 .. Len(s) : t[k] = s[k]
      OBVIOUS
    <2> HIDE DEF t
    <2>2. Range(t) \subseteq Range(s) \cup {m}
      <3> SUFFICES ASSUME NEW k \in 1 .. Len(s) + 1
                   PROVE  t[k] \in Range(s) \cup {m}
        BY <2>1 DEF Range
      <3>1. k \in 1 .. Len(s) \/ k = Len(s) + 1
        BY <2>1
      <3> QED
        BY <2>1, <3>1 DEF Range
    <2> QED
      BY <2>2 DEF t
  <1>2. ASSUME s # <<>> PROVE Range(Tail(s)) \subseteq Range(s)
    <2> DEFINE t == Tail(s)
    <2>1. /\ DOMAIN t = 1 .. Len(s) - 1 /\ DOMAIN s = 1 .. Len(s) /\ Len(s) \in Nat
          /\ \A k \in 1 .. Len(s) - 1 : t[k] = s[k + 1] /\ k + 1 \in 1 .. Len(s)
      BY <1>2
    <2> HIDE DEF t
    <2>2. Range(t) \subseteq Range(s)
      BY <2>1 DEF Range
    <2> QED
      BY <2>2 DEF t
  <1> QED
    BY <1>1, <1>2

LEMMA UndisturbedKept ==
    ASSUME Undisturbed, manual' = manual, wipe' = wipe,
           Range(channel)' \subseteq Range(channel),
           \/ listener' = "idle"
           \/ listener' = listener /\ handling' = handling,
           failures' = failures,
           \A i \in Items : orphaned'[i] => orphaned[i]
    PROVE  Undisturbed'
  BY DEF Undisturbed

LEMMA UndisturbedStep ==
    ASSUME EDTypeInv, Undisturbed, [EDNext]_edVars
    PROVE  Undisturbed'
  <1> USE DEF redis, listening, bounds, history
  <1>0. /\ manual \in Nat /\ failures \in Nat
        /\ channel \in Seq(Messages) /\ Range(<<>>) = {}
    BY EventDrivenAssumption, RangeOfNothing DEF EDTypeInv, EDTypeOK
  <1>1. ASSUME NEW r \in Callers, ReadHit(r) \/ ReadMiss(r) \/ Update(r)
                                  \/ Load(r) \/ Fill(r) \/ Register(r)
                                  \/ Prolong(r) \/ Answer(r)
        PROVE  Undisturbed'
    <2>1. UNCHANGED <<manual, failures, wipe, channel, listener, handling>>
      BY <1>1 DEF ReadHit, ReadMiss, Update, Load, Fill, Register, Prolong, Answer
    <2>2. \A i \in Items : orphaned'[i] => orphaned[i]
      <3>1. CASE Fill(r)
        BY <3>1 DEF Fill, EDTypeInv, EDTypeOK
      <3>2. CASE ~Fill(r)
        BY <1>1, <3>2 DEF ReadHit, ReadMiss, Update, Load, Register, Prolong, Answer
      <3> QED
        BY <3>1, <3>2
    <2> QED
      BY <2>1, <2>2, UndisturbedKept
  <1>2. ASSUME NEW r \in Callers, Publish(r) PROVE Undisturbed'
    <2> DEFINE m == Key(item[r])
    <2>1. item[r] \in Items /\ m \in Messages
      BY DEF EDTypeInv, EDTypeOK, Messages, Key, Names
    <2>2. /\ UNCHANGED <<manual, failures, wipe, listener, handling, orphaned>>
          /\ channel' = channel \/ channel' = Append(channel, m)
      BY <1>2 DEF Publish, Deliver
    <2>3. m \in {Key(i) : i \in Items}
      BY <2>1
    <2> HIDE DEF m
    <2>4. Range(channel)' \subseteq Range(channel) \cup {m}
      <3>1. Range(Append(channel, m)) \subseteq Range(channel) \cup {m}
        BY <1>0, <2>1, RangeWithin
      <3>2. CASE channel' = Append(channel, m)
        BY <3>1, <3>2 DEF Range
      <3>3. CASE channel' = channel
        BY <3>3 DEF Range
      <3> QED
        BY <2>2, <3>2, <3>3
    <2> QED
      BY <2>2, <2>3, <2>4 DEF Undisturbed
  <1>3. ASSUME NEW r \in Callers, Raise(r) PROVE Undisturbed'
    <2>1. failures' # 0 /\ UNCHANGED <<manual, wipe, channel, listener, handling>>
      BY <1>0, <1>3 DEF Raise
    <2> QED
      BY <2>1 DEF Undisturbed
  <1>4. CASE Subscribe
    <2>1. /\ UNCHANGED <<manual, failures, wipe, channel, orphaned>>
          /\ listener' = "idle"
      BY <1>4 DEF Subscribe
    <2> QED
      BY <2>1, UndisturbedKept
  <1>5. CASE Receive
    <2>1. /\ UNCHANGED <<manual, failures, wipe, orphaned>>
          /\ channel # <<>> /\ channel' = Tail(channel)
          /\ handling' = Head(channel).name /\ listener' = Head(channel).kind
      BY <1>5 DEF Receive
    <2>2. Head(channel) \in Range(channel) /\ Range(channel)' \subseteq Range(channel)
      BY <1>0, <2>1, RangeOfTail, RangeWithin
    <2>3. manual = 0 => listener' = "key" /\ handling' \in Items
      BY <2>1, <2>2 DEF Undisturbed, Key
    <2> QED
      BY <2>1, <2>2, <2>3 DEF Undisturbed
  <1>6. CASE ReadTag \/ DeleteEntries \/ DeleteSet
    <2>1. listener \in {"tag", "entries", "set"} /\ manual' = manual
      BY <1>6 DEF ReadTag, DeleteEntries, DeleteSet
    <2> QED
      BY <2>1 DEF Undisturbed
  <1>7. CASE ListenerFails \/ Restart
    <2>1. /\ failures' # 0 /\ manual' = manual
          /\ wipe' = wipe \/ wipe' = {}
          /\ channel' = <<>> /\ listener' \in {"off", "starting"}
      BY <1>0, <1>7 DEF ListenerFails, Restart
    <2> QED
      BY <1>0, <2>1 DEF Undisturbed
  <1>8. CASE ResetScan \/ \E m \in Messages : Invalidate(m)
    <2>1. manual' # 0
      BY <1>0, <1>8 DEF ResetScan, Invalidate
    <2> QED
      BY <2>1 DEF Undisturbed
  <1>9. CASE ResetDelete
    <2>1. wipe # {} /\ manual' = manual
      BY <1>9 DEF ResetDelete
    <2> QED
      BY <2>1 DEF Undisturbed
  <1>10. CASE Tick \/ UNCHANGED edVars
    <2>1. UNCHANGED <<manual, failures, wipe, channel, listener, handling, orphaned>>
      BY <1>10 DEF Tick, edVars
    <2> QED
      BY <2>1, UndisturbedKept
  <1>11. CASE DeleteKey
    <2>1. /\ UNCHANGED <<manual, failures, wipe, channel>>
          /\ listener = "key" /\ listener' = "idle"
          /\ \A i \in Items : orphaned'[i] =
                 (orphaned[i] \/ LosesTag(i, {handling} \cap Tags))
      BY <1>11 DEF DeleteKey, EndRound
    <2>2. manual = 0 => handling \in Items
      BY <2>1 DEF Undisturbed
    <2>3. manual = 0 => {handling} \cap Tags = {}
      BY <2>2, EventDrivenAssumption
    <2>4. manual = 0 => \A i \in Items : orphaned'[i] => orphaned[i]
      BY <2>1, <2>3 DEF LosesTag
    <2> QED
      BY <2>1, <2>4 DEF Undisturbed
  <1> QED
    BY <1>1, <1>2, <1>3, <1>4, <1>5, <1>6, <1>7, <1>8, <1>9, <1>10,
       <1>11 DEF EDNext, Continue, Listen, Callers

(* GETs, PUTs and their invalidations never cost an entry its tags, in       *)
(* whatever order their commands come: until the administrator invalidates   *)
(* or resets, or a call fails, every entry whose GETs have answered is a     *)
(* member of all its tag sets, unless a set ended between the SADD of its    *)
(* key and the EXPIRE that follows, the one way for expiry to take it.       *)
THEOREM OnlyALapseTakesTags == EDSpec => []TagsLeadToAll
  <1>1. EDInit => Undisturbed
    BY RangeOfNothing DEF EDInit, Undisturbed
  <1>2. EDTypeInv /\ Undisturbed /\ [EDNext]_edVars => Undisturbed'
    BY UndisturbedStep
  <1>3. Undisturbed /\ TagsReachEntries => TagsLeadToAll
    BY DEF Undisturbed, TagsReachEntries, TagsLeadToAll
  <1> QED
    BY <1>1, <1>2, <1>3, EDTypeInvariant, TagsCorrect, PTL DEF EDSpec

===============================================================================
