-------------------- MODULE InProcess_NegativeCache_proofs --------------------
(* Proofs about InProcess, for every number of requests, keys and threads,   *)
(* and about NegativeCache, for every number of users, requests and          *)
(* rebuilds. The two have no name in common and nothing to do with each      *)
(* other.                                                                    *)
EXTENDS InProcess, NegativeCache, FiniteSetTheorems, TLAPS

----------------------------------------------------------------------------
(* InProcess.                                                                *)

Places == {"new", "queued", "lookup", "call", "wait", "read", "query", "back",
           "raised", "size", "done"}

LEMMA KeysAreTyped ==
    ASSUME key \in Asks
    PROVE  /\ \A r \in LruRequests : key[r] \in Codes
           /\ \A r \in TtlRequests : key[r] \in Users
  BY InProcessAssumption DEF Requests

LEMMA RequestsAreDistinct ==
    /\ \A r \in LruRequests : r \in Requests /\ r \notin TtlRequests
    /\ \A r \in TtlRequests : r \in Requests /\ r \notin LruRequests
    /\ \A r \in Requests : r # Nobody
  BY InProcessAssumption DEF Requests


LEMMA OneMore ==
    ASSUME NEW S, NEW x, IsFiniteSet(S)
    PROVE  /\ IsFiniteSet(S \cup {x})
           /\ Cardinality(S) \in Nat /\ Cardinality(S \cup {x}) \in Nat
           /\ Cardinality(S) <= Cardinality(S \cup {x})
           /\ Cardinality(S \cup {x}) <= Cardinality(S) + 1
           /\ x \notin S => Cardinality(S \cup {x}) = Cardinality(S) + 1
  BY FS_AddElement, FS_CardinalityType

LEMMA OneLess ==
    ASSUME NEW S, NEW x, IsFiniteSet(S)
    PROVE  /\ IsFiniteSet(S \ {x})
           /\ Cardinality(S) \in Nat /\ Cardinality(S \ {x}) \in Nat
           /\ Cardinality(S \ {x}) <= Cardinality(S)
           /\ x \in S => Cardinality(S \ {x}) = Cardinality(S) - 1
  <1>1. /\ IsFiniteSet(S \ {x})
        /\ Cardinality(S \ {x}) = IF x \in S THEN Cardinality(S) - 1 ELSE Cardinality(S)
    BY FS_RemoveElement
  <1>2. Cardinality(S) \in Nat /\ Cardinality(S \ {x}) \in Nat
    BY <1>1, FS_CardinalityType
  <1> QED
    BY <1>1, <1>2

----------------------------------------------------------------------------
(* The pool's queue holds each call once.                                    *)
QueueInv == \A i, j \in DOMAIN queue : queue[i] = queue[j] => i = j
Queued(r) == \E i \in DOMAIN queue : queue[i] = r
QueueOK ==
    /\ queue \in Seq(Requests)
    /\ pc \in [Requests -> Places]
    /\ \A r \in Requests : pc[r] = "queued" <=> Queued(r)
    /\ QueueInv

LEMMA HandOver ==
    ASSUME QueueOK, NEW r \in Requests, Goto(r, "new", "queued"),
           queue' = Append(queue, r)
    PROVE  QueueOK'
  <1>1. /\ queue' \in Seq(Requests)
        /\ DOMAIN queue = 1 .. Len(queue) /\ Len(queue) \in Nat
        /\ DOMAIN queue' = 1 .. Len(queue) + 1
        /\ \A i \in 1 .. Len(queue) : queue'[i] = queue[i]
        /\ queue'[Len(queue) + 1] = r
    BY DEF QueueOK
  <1>2. pc' \in [Requests -> Places]
    BY DEF QueueOK, Goto, Places
  <1>3. ~Queued(r)
    BY DEF QueueOK, Goto
  <1>4. \A q \in Requests : pc'[q] = "queued" <=> Queued(q)'
    <2> SUFFICES ASSUME NEW q \in Requests PROVE pc'[q] = "queued" <=> Queued(q)'
      OBVIOUS
    <2>1. CASE q = r
      BY <1>1, <2>1 DEF QueueOK, Goto, Queued
    <2>2. CASE q # r
      <3>1. Queued(q)' <=> Queued(q)
        BY <1>1, <2>2 DEF Queued
      <3> QED
        BY <2>2, <3>1 DEF QueueOK, Goto
    <2> QED
      BY <2>1, <2>2
  <1>5. QueueInv'
    BY <1>1, <1>3 DEF QueueOK, QueueInv, Queued
  <1> QED
    BY <1>1, <1>2, <1>4, <1>5 DEF QueueOK

LEMMA TakeOver ==
    ASSUME QueueOK, NEW r \in Requests, Start(r)
    PROVE  QueueOK'
  <1>1. /\ queue' \in Seq(Requests)
        /\ DOMAIN queue = 1 .. Len(queue) /\ Len(queue) \in Nat \ {0}
        /\ DOMAIN queue' = 1 .. Len(queue) - 1
        /\ \A i \in 1 .. Len(queue) - 1 : queue'[i] = queue[i + 1]
        /\ queue[1] = r
    BY DEF QueueOK, Start
  <1>2. pc' \in [Requests -> Places] /\ pc'[r] # "queued"
    BY DEF QueueOK, Start, Goto, Places
  <1>3. \A q \in Requests : pc'[q] = "queued" <=> Queued(q)'
    <2> SUFFICES ASSUME NEW q \in Requests PROVE pc'[q] = "queued" <=> Queued(q)'
      OBVIOUS
    <2>1. CASE q = r
      <3>1. ASSUME NEW i \in 1 .. Len(queue) - 1, queue'[i] = r PROVE FALSE
        <4>1. queue[i + 1] = queue[1] /\ i + 1 \in DOMAIN queue /\ 1 \in DOMAIN queue
          BY <1>1, <3>1
        <4>2. i + 1 = 1
          BY <4>1 DEF QueueOK, QueueInv
        <4> QED
          BY <1>1, <4>2
      <3> QED
        BY <1>1, <1>2, <2>1, <3>1 DEF Queued
    <2>2. CASE q # r
      <3>1. ASSUME Queued(q) PROVE Queued(q)'
        <4>1. PICK i \in 1 .. Len(queue) : queue[i] = q
          BY <1>1, <3>1 DEF Queued
        <4>2. i - 1 \in 1 .. Len(queue) - 1 /\ queue'[i - 1] = q
          BY <1>1, <2>2, <4>1
        <4> QED
          BY <1>1, <4>2 DEF Queued
      <3>2. Queued(q)' => Queued(q)
        BY <1>1 DEF Queued
      <3> QED
        BY <2>2, <3>1, <3>2 DEF QueueOK, Start, Goto
    <2> QED
      BY <2>1, <2>2
  <1>4. QueueInv'
    <2> SUFFICES ASSUME NEW i \in 1 .. Len(queue) - 1, NEW j \in 1 .. Len(queue) - 1,
                        queue'[i] = queue'[j]
                 PROVE  i = j
      BY <1>1 DEF QueueInv
    <2>1. queue[i + 1] = queue[j + 1] /\ i + 1 \in DOMAIN queue /\ j + 1 \in DOMAIN queue
      BY <1>1
    <2>2. i + 1 = j + 1
      BY <2>1 DEF QueueOK, QueueInv
    <2> QED
      BY <1>1, <2>2
  <1> QED
    BY <1>1, <1>2, <1>3, <1>4 DEF QueueOK

LEMMA StayInPlace ==
    ASSUME QueueOK, NEW r \in Requests, NEW from \in Places \ {"queued"},
           NEW to \in Places \ {"queued"}, Goto(r, from, to), UNCHANGED queue
    PROVE  QueueOK'
  BY DEF QueueOK, Goto, Queued, QueueInv

----------------------------------------------------------------------------
(* The type invariant needs that the queue holds a call once and that what   *)
(* the caches hold is finite.                                                *)
TypeInv == TypeOK /\ QueueOK /\ IsFiniteSet(lru) /\ IsFiniteSet(ttl)

LEMMA TypeInvHolds == Spec => []TypeInv
  <1>1. Init => TypeInv
    <2> SUFFICES ASSUME Init PROVE TypeInv
      OBVIOUS
    <2>1. QueueOK
      BY DEF Init, QueueOK, QueueInv, Queued, Places
    <2>2. IsFiniteSet({}) /\ Cardinality({}) = 0
      BY FS_EmptySet
    <2>3. TypeOK
      <3>1. MAXSIZE \in Nat
        BY InProcessAssumption
      <3>2. pc \in [Requests -> Places] /\ queue \in Seq(Requests)
            /\ \A r \in Requests : pc[r] = "queued" <=> Queued(r)
        BY <2>1 DEF QueueOK
      <3>3. before \in [LruRequests -> Nat]
        BY DEF Init
      <3>4. /\ lru \subseteq Codes /\ Cardinality(lru) <= MAXSIZE
            /\ lruHits \in Nat /\ lruMisses \in Nat
            /\ ttl \subseteq Users /\ took \subseteq TtlRequests
            /\ ttlHits \in Nat /\ ttlMisses \in Nat /\ seen \in Nat
            /\ fromCache \cup overtaken \cup straddles \cup forgotten \subseteq LruRequests
        BY <2>2, <3>1 DEF Init
      <3>5. /\ loop \in TtlRequests \cup {Nobody, "size", "counts", "clear"}
            /\ lock \in TtlRequests \cup {Nobody}
            /\ label \in BOOLEAN /\ key \in Asks
        BY DEF Init
      <3> QED
        BY <3>2, <3>3, <3>4, <3>5 DEF TypeOK, Queued, Places
    <2> QED
      BY <2>1, <2>2, <2>3 DEF Init, TypeInv
  <1>2. TypeInv /\ [Next]_vars => TypeInv'
    <2> SUFFICES ASSUME TypeInv, [Next]_vars PROVE TypeInv'
      OBVIOUS
    <2>1. /\ TypeOK /\ QueueOK /\ IsFiniteSet(lru) /\ IsFiniteSet(ttl)
          /\ MAXSIZE \in Nat \ {0} /\ Cardinality(lru) \in Nat
      BY InProcessAssumption, FS_CardinalityType DEF TypeInv
    <2>2. ASSUME QueueOK', UNCHANGED <<key, lruVars, ttlVars>>,
                 loop' \in TtlRequests \cup {Nobody, "size", "counts", "clear"}
          PROVE  TypeInv'
      BY <2>1, <2>2 DEF TypeInv, TypeOK, QueueOK, Queued, Places, lruVars, ttlVars
    <2>3. ASSUME QueueOK', UNCHANGED <<key, loop, ttlVars>>,
                 lru' \subseteq Codes, IsFiniteSet(lru'), Cardinality(lru') <= MAXSIZE,
                 lruHits' \in Nat, lruMisses' \in Nat, label' \in BOOLEAN,
                 before' \in [LruRequests -> Nat],
                 fromCache' \cup overtaken' \cup straddles' \cup forgotten'
                     \subseteq LruRequests
          PROVE  TypeInv'
      BY <2>1, <2>3 DEF TypeInv, TypeOK, QueueOK, Queued, Places, ttlVars
    <2>4. ASSUME QueueOK', UNCHANGED <<key, lruVars>>,
                 loop' \in TtlRequests \cup {Nobody, "size", "counts", "clear"},
                 lock' \in TtlRequests \cup {Nobody}, ttl' \subseteq Users,
                 IsFiniteSet(ttl'),
                 ttlHits' \in Nat, ttlMisses' \in Nat, seen' \in Nat,
                 took' \subseteq TtlRequests
          PROVE  TypeInv'
      BY <2>1, <2>4 DEF TypeInv, TypeOK, QueueOK, Queued, Places, lruVars
    <2>5. ASSUME UNCHANGED <<pc, queue>> PROVE QueueOK'
      BY <2>1, <2>5 DEF QueueOK, Queued, QueueInv
    <2>6. ASSUME NEW r \in Requests, Start(r) PROVE TypeInv'
      BY <2>1, <2>2, <2>6, TakeOver DEF Start, TypeOK
    <2>7. ASSUME NEW r \in LruRequests, LruBegin(r) PROVE TypeInv'
      <3>1. QueueOK'
        BY <2>1, <2>7, HandOver, RequestsAreDistinct DEF LruBegin
      <3> QED
        BY <2>1, <2>3, <2>7, <3>1 DEF LruBegin, TypeOK
    <2>8. ASSUME NEW r \in LruRequests, LruThread(r) PROVE TypeInv'
      <3>1. QueueOK'
        BY <2>1, <2>8, StayInPlace, RequestsAreDistinct
           DEF LruThread, LruHit, LruMiss, LruInsert, Places
      <3>2. CASE LruHit(r) \/ LruMiss(r)
        BY <2>1, <2>3, <3>1, <3>2 DEF LruHit, LruMiss, TypeOK, UnderWay
      <3>3. CASE LruInsert(r)
        <4>1. key[r] \in Codes
          BY <2>1, KeysAreTyped DEF TypeOK
        <4>2. /\ IsFiniteSet(lru') /\ Cardinality(lru') <= MAXSIZE
              /\ lru' \subseteq Codes
          <5>1. CASE lru' = lru
            BY <2>1, <5>1 DEF TypeOK
          <5>2. CASE Cardinality(lru) < MAXSIZE /\ lru' = lru \cup {key[r]}
            <6>1. IsFiniteSet(lru') /\ Cardinality(lru') <= Cardinality(lru) + 1
                  /\ Cardinality(lru') \in Nat
              BY <2>1, <5>2, OneMore
            <6>2. lru' \subseteq Codes
              BY <2>1, <4>1, <5>2 DEF TypeOK
            <6> QED
              BY <2>1, <5>2, <6>1, <6>2
          <5>3. ASSUME NEW victim \in lru, lru' = (lru \ {victim}) \cup {key[r]}
                PROVE  /\ IsFiniteSet(lru') /\ Cardinality(lru') <= MAXSIZE
                       /\ lru' \subseteq Codes
            <6>1. /\ IsFiniteSet(lru \ {victim})
                  /\ Cardinality(lru \ {victim}) = Cardinality(lru) - 1
              BY <2>1, OneLess
            <6>2. /\ IsFiniteSet(lru') /\ Cardinality(lru') \in Nat
                  /\ Cardinality(lru') <= Cardinality(lru \ {victim}) + 1
              BY <5>3, <6>1, OneMore
            <6>3. lru' \subseteq Codes /\ Cardinality(lru) <= MAXSIZE
              BY <2>1, <4>1, <5>3 DEF TypeOK
            <6> QED
              BY <2>1, <6>1, <6>2, <6>3
          <5> QED
            BY <3>3, <5>1, <5>2, <5>3 DEF LruInsert
        <4> QED
          BY <2>1, <2>3, <3>1, <3>3, <4>2 DEF LruInsert, TypeOK
      <3> QED
        BY <2>8, <3>2, <3>3 DEF LruThread
    <2>9. ASSUME NEW r \in LruRequests, LruAnswer(r) PROVE TypeInv'
      <3>1. QueueOK'
        BY <2>1, <2>9, StayInPlace, RequestsAreDistinct DEF LruAnswer, Places
      <3> QED
        BY <2>1, <2>3, <2>9, <3>1 DEF LruAnswer, Forget, TypeOK
    <2>10. CASE LruClear
      <3>1. IsFiniteSet({}) /\ Cardinality({}) = 0
        BY FS_EmptySet
      <3> QED
        BY <2>1, <2>3, <2>5, <2>10, <3>1 DEF LruClear, TypeOK, UnderWay
    <2>11. ASSUME NEW r \in TtlRequests, TtlBegin(r) PROVE TypeInv'
      <3>1. QueueOK'
        BY <2>1, <2>11, HandOver, RequestsAreDistinct DEF TtlBegin
      <3> QED
        BY <2>1, <2>2, <2>11, <3>1 DEF TtlBegin, TypeOK
    <2>12. ASSUME NEW r \in TtlRequests, TtlThread(r) PROVE TypeInv'
      <3>1. QueueOK'
        <4>1. r \in Requests
          BY RequestsAreDistinct
        <4>2. CASE Acquire(r)
          BY <2>1, <4>1, <4>2, StayInPlace DEF Acquire, Places
        <4>3. CASE TtlRead(r) \/ TtlGone(r) \/ TtlStore(r)
          BY <2>1, <4>1, <4>3, StayInPlace DEF TtlRead, TtlGone, TtlStore, Places
        <4> QED
          BY <2>12, <4>2, <4>3 DEF TtlThread
      <3>2. key[r] \in Users /\ IsFiniteSet(ttl \cup {key[r]})
        BY <2>1, KeysAreTyped, FS_AddElement DEF TypeOK
      <3>3. CASE Acquire(r)
        <4>1. ttlHits' \in Nat
          BY <2>1, <3>3 DEF Acquire, TypeOK
        <4> QED
          BY <2>1, <2>4, <3>1, <3>3, <4>1 DEF Acquire, TypeOK
      <3>4. CASE TtlRead(r) \/ TtlGone(r)
        BY <2>1, <2>4, <3>1, <3>4 DEF TtlRead, TtlGone, TypeOK
      <3>5. CASE TtlStore(r)
        BY <2>1, <2>4, <3>1, <3>2, <3>5 DEF TtlStore, TypeOK
      <3> QED
        BY <2>12, <3>3, <3>4, <3>5 DEF TtlThread
    <2>13. ASSUME NEW r \in TtlRequests, TtlLoop(r) PROVE TypeInv'
      <3>1. QueueOK'
        BY <2>1, <2>13, StayInPlace, RequestsAreDistinct
           DEF TtlLoop, TtlResume, TtlAnswer, TtlRaise, Places
      <3> QED
        BY <2>1, <2>2, <2>13, <3>1 DEF TtlLoop, TtlResume, TtlAnswer, TtlRaise, TypeOK
    <2>14. ASSUME NEW k \in Users, Expire(k) PROVE TypeInv'
      BY <2>1, <2>4, <2>5, <2>14, FS_RemoveElement DEF Expire, TypeOK
    <2>15. ASSUME NEW step \in {"size", "clear"}, AdminBegin(step) PROVE TypeInv'
      BY <2>2, <2>5, <2>15 DEF AdminBegin
    <2>16. CASE StatsSize
      <3>1. IsFiniteSet(ttl) => Cardinality(ttl) \in Nat
        BY FS_CardinalityType
      <3> QED
        BY <2>1, <2>4, <2>5, <2>16, <3>1 DEF StatsSize, TypeOK
    <2>17. CASE StatsCounts \/ TtlClear
      <3>1. IsFiniteSet({})
        BY FS_EmptySet
      <3>2. CASE StatsCounts
        BY <2>1, <2>4, <2>5, <2>17, <3>2 DEF StatsCounts, TypeOK
      <3>3. CASE TtlClear
        BY <2>1, <2>4, <2>5, <3>1, <3>3 DEF TtlClear, TypeOK
      <3> QED
        BY <2>17, <3>2, <3>3
    <2>18. CASE UNCHANGED vars
      BY <2>1, <2>2, <2>5, <2>18 DEF vars, TypeOK
    <2> QED
      BY <2>6, <2>7, <2>8, <2>9, <2>10, <2>11, <2>12, <2>13, <2>14, <2>15, <2>16,
         <2>17, <2>18 DEF Next, Begin, Admin
  <1> QED
    BY <1>1, <1>2, PTL DEF Spec

(* Every reachable state is well typed: neither does the lru_cache outgrow   *)
(* MAXSIZE, nor does a call wait in the queue that its request has forgotten.*)
THEOREM TypeCorrect == Spec => []TypeOK
  BY TypeInvHolds, PTL DEF TypeInv

----------------------------------------------------------------------------
(* Who reads or queries holds the lock, and who queries has not found its    *)
(* key, which nobody else can store.                                         *)
LockInv ==
    \A r \in TtlRequests :
        /\ pc[r] \in {"read", "query"} <=> lock = r
        /\ pc[r] = "query" => key[r] \notin ttl

LEMMA LockStep ==
    ASSUME TypeOK, LockInv, [Next]_vars
    PROVE  LockInv'
  <1> SUFFICES ASSUME NEW s \in TtlRequests
               PROVE  /\ pc'[s] \in {"read", "query"} <=> lock' = s
                      /\ pc'[s] = "query" => key'[s] \notin ttl'
    BY DEF LockInv
  <1> DEFINE Goal == /\ pc'[s] \in {"read", "query"} <=> lock' = s
                     /\ pc'[s] = "query" => key'[s] \notin ttl'
  <1>0. /\ pc[s] \in {"read", "query"} <=> lock = s
        /\ pc[s] = "query" => key[s] \notin ttl
        /\ s \in Requests /\ s \notin LruRequests /\ s # Nobody
        /\ pc \in [Requests -> Places]
    BY RequestsAreDistinct DEF LockInv, TypeOK, Places
  <1>1. ASSUME pc'[s] = pc[s], UNCHANGED <<lock, key>>, ttl' \subseteq ttl
        PROVE  Goal
    BY <1>0, <1>1
  <1> USE DEF Goto, ttlVars
  <1>2. ASSUME NEW r \in Requests, Start(r) PROVE Goal
    BY <1>0, <1>1, <1>2 DEF Start
  <1>3. ASSUME NEW r \in LruRequests, LruBegin(r) \/ LruThread(r) \/ LruAnswer(r)
        PROVE  Goal
    <2>1. r \in Requests /\ r # s
      BY <1>0, <1>3, RequestsAreDistinct
    <2> QED
      BY <1>0, <1>1, <1>3, <2>1
         DEF LruBegin, LruThread, LruHit, LruMiss, LruInsert, LruAnswer
  <1>4. ASSUME NEW r \in TtlRequests, TtlBegin(r) \/ TtlLoop(r) PROVE Goal
    <2>1. r \in Requests
      BY RequestsAreDistinct
    <2> QED
      BY <1>0, <1>1, <1>4, <2>1 DEF TtlBegin, TtlLoop, TtlResume, TtlAnswer, TtlRaise
  <1>5. ASSUME NEW r \in TtlRequests, TtlThread(r) PROVE Goal
    <2>1. /\ r \in Requests
          /\ pc[r] \in {"read", "query"} <=> lock = r
          /\ lock \in TtlRequests \cup {Nobody} /\ r # Nobody
      BY RequestsAreDistinct DEF LockInv, TypeOK
    <2>2. CASE Acquire(r)
      BY <1>0, <2>1, <2>2 DEF Acquire
    <2>3. CASE TtlRead(r) \/ TtlGone(r)
      BY <1>0, <2>1, <2>3 DEF TtlRead, TtlGone
    <2>4. CASE TtlStore(r)
      BY <1>0, <2>1, <2>4 DEF TtlStore
    <2> QED
      BY <1>5, <2>2, <2>3, <2>4 DEF TtlThread
  <1>6. CASE Admin \/ LruClear
    BY <1>1, <1>6 DEF Admin, StatsSize, StatsCounts, TtlClear, LruClear
  <1>7. ASSUME NEW k \in Users, Expire(k) PROVE Goal
    BY <1>1, <1>7 DEF Expire
  <1>8. ASSUME NEW step, AdminBegin(step) PROVE Goal
    BY <1>1, <1>8 DEF AdminBegin
  <1>9. CASE UNCHANGED vars
    BY <1>1, <1>9 DEF vars
  <1> QED
    BY <1>2, <1>3, <1>4, <1>5, <1>6, <1>7, <1>8, <1>9 DEF Next, Begin

LEMMA LockInvHolds == Spec => []LockInv
  <1>1. Init => LockInv
    BY RequestsAreDistinct DEF Init, LockInv
  <1> QED
    BY <1>1, LockStep, TypeCorrect, PTL DEF Spec

(* However many requests ask for a user whose entry is missing, they query   *)
(* the database one after another, and none for a key that is stored.        *)
THEOREM QueriesAreAlone == Spec => []SingleFlight
  <1>1. LockInv => SingleFlight
    BY DEF LockInv, SingleFlight
  <1> QED
    BY <1>1, LockInvHolds, PTL

----------------------------------------------------------------------------
(* Where an lru request stands between its two readings of the hits: they    *)
(* have gone up at most by the hits of others, and have gone up with its own *)
(* hit, unless they were cleared.                                            *)
HitsInv ==
    \A r \in LruRequests :
        /\ pc[r] = "new" => r \notin fromCache \cup overtaken \cup straddles
        /\ r \in UnderWay /\ r \notin fromCache \cup overtaken => lruHits <= before[r]
        /\ r \in UnderWay /\ r \notin straddles => before[r] <= lruHits
        /\ r \in UnderWay /\ r \notin straddles /\ r \in fromCache => before[r] < lruHits

LabelFair(r) ==
    pc[r] = "back" /\ pc'[r] = "done" =>
        /\ label' /\ r \notin fromCache => r \in overtaken
        /\ ~label' /\ r \in fromCache => r \in straddles

LEMMA HitsStep ==
    ASSUME TypeOK, HitsInv, [Next]_vars
    PROVE  HitsInv' /\ \A r \in LruRequests : LabelFair(r)
  <1> DEFINE Piece(s) ==
        /\ pc[s] = "new" => s \notin fromCache \cup overtaken \cup straddles
        /\ s \in UnderWay /\ s \notin fromCache \cup overtaken => lruHits <= before[s]
        /\ s \in UnderWay /\ s \notin straddles => before[s] <= lruHits
        /\ s \in UnderWay /\ s \notin straddles /\ s \in fromCache
              => before[s] < lruHits
  <1> SUFFICES ASSUME NEW s \in LruRequests PROVE Piece(s)' /\ LabelFair(s)
    BY DEF HitsInv
  <1>0. /\ Piece(s)
        /\ s \in Requests /\ s \notin TtlRequests
        /\ pc \in [Requests -> Places]
        /\ before \in [LruRequests -> Nat] /\ lruHits \in Nat
    BY RequestsAreDistinct DEF HitsInv, TypeOK, Places
  <1>1. ASSUME pc'[s] = pc[s] \/ (pc[s] # "new" /\ pc'[s] \notin {"new", "done"}),
               pc[s] # "done" \/ pc'[s] = "done",
               before'[s] = before[s], lruHits' = lruHits,
               s \in fromCache' <=> s \in fromCache,
               s \in overtaken' <=> s \in overtaken,
               s \in straddles' <=> s \in straddles
        PROVE  Piece(s)' /\ LabelFair(s)
    BY <1>0, <1>1 DEF UnderWay, LabelFair
  <1> USE DEF Goto, lruVars
  <1>2. ASSUME NEW r \in Requests, Start(r) PROVE Piece(s)' /\ LabelFair(s)
    BY <1>0, <1>1, <1>2 DEF Start
  <1>3. ASSUME NEW r \in TtlRequests, TtlBegin(r) \/ TtlThread(r) \/ TtlLoop(r)
        PROVE  Piece(s)' /\ LabelFair(s)
    <2>1. r \in Requests /\ r # s
      BY <1>0, <1>3, RequestsAreDistinct
    <2> QED
      BY <1>0, <1>1, <1>3, <2>1 DEF TtlBegin, TtlThread, Acquire, TtlRead, TtlGone,
         TtlStore, TtlLoop, TtlResume, TtlAnswer, TtlRaise
  <1>4. ASSUME NEW r \in LruRequests, LruBegin(r) PROVE Piece(s)' /\ LabelFair(s)
    <2>1. CASE r = s
      BY <1>0, <1>4, <2>1 DEF LruBegin, UnderWay, LabelFair
    <2>2. CASE r # s
      BY <1>0, <1>1, <1>4, <2>2, RequestsAreDistinct DEF LruBegin
    <2> QED
      BY <2>1, <2>2
  <1>5. ASSUME NEW r \in LruRequests, LruHit(r) PROVE Piece(s)' /\ LabelFair(s)
    <2>1. CASE r = s
      BY <1>0, <1>5, <2>1 DEF LruHit, UnderWay, LabelFair
    <2>2. CASE r # s
      BY <1>0, <1>5, <2>2, RequestsAreDistinct DEF LruHit, UnderWay, LabelFair
    <2> QED
      BY <2>1, <2>2
  <1>6. ASSUME NEW r \in LruRequests, LruMiss(r) \/ LruInsert(r)
        PROVE  Piece(s)' /\ LabelFair(s)
    BY <1>0, <1>1, <1>6, RequestsAreDistinct DEF LruMiss, LruInsert
  <1>7. ASSUME NEW r \in LruRequests, LruAnswer(r) PROVE Piece(s)' /\ LabelFair(s)
    <2>1. CASE r = s
      <3>1. /\ pc[s] = "back" /\ pc'[s] = "done"
            /\ label' <=> lruHits > before[s]
        BY <1>0, <1>7, <2>1 DEF LruAnswer
      <3>2. s \in UnderWay /\ s \notin UnderWay'
        BY <3>1 DEF UnderWay
      <3>3. before[s] \in Nat
        BY <1>0
      <3> QED
        BY <1>0, <3>1, <3>2, <3>3 DEF LabelFair
    <2>2. CASE r # s
      BY <1>0, <1>1, <1>7, <2>2, RequestsAreDistinct DEF LruAnswer, Forget
    <2> QED
      BY <2>1, <2>2
  <1>8. CASE LruClear
    BY <1>0, <1>8 DEF LruClear, UnderWay, LabelFair
  <1>9. CASE Admin \/ (\E k \in Users : Expire(k)) \/ (\E step : AdminBegin(step))
    BY <1>0, <1>1, <1>9 DEF Admin, StatsSize, StatsCounts, TtlClear, Expire, AdminBegin
  <1>10. CASE UNCHANGED vars
    BY <1>0, <1>1, <1>10 DEF vars
  <1> QED
    BY <1>2, <1>3, <1>4, <1>5, <1>6, <1>7, <1>8, <1>9, <1>10
       DEF Next, Begin, LruThread

(* cache_hit is wrong only by overlap with another call or with a clear.     *)
THEOREM LabelsNeedOverlap == Spec => LabelNeedsOverlap
  <1>1. Init => HitsInv
    BY RequestsAreDistinct DEF Init, HitsInv, UnderWay
  <1>2. TypeOK /\ HitsInv /\ [Next]_vars => HitsInv'
    BY HitsStep
  <1>3. TypeOK /\ HitsInv /\ [Next]_vars
            => [\A r \in LruRequests : pc[r] = "back" /\ pc'[r] = "done" =>
                    /\ label' /\ r \notin fromCache => r \in overtaken
                    /\ ~label' /\ r \in fromCache => r \in straddles]_vars
    BY HitsStep DEF LabelFair
  <1> QED
    BY <1>1, <1>2, <1>3, TypeCorrect, PTL DEF Spec, LabelNeedsOverlap

----------------------------------------------------------------------------
(* The counters of the TTLCache: a call counts when it takes the lock or,    *)
(* after a miss, when it stores, and the one between the two holds the lock. *)
Querying == {r \in TtlRequests : pc[r] = "query"}
TtlCounted ==
    /\ IsFiniteSet(took)
    /\ \A r \in took : pc[r] \notin {"new", "queued", "wait"}
    /\ TtlCountsCalls
    /\ Cardinality(ttl) <= ttlMisses
    /\ seen <= ttlMisses
    /\ loop # "counts" => seen = 0

(* The lru_cache holds a key for each miss that has stored, at most.         *)
Calling == {r \in LruRequests : pc[r] = "call"}
LruCounted ==
    /\ IsFiniteSet(Calling)
    /\ Cardinality(lru) + Cardinality(Calling) <= lruMisses + Cardinality(forgotten)
    /\ Cardinality(forgotten) \in Nat

LEMMA QueryHoldsLock ==
    ASSUME LockInv
    PROVE  /\ Querying \subseteq {lock}
           /\ Querying = {} \/ Querying = {lock}
  BY DEF LockInv, Querying

LEMMA Same ==
    ASSUME TypeOK, NEW r \in Requests, NEW from, NEW to, Goto(r, from, to)
    PROVE  /\ from # "query" /\ to # "query" => Querying' = Querying
           /\ r \in LruRequests => Querying' = Querying
           /\ from # "call" /\ to # "call" => Calling' = Calling
           /\ r \in TtlRequests => Calling' = Calling
  BY RequestsAreDistinct DEF TypeOK, Goto, Querying, Calling

LEMMA LruCountedStep ==
    ASSUME TypeInv, LruCounted, [Next]_vars
    PROVE  LruCounted'
  <1>0. /\ TypeOK /\ IsFiniteSet(Calling) /\ IsFiniteSet(lru)
        /\ Cardinality(lru) \in Nat /\ Cardinality(Calling) \in Nat
        /\ Cardinality(forgotten) \in Nat /\ lruMisses \in Nat
        /\ Cardinality(lru) + Cardinality(Calling) <= lruMisses + Cardinality(forgotten)
    BY FS_CardinalityType DEF TypeInv, TypeOK, LruCounted
  <1>1. ASSUME Calling' = Calling, UNCHANGED <<lru, lruMisses, forgotten>>
        PROVE  LruCounted'
    BY <1>1 DEF LruCounted
  <1>2. ASSUME UNCHANGED <<pc, lru, lruMisses, forgotten>> PROVE LruCounted'
    BY <1>1, <1>2 DEF Calling
  <1>3. ASSUME NEW r \in Requests, Start(r) PROVE LruCounted'
    BY <1>0, <1>1, <1>3, Same DEF Start, lruVars
  <1>4. ASSUME NEW r \in TtlRequests, TtlBegin(r) \/ TtlThread(r) \/ TtlLoop(r)
        PROVE  LruCounted'
    <2>1. r \in Requests /\ \E from, to : Goto(r, from, to)
      BY <1>4, RequestsAreDistinct DEF TtlBegin, TtlThread, Acquire, TtlRead, TtlGone,
         TtlStore, TtlLoop, TtlResume, TtlAnswer, TtlRaise
    <2>2. UNCHANGED lruVars
      BY <1>4 DEF TtlBegin, TtlThread, Acquire, TtlRead, TtlGone, TtlStore, TtlLoop,
         TtlResume, TtlAnswer, TtlRaise
    <2> QED
      BY <1>0, <1>1, <2>1, <2>2, Same DEF lruVars
  <1>5. ASSUME NEW r \in LruRequests, LruBegin(r) \/ LruHit(r) \/ LruAnswer(r)
        PROVE  LruCounted'
    <2>1. r \in Requests
      BY RequestsAreDistinct
    <2>2. Calling' = Calling
      BY <1>0, <1>5, <2>1, Same DEF LruBegin, LruHit, LruAnswer
    <2> QED
      BY <1>1, <1>5, <2>2 DEF LruBegin, LruHit, LruAnswer, Forget
  <1>6. ASSUME NEW r \in LruRequests, LruMiss(r) PROVE LruCounted'
    <2>1. Calling' = Calling \cup {r} /\ UNCHANGED <<lru, forgotten>>
          /\ lruMisses' = lruMisses + 1
      BY <1>0, <1>6, RequestsAreDistinct DEF LruMiss, Goto, Calling, TypeOK
    <2>2. /\ IsFiniteSet(Calling') /\ Cardinality(Calling') \in Nat
          /\ Cardinality(Calling') <= Cardinality(Calling) + 1
      BY <1>0, <2>1, OneMore
    <2> QED
      BY <1>0, <2>1, <2>2 DEF LruCounted
  <1>7. ASSUME NEW r \in LruRequests, LruInsert(r) PROVE LruCounted'
    <2>1. /\ Calling' = Calling \ {r} /\ r \in Calling
          /\ UNCHANGED <<lruMisses, forgotten>>
      BY <1>0, <1>7, RequestsAreDistinct DEF LruInsert, Goto, Calling, TypeOK
    <2>2. /\ IsFiniteSet(Calling') /\ Cardinality(Calling') = Cardinality(Calling) - 1
      BY <1>0, <2>1, OneLess
    <2>3. Cardinality(lru') \in Nat /\ Cardinality(lru') <= Cardinality(lru) + 1
      <3>1. CASE lru' = lru
        BY <1>0, <3>1
      <3>2. CASE lru' = lru \cup {key[r]}
        BY <1>0, <3>2, OneMore
      <3>3. ASSUME NEW victim \in lru, lru' = (lru \ {victim}) \cup {key[r]}
            PROVE  Cardinality(lru') \in Nat /\ Cardinality(lru') <= Cardinality(lru) + 1
        <4>1. /\ IsFiniteSet(lru \ {victim}) /\ Cardinality(lru \ {victim}) \in Nat
              /\ Cardinality(lru \ {victim}) <= Cardinality(lru)
          BY <1>0, OneLess
        <4>2. /\ Cardinality(lru') \in Nat
              /\ Cardinality(lru') <= Cardinality(lru \ {victim}) + 1
          BY <3>3, <4>1, OneMore
        <4> QED
          BY <1>0, <4>1, <4>2
      <3> QED
        BY <1>7, <3>1, <3>2, <3>3 DEF LruInsert
    <2> QED
      BY <1>0, <2>1, <2>2, <2>3 DEF LruCounted
  <1>8. CASE LruClear
    <2>1. /\ lru' = {} /\ lruMisses' = 0
          /\ Calling' = Calling /\ forgotten' = Calling
      BY <1>8 DEF LruClear, Calling
    <2>2. Cardinality({}) = 0
      BY FS_EmptySet
    <2> QED
      BY <1>0, <2>1, <2>2 DEF LruCounted
  <1>9. CASE Admin \/ (\E k \in Users : Expire(k)) \/ (\E step : AdminBegin(step))
    BY <1>2, <1>9 DEF Admin, StatsSize, StatsCounts, TtlClear, Expire, AdminBegin, lruVars
  <1>10. CASE UNCHANGED vars
    BY <1>2, <1>10 DEF vars, lruVars
  <1> QED
    BY <1>3, <1>4, <1>5, <1>6, <1>7, <1>8, <1>9, <1>10 DEF Next, Begin, LruThread

LEMMA TtlCountedStep ==
    ASSUME TypeInv, LockInv, TtlCounted, [Next]_vars
    PROVE  TtlCounted'
  <1> DEFINE Early == {"new", "queued", "wait"}
  <1>0. /\ TypeOK /\ IsFiniteSet(took) /\ IsFiniteSet(ttl)
        /\ Cardinality(took) \in Nat /\ Cardinality(ttl) \in Nat
        /\ ttlHits \in Nat /\ ttlMisses \in Nat /\ seen \in Nat
        /\ ttlHits + ttlMisses + Cardinality(Querying) = Cardinality(took)
        /\ Cardinality(ttl) <= ttlMisses /\ seen <= ttlMisses
        /\ loop # "counts" => seen = 0
        /\ \A q \in took : pc[q] \notin Early /\ q \in TtlRequests
        /\ pc \in [Requests -> Places]
        /\ Querying \subseteq {lock} /\ (Querying = {} \/ Querying = {lock})
        /\ Cardinality({}) = 0 /\ Cardinality({lock}) = 1 /\ IsFiniteSet({})
    BY QueryHoldsLock, FS_CardinalityType, FS_EmptySet, FS_Singleton
       DEF TypeInv, TypeOK, TtlCounted, TtlCountsCalls, Querying, Places
  <1>1. ASSUME Querying' = Querying, IsFiniteSet(ttl'), Cardinality(ttl') <= ttlMisses',
               UNCHANGED <<ttlHits, ttlMisses, took>>,
               seen' <= ttlMisses', loop' # "counts" => seen' = 0,
               \A q \in took : pc'[q] \notin Early
        PROVE  TtlCounted'
    BY <1>0, <1>1 DEF TtlCounted, TtlCountsCalls, Querying
  <1>2. ASSUME NEW r \in Requests, NEW from, NEW to, Goto(r, from, to),
               r \in LruRequests \/ to \notin {"wait", "query"}, from # "query",
               to \notin {"new", "queued"} \/ from \in Early,
               UNCHANGED ttlVars, loop' = loop \/ (loop' # "counts" /\ loop # "counts")
        PROVE  TtlCounted'
    <2>1. Querying' = Querying
      <3>1. CASE r \in LruRequests
        BY <1>0, <1>2, <3>1, Same
      <3>2. CASE to # "query"
        BY <1>0, <1>2, <3>2, Same
      <3> QED
        BY <1>2, <3>1, <3>2
    <2>2. \A q \in took : pc'[q] \notin Early
      BY <1>0, <1>2, RequestsAreDistinct DEF Goto
    <2> QED
      BY <1>0, <1>1, <1>2, <2>1, <2>2 DEF ttlVars
  <1>3. ASSUME NEW r \in Requests, Start(r) PROVE TtlCounted'
    <2>1. Querying' = Querying
      BY <1>0, <1>3, Same DEF Start
    <2>2. \A q \in took : pc'[q] \notin Early
      BY <1>0, <1>3 DEF Start, Goto
    <2> QED
      BY <1>0, <1>1, <1>3, <2>1, <2>2 DEF Start, ttlVars
  <1>4. ASSUME NEW r \in LruRequests, LruBegin(r) \/ LruThread(r) \/ LruAnswer(r)
        PROVE  TtlCounted'
    <2>1. r \in Requests
      BY RequestsAreDistinct
    <2>2. CASE LruBegin(r)
      <3>1. Goto(r, "new", "queued") /\ UNCHANGED <<ttlVars, loop>>
        BY <2>2 DEF LruBegin
      <3> QED
        BY <1>2, <1>4, <2>1, <3>1
    <2>3. CASE LruThread(r)
      <3>1. UNCHANGED <<ttlVars, loop>>
        BY <2>3 DEF LruThread, LruHit, LruMiss, LruInsert
      <3>2. \/ Goto(r, "lookup", "back") \/ Goto(r, "lookup", "call")
            \/ Goto(r, "call", "back")
        BY <2>3 DEF LruThread, LruHit, LruMiss, LruInsert
      <3> QED
        BY <1>2, <1>4, <2>1, <3>1, <3>2
    <2>4. CASE LruAnswer(r)
      <3>1. Goto(r, "back", "done") /\ UNCHANGED <<ttlVars, loop>>
        BY <2>4 DEF LruAnswer
      <3> QED
        BY <1>2, <1>4, <2>1, <3>1
    <2> QED
      BY <1>4, <2>2, <2>3, <2>4
  <1>5. ASSUME NEW r \in TtlRequests, TtlBegin(r) PROVE TtlCounted'
    <2>1. Goto(r, "new", "queued") /\ UNCHANGED <<ttlVars, loop>> /\ r \in Requests
      BY <1>5, RequestsAreDistinct DEF TtlBegin
    <2> QED
      BY <1>2, <2>1
  <1>6. ASSUME NEW r \in TtlRequests, TtlLoop(r) PROVE TtlCounted'
    <2>1. r \in Requests /\ r \notin {"size", "counts", "clear"}
      BY InProcessAssumption DEF Requests
    <2>2. Nobody # "counts"
      BY InProcessAssumption
    <2> QED
      BY <1>2, <1>6, <2>1, <2>2 DEF TtlLoop, TtlResume, TtlAnswer, TtlRaise
  <1>7. ASSUME NEW r \in TtlRequests, Acquire(r) PROVE TtlCounted'
    <2>1. r \in Requests /\ r # Nobody /\ pc[r] = "wait" /\ r \notin took
      BY <1>0, <1>7, RequestsAreDistinct DEF Acquire, Goto
    <2>2. IsFiniteSet(took') /\ Cardinality(took') = Cardinality(took) + 1
      BY <1>0, <1>7, <2>1, OneMore DEF Acquire
    <2>3. Querying = {}
      BY <1>0, <1>7, RequestsAreDistinct DEF Acquire, Querying
    <2>4. Querying' = IF key[r] \in ttl THEN {} ELSE {r}
      BY <1>0, <1>7, <2>1, <2>3 DEF Acquire, Goto, Querying
    <2>5. Cardinality({r}) = 1
      BY FS_Singleton
    <2>6. ttlHits' + ttlMisses' + Cardinality(Querying') = Cardinality(took')
      BY <1>0, <1>7, <2>2, <2>3, <2>4, <2>5 DEF Acquire
    <2>7. \A q \in took' : pc'[q] \notin Early
      BY <1>0, <1>7, <2>1 DEF Acquire, Goto
    <2>8. UNCHANGED <<ttl, ttlMisses, seen, loop>>
      BY <1>7 DEF Acquire
    <2> QED
      BY <1>0, <2>2, <2>6, <2>7, <2>8 DEF TtlCounted, TtlCountsCalls, Querying
  <1>8. ASSUME NEW r \in TtlRequests, TtlRead(r) \/ TtlGone(r) PROVE TtlCounted'
    <2>1. r \in Requests
      BY RequestsAreDistinct
    <2>2. Querying' = Querying
      BY <1>0, <1>8, <2>1, Same DEF TtlRead, TtlGone
    <2>3. \A q \in took : pc'[q] \notin Early
      BY <1>0, <1>8, <2>1, RequestsAreDistinct DEF TtlRead, TtlGone, Goto
    <2> QED
      BY <1>0, <1>1, <1>8, <2>2, <2>3 DEF TtlRead, TtlGone
  <1>9. ASSUME NEW r \in TtlRequests, TtlStore(r) PROVE TtlCounted'
    <2>1. r \in Requests
      BY RequestsAreDistinct
    <2>2. Querying = {r} /\ Querying' = {}
      BY <1>0, <1>9, <2>1 DEF TtlStore, Goto, Querying
    <2>3. Cardinality({r}) = 1
      BY FS_Singleton
    <2>4. /\ Cardinality(ttl') \in Nat
          /\ Cardinality(ttl') <= Cardinality(ttl) + 1
      BY <1>0, <1>9, OneMore DEF TtlStore
    <2>5. UNCHANGED <<took, ttlHits, seen, loop>> /\ ttlMisses' = ttlMisses + 1
      BY <1>9 DEF TtlStore
    <2>6. \A q \in took : pc'[q] \notin Early
      BY <1>0, <1>9, <2>1 DEF TtlStore, Goto
    <2>7. ttlHits' + ttlMisses' + Cardinality(Querying') = Cardinality(took')
      BY <1>0, <2>2, <2>3, <2>5
    <2> QED
      BY <1>0, <2>4, <2>5, <2>6, <2>7 DEF TtlCounted, TtlCountsCalls, Querying
  <1>10. CASE LruClear \/ UNCHANGED vars
    BY <1>0, <1>1, <1>10 DEF LruClear, ttlVars, vars, Querying
  <1>11. ASSUME NEW k \in Users, Expire(k) PROVE TtlCounted'
    <2>1. IsFiniteSet(ttl') /\ Cardinality(ttl') \in Nat
          /\ Cardinality(ttl') <= Cardinality(ttl)
      BY <1>0, <1>11, OneLess DEF Expire
    <2> QED
      BY <1>0, <1>1, <1>11, <2>1 DEF Expire, Querying
  <1>12. ASSUME NEW step \in {"size", "clear"}, AdminBegin(step) PROVE TtlCounted'
    <2>1. Nobody # "counts"
      BY InProcessAssumption
    <2> QED
      BY <1>0, <1>1, <1>12, <2>1 DEF AdminBegin, ttlVars, Querying
  <1>13. CASE StatsSize \/ StatsCounts
    BY <1>0, <1>1, <1>13 DEF StatsSize, StatsCounts, Querying
  <1>14. CASE TtlClear
    <2>1. Querying' = {}
      BY <1>0, <1>14, RequestsAreDistinct DEF TtlClear, Querying
    <2>2. /\ took' = {} /\ ttl' = {} /\ ttlHits' = 0 /\ ttlMisses' = 0
          /\ seen' = 0
      BY <1>0, <1>14 DEF TtlClear
    <2> QED
      BY <1>0, <2>1, <2>2 DEF TtlCounted, TtlCountsCalls, Querying
  <1> QED
    BY <1>3, <1>4, <1>5, <1>6, <1>7, <1>8, <1>9, <1>10, <1>11, <1>12, <1>13, <1>14
       DEF Next, Begin, TtlThread, Admin

(* What the two /stats endpoints report adds up in every reachable state.    *)
THEOREM CountersAreHonest == Spec => []CountersAddUp
  <1>1. Init => TtlCounted /\ LruCounted
    <2> SUFFICES ASSUME Init PROVE TtlCounted /\ LruCounted
      OBVIOUS
    <2>1. Querying = {} /\ Calling = {}
      BY RequestsAreDistinct DEF Init, Querying, Calling
    <2>2. IsFiniteSet({}) /\ Cardinality({}) = 0
      BY FS_EmptySet
    <2>3. TtlCounted
      <3>1. /\ took = {} /\ ttl = {} /\ ttlHits = 0 /\ ttlMisses = 0 /\ seen = 0
        BY DEF Init
      <3>2. ttlHits + ttlMisses + Cardinality(Querying) = Cardinality(took)
        BY <2>1, <2>2, <3>1
      <3> QED
        BY <2>2, <3>1, <3>2 DEF TtlCounted, TtlCountsCalls, Querying
    <2>4. LruCounted
      BY <2>1, <2>2 DEF Init, LruCounted
    <2> QED
      BY <2>3, <2>4
  <1>2. TypeInv /\ LockInv /\ TtlCounted /\ LruCounted /\ [Next]_vars
            => (TtlCounted /\ LruCounted)'
    BY TtlCountedStep, LruCountedStep
  <1>3. TypeInv /\ TtlCounted /\ LruCounted => CountersAddUp
    <2> SUFFICES ASSUME TypeInv, TtlCounted, LruCounted PROVE CountersAddUp
      OBVIOUS
    <2>1. /\ Cardinality(lru) \in Nat /\ Cardinality(Calling) \in Nat
          /\ lruMisses \in Nat
      BY FS_CardinalityType DEF TypeInv, TypeOK, LruCounted
    <2>2. Cardinality(lru) <= lruMisses + Cardinality(forgotten)
      BY <2>1 DEF LruCounted
    <2> QED
      BY <2>2 DEF TtlCounted, CountersAddUp, SizesAreCounted
  <1> QED
    BY <1>1, <1>2, <1>3, TypeInvHolds, LockInvHolds, PTL DEF Spec

----------------------------------------------------------------------------
(* Who can take a step, as the guards of the actions have it: a thread, the  *)
(* call at the head of the queue, a request in the loop, GET /stats or       *)
(* DELETE /cache in the loop.                                                *)
ThreadMoves(r) ==
    \/ r \in LruRequests /\ pc[r] \in {"lookup", "call"}
    \/ r \in TtlRequests /\ pc[r] \in {"read", "query"}
    \/ r \in TtlRequests /\ pc[r] = "wait" /\ lock = Nobody
StartsNext(r) ==
    /\ queue # <<>> /\ Head(queue) = r /\ pc[r] = "queued"
    /\ Cardinality({q \in Requests : InThread(q)}) < POOL
LoopMoves(r) ==
    \/ loop = Nobody /\ pc[r] = "back"
    \/ loop = Nobody /\ pc[r] = "raised" /\ r \in TtlRequests
    \/ loop = r /\ pc[r] = "size" /\ r \in TtlRequests /\ lock = Nobody
AdminMoves == loop = "counts" \/ (loop \in {"size", "clear"} /\ lock = Nobody)

SomebodyMoves ==
    loop # Nobody \/ (\E r \in Requests : pc[r] \notin {"new", "done"}) =>
        AdminMoves \/ \E r \in Requests : ThreadMoves(r) \/ StartsNext(r) \/ LoopMoves(r)

(* The request that blocks the loop is at its size, and each request keeps   *)
(* to the places of its own router.                                          *)
PlacesInv ==
    \A r \in Requests :
        /\ loop = r <=> pc[r] = "size"
        /\ r \in LruRequests => pc[r] \notin {"wait", "read", "query", "size", "raised"}
        /\ r \in TtlRequests => pc[r] \notin {"lookup", "call"}

LEMMA PlacesStep ==
    ASSUME TypeOK, PlacesInv, [Next]_vars
    PROVE  PlacesInv'
  <1> SUFFICES ASSUME NEW s \in Requests
               PROVE  /\ loop' = s <=> pc'[s] = "size"
                      /\ s \in LruRequests =>
                             pc'[s] \notin {"wait", "read", "query", "size", "raised"}
                      /\ s \in TtlRequests => pc'[s] \notin {"lookup", "call"}
    BY DEF PlacesInv
  <1> DEFINE Goal == /\ loop' = s <=> pc'[s] = "size"
                     /\ s \in LruRequests =>
                            pc'[s] \notin {"wait", "read", "query", "size", "raised"}
                     /\ s \in TtlRequests => pc'[s] \notin {"lookup", "call"}
  <1>0. /\ loop = s <=> pc[s] = "size"
        /\ s \in LruRequests => pc[s] \notin {"wait", "read", "query", "size", "raised"}
        /\ s \in TtlRequests => pc[s] \notin {"lookup", "call"}
        /\ s # Nobody /\ s \notin {"size", "counts", "clear"}
        /\ Nobody \notin {"size", "counts", "clear"}
        /\ ~(s \in LruRequests /\ s \in TtlRequests)
        /\ pc \in [Requests -> Places]
    BY InProcessAssumption DEF PlacesInv, TypeOK, Places
  <1> USE DEF Goto, ttlVars
  <1>1. ASSUME NEW r \in Requests, Start(r) PROVE Goal
    BY <1>0, <1>1 DEF Start
  <1>2. ASSUME NEW r \in LruRequests, LruBegin(r) \/ LruThread(r) \/ LruAnswer(r)
        PROVE  Goal
    <2>1. r \in Requests
      BY RequestsAreDistinct
    <2> QED
      BY <1>0, <1>2, <2>1
         DEF LruBegin, LruThread, LruHit, LruMiss, LruInsert, LruAnswer
  <1>3. ASSUME NEW r \in TtlRequests, TtlBegin(r) \/ TtlThread(r) \/ TtlLoop(r)
        PROVE  Goal
    <2>1. r \in Requests
      BY RequestsAreDistinct
    <2>2. CASE TtlBegin(r)
      BY <1>0, <2>1, <2>2 DEF TtlBegin
    <2>3. CASE TtlThread(r)
      BY <1>0, <2>1, <2>3 DEF TtlThread, Acquire, TtlRead, TtlGone, TtlStore
    <2>4. CASE TtlLoop(r)
      BY <1>0, <2>1, <2>4 DEF TtlLoop, TtlResume, TtlAnswer, TtlRaise
    <2> QED
      BY <1>3, <2>2, <2>3, <2>4
  <1>4. CASE Admin
    BY <1>0, <1>4 DEF Admin, StatsSize, StatsCounts, TtlClear
  <1>5. ASSUME NEW step \in {"size", "clear"}, AdminBegin(step) PROVE Goal
    BY <1>0, <1>5 DEF AdminBegin
  <1>6. CASE LruClear \/ (\E k \in Users : Expire(k)) \/ UNCHANGED vars
    BY <1>0, <1>6 DEF LruClear, Expire, vars
  <1> QED
    BY <1>1, <1>2, <1>3, <1>4, <1>5, <1>6 DEF Next, Begin

(* No deadlock: while a request is under way, or the loop is blocked, one of *)
(* them can take a step, whatever waits for the lock, in the pool or in the  *)
(* loop, and however few the threads are. Whoever holds the lock waits for   *)
(* nobody, and the loop is blocked only by who waits for that lock.          *)
THEOREM NobodyIsStuck == Spec => []SomebodyMoves
  <1>1. Init => PlacesInv
    BY InProcessAssumption DEF Init, PlacesInv
  <1>2. TypeInv /\ LockInv /\ PlacesInv => SomebodyMoves
    <2> SUFFICES ASSUME TypeInv, LockInv, PlacesInv,
                        loop # Nobody \/ \E r \in Requests : pc[r] \notin {"new", "done"}
                 PROVE  \/ AdminMoves
                        \/ \E r \in Requests : ThreadMoves(r) \/ StartsNext(r) \/ LoopMoves(r)
      BY DEF SomebodyMoves
    <2>0. /\ TypeOK /\ QueueOK
          /\ pc \in [Requests -> Places] /\ queue \in Seq(Requests)
          /\ loop \in TtlRequests \cup {Nobody, "size", "counts", "clear"}
          /\ lock \in TtlRequests \cup {Nobody} /\ TtlRequests \subseteq Requests
      BY DEF TypeInv, TypeOK, Requests, Places
    <2>1. CASE lock # Nobody
      <3>1. lock \in TtlRequests /\ pc[lock] \in {"read", "query"}
        BY <2>0, <2>1 DEF LockInv
      <3> QED
        BY <2>0, <3>1 DEF ThreadMoves
    <2>2. CASE lock = Nobody /\ loop # Nobody
      BY <2>0, <2>2 DEF AdminMoves, LoopMoves, PlacesInv
    <2>3. CASE lock = Nobody /\ loop = Nobody
      <3>1. ASSUME NEW r \in Requests, InThread(r) PROVE ThreadMoves(r)
        BY <2>3, <3>1 DEF InThread, ThreadMoves, PlacesInv, Requests
      <3>2. PICK r \in Requests : pc[r] \notin {"new", "done"}
        BY <2>3
      <3>3. pc[r] # "size"
        BY <2>3, InProcessAssumption DEF PlacesInv
      <3>4. CASE InThread(r)
        BY <3>1, <3>4
      <3>5. CASE pc[r] \in {"back", "raised"}
        BY <2>3, <3>5 DEF LoopMoves, PlacesInv, Requests
      <3>6. CASE pc[r] = "queued"
        <4>1. CASE \E q \in Requests : InThread(q)
          BY <3>1, <4>1
        <4>2. CASE ~ \E q \in Requests : InThread(q)
          <5>1. Cardinality({q \in Requests : InThread(q)}) < POOL
            <6>1. {q \in Requests : InThread(q)} = {}
              BY <4>2
            <6>2. Cardinality({}) = 0
              BY FS_EmptySet
            <6> QED
              BY <6>1, <6>2, InProcessAssumption
          <5>2. queue # <<>>
            BY <2>0, <3>6 DEF QueueOK, Queued
          <5>3. Head(queue) \in Requests /\ Head(queue) = queue[1] /\ 1 \in DOMAIN queue
            BY <2>0, <5>2
          <5>4. pc[Head(queue)] = "queued"
            BY <5>3 DEF QueueOK, Queued, TypeInv
          <5> QED
            BY <5>1, <5>2, <5>3, <5>4 DEF StartsNext
        <4> QED
          BY <4>1, <4>2
      <3> QED
        BY <2>0, <3>2, <3>3, <3>4, <3>5, <3>6 DEF Places, InThread
    <2> QED
      BY <2>1, <2>2, <2>3
  <1> QED
    BY <1>1, <1>2, PlacesStep, TypeInvHolds, TypeCorrect, LockInvHolds, PTL DEF Spec

----------------------------------------------------------------------------
(* NegativeCache.                                                            *)

(* Which request is of which kind.                                           *)
LEMMA NCKinds ==
    /\ Creates \subseteq Clients /\ Lookups \subseteq Clients /\ Deletes \subseteq Clients
    /\ Clients \subseteq Callers /\ Admins \subseteq Callers
    /\ Inits \subseteq Admins /\ Resets \subseteq Admins
    /\ Clients \cap Admins = {}
  BY NegativeCacheAssumption DEF Clients, Admins, Callers

LEMMA SeedDBTyped == SeedDB \in [Ids -> Rows \cup {NoRow}]
  BY DEF SeedDB, Rows

LEMMA SetEntryTyped ==
    ASSUME NCTypeOK, NEW r \in Clients, SetEntry(r)
    PROVE  /\ cache' \in [Ids -> Rows \cup {NoRow, NoEntry}]
           /\ raced' \in [Ids -> BOOLEAN]
  <1>1. id[r] \in Ids /\ val[r] \in Rows \cup {NoRow}
    BY DEF NCTypeOK
  <1>2. cache' \in [Ids -> Rows \cup {NoRow, NoEntry}]
    BY <1>1 DEF SetEntry, NCTypeOK
  <1>3. raced' \in [Ids -> BOOLEAN]
    BY <1>1 DEF SetEntry, NCTypeOK
  <1> QED
    BY <1>2, <1>3

LEMMA DropEntriesTyped ==
    ASSUME NCTypeOK, NEW dropped, DropEntries(dropped)
    PROVE  /\ cache' \in [Ids -> Rows \cup {NoRow, NoEntry}]
           /\ raced' \in [Ids -> BOOLEAN]
  <1>1. cache' \in [Ids -> Rows \cup {NoRow, NoEntry}]
    BY DEF DropEntries, NCTypeOK
  <1>2. raced' \in [Ids -> BOOLEAN]
    BY Zenon DEF DropEntries, NCTypeOK
  <1> QED
    BY <1>1, <1>2

LEMMA MoveTyped ==
    ASSUME NCTypeOK, NEW r \in Callers, NEW from,
           NEW to \in {"get", "db", "store", "add", "evict", "put", "mark", "scan", "drop",
                       "clear", "reserve", "collect", "fill", "done"},
           Move(r, from, to)
    PROVE  phase' \in [Callers -> {"new", "get", "db", "store", "add", "evict", "put", "mark",
                                   "scan", "drop", "clear", "reserve", "collect", "fill", "done"}]
  BY DEF Move, NCTypeOK

LEMMA FaultTyped ==
    ASSUME NCTypeOK, faults < MaxFaults, faults' = faults + 1
    PROVE  faults' \in 0 .. MaxFaults
  BY NegativeCacheAssumption DEF NCTypeOK

LEMMA LookupTyped ==
    ASSUME NCTypeOK, NEW r \in Lookups, Lookup(r)
    PROVE  NCTypeOK'
  <1> USE DEF users, bloom
  <1>1. r \in Clients /\ r \in Callers
    BY NCKinds
  <1>2. CASE Block(r) \/ Pass(r) \/ Hit(r) \/ Miss(r)
    <2>1. /\ \E from, to \in {"new", "get", "db", "done"} : to # "new" /\ Move(r, from, to)
          /\ UNCHANGED <<db, next, made, filter, cache, id, val, keys, faults, raced, holes>>
      BY <1>2 DEF Block, Pass, Hit, Miss
    <2> QED
      BY <1>1, <2>1, MoveTyped DEF NCTypeOK
  <1>3. CASE Fetch(r)
    <2>1. db[id[r]] \in Rows \cup {NoRow}
      BY <1>1 DEF NCTypeOK
    <2> QED
      BY <1>1, <1>3, <2>1, MoveTyped DEF Fetch, NCTypeOK
  <1>4. CASE Store(r)
    BY <1>1, <1>4, MoveTyped, SetEntryTyped DEF Store, NCTypeOK
  <1> QED
    BY <1>2, <1>3, <1>4 DEF Lookup

LEMMA CreateTyped ==
    ASSUME NCTypeOK, NEW r \in Creates, Create(r)
    PROVE  NCTypeOK'
  <1> USE DEF users, bloom
  <1>1. r \in Clients /\ r \in Callers /\ r \in Rows
    BY NCKinds DEF Rows
  <1>2. id[r] \in Ids
    BY <1>1 DEF NCTypeOK
  <1>3. CASE Insert(r)
    <2>1. next' \in Seeds + 1 .. MaxId + 1
      BY <1>3, NegativeCacheAssumption DEF Insert, NCTypeOK, Ids
    <2>2. /\ db' \in [Ids -> Rows \cup {NoRow}]
          /\ id' \in [Clients -> Ids]
          /\ val' \in [Clients -> Rows \cup {NoRow}]
      BY <1>1, <1>3 DEF Insert, NCTypeOK
    <2> QED
      BY <1>1, <1>3, <2>1, <2>2, MoveTyped DEF Insert, NCTypeOK
  <1>4. CASE Add(r)
    BY <1>1, <1>2, <1>4, MoveTyped DEF Add, NCTypeOK
  <1>5. CASE AddFails(r)
    BY <1>1, <1>2, <1>5, MoveTyped, FaultTyped DEF AddFails, NCTypeOK
  <1>6. CASE Evict(r)
    BY <1>1, <1>6, MoveTyped, DropEntriesTyped DEF Evict, NCTypeOK
  <1>7. CASE Put(r)
    BY <1>1, <1>7, MoveTyped, SetEntryTyped DEF Put, NCTypeOK
  <1> QED
    BY <1>3, <1>4, <1>5, <1>6, <1>7 DEF Create

LEMMA DeleteTyped ==
    ASSUME NCTypeOK, NEW r \in Deletes, Delete(r)
    PROVE  NCTypeOK'
  <1> USE DEF users, bloom
  <1>1. r \in Clients /\ r \in Callers
    BY NCKinds
  <1>2. CASE Remove(r)
    BY <1>1, <1>2, MoveTyped DEF Remove, NCTypeOK
  <1>3. CASE Mark(r)
    BY <1>1, <1>3, MoveTyped, SetEntryTyped DEF Mark, NCTypeOK
  <1> QED
    BY <1>2, <1>3 DEF Delete

LEMMA AdministerTyped ==
    ASSUME NCTypeOK, NEW a \in Admins, Administer(a)
    PROVE  NCTypeOK'
  <1> USE DEF users, bloom
  <1>1. a \in Callers /\ keys[a] \subseteq Ids
    BY NCKinds DEF NCTypeOK
  <1>2. CASE Scan(a)
    BY <1>1, <1>2, MoveTyped DEF Scan, NCTypeOK
  <1>3. CASE Drop(a)
    BY <1>1, <1>3, MoveTyped, DropEntriesTyped DEF Drop, NCTypeOK
  <1>4. CASE Clear(a)
    BY <1>1, <1>4, MoveTyped DEF Clear, NCTypeOK
  <1>5. CASE Reserve(a)
    BY <1>1, <1>5, MoveTyped DEF Reserve, NCTypeOK
  <1>6. CASE ReserveFails(a)
    BY <1>1, <1>6, MoveTyped, FaultTyped DEF ReserveFails, NCTypeOK
  <1>7. CASE Collect(a)
    BY <1>1, <1>7, MoveTyped DEF Collect, NCTypeOK
  <1>8. CASE Fill(a)
    <2>1. made' \in BOOLEAN
      BY <1>8, Zenon DEF Fill, NCTypeOK
    <2> QED
      BY <1>1, <1>8, <2>1, MoveTyped DEF Fill, NCTypeOK
  <1>9. CASE FillFails(a)
    BY <1>1, <1>9, MoveTyped, FaultTyped DEF FillFails, NCTypeOK
  <1>10. CASE AdminFails(a)
    <2>1. raced' \in [Ids -> BOOLEAN]
      BY <1>10, Zenon DEF AdminFails, NCTypeOK
    <2> QED
      BY <1>1, <1>10, <2>1, FaultTyped DEF AdminFails, NCTypeOK
  <1> QED
    BY <1>2, <1>3, <1>4, <1>5, <1>6, <1>7, <1>8, <1>9, <1>10 DEF Administer

LEMMA FailTyped ==
    ASSUME NCTypeOK, NEW r \in Clients, Fail(r)
    PROVE  NCTypeOK'
  <1> DEFINE late == phase[r] \in {"evict", "put", "mark"}
  <1>1. r \in Callers /\ id[r] \in Ids
    BY NCKinds DEF NCTypeOK
  <1>2. raced' = [raced EXCEPT ![id[r]] = raced[id[r]] \/ late]
    BY DEF Fail
  <1> HIDE DEF late
  <1>3. raced' \in [Ids -> BOOLEAN]
    BY <1>2, Zenon DEF NCTypeOK
  <1> QED
    BY <1>1, <1>3, FaultTyped DEF Fail, NCTypeOK, users, bloom

LEMMA NCTypeStep ==
    ASSUME NCTypeOK, [NCNext]_ncVars
    PROVE  NCTypeOK'
  <1>1. ASSUME NEW a \in Resets, Reset(a) PROVE NCTypeOK'
    <2>1. a \in Callers /\ next' \in Seeds + 1 .. MaxId + 1
      BY <1>1, NCKinds, NegativeCacheAssumption DEF Reset
    <2> QED
      BY <1>1, <2>1, MoveTyped, SeedDBTyped DEF Reset, NCTypeOK, users, bloom
  <1>2. ASSUME NEW i \in Ids, Lapse(i) PROVE NCTypeOK'
    BY <1>2, DropEntriesTyped DEF Lapse, NCTypeOK, users, bloom, client
  <1>3. CASE Crash
    <2>1. next' \in Seeds + 1 .. MaxId + 1
      BY <1>3, NegativeCacheAssumption DEF Crash
    <2> QED
      BY <1>3, <2>1, SeedDBTyped, FaultTyped DEF Crash, NCTypeOK, bloom
  <1>4. CASE UNCHANGED ncVars
    BY <1>4 DEF ncVars, NCTypeOK, users, bloom, client
  <1> QED
    BY <1>1, <1>2, <1>3, <1>4, LookupTyped, CreateTyped, DeleteTyped, AdministerTyped,
       FailTyped DEF NCNext

LEMMA NCTypeInit == NCInit => NCTypeOK
  <1> SUFFICES ASSUME NCInit PROVE NCTypeOK
    OBVIOUS
  <1>1. next \in Seeds + 1 .. MaxId + 1 /\ 0 \in 0 .. MaxFaults /\ 1 .. Seeds \subseteq Ids
    BY NegativeCacheAssumption DEF NCInit, Ids
  <1>2. id \in [Clients -> Ids]
    BY DEF NCInit
  <1> QED
    BY <1>1, <1>2, SeedDBTyped DEF NCInit, NCTypeOK

(* The type invariant.                                                       *)
THEOREM NCTypeCorrect == NCSpec => []NCTypeOK
  BY NCTypeInit, NCTypeStep, PTL DEF NCSpec

----------------------------------------------------------------------------
(* An id is in the filter, known to be missing, about to be added, or about  *)
(* to be collected or filled in by an administrator.                         *)
Covered(i) ==
    \/ i \in filter
    \/ i \in holes
    \/ \E r \in Creates : phase[r] = "add" /\ id[r] = i
    \/ \E a \in Admins : phase[a] \in {"scan", "drop", "clear", "reserve", "collect"}
    \/ \E a \in Admins : phase[a] = "fill" /\ i \in keys[a]

(* While there is a filter, or somebody is about to fill one, every user is  *)
(* covered.                                                                  *)
FilterCovers ==
    made \/ (\E a \in Admins : phase[a] = "fill") =>
        \A i \in Ids : db[i] # NoRow => Covered(i)

(* Who answers for a wrong entry: its outdated store, the client that is to  *)
(* correct it, or an administrator that will scan it or is about to drop it. *)
Answered(i) ==
    \/ raced[i]
    \/ \E r \in Creates : id[r] = i /\ phase[r] \in {"add", "evict", "put"}
    \/ \E r \in Deletes : id[r] = i /\ phase[r] = "mark"
    \/ \E a \in Admins : phase[a] = "scan"
    \/ \E a \in Admins : phase[a] = "drop" /\ i \in keys[a]

WrongIsAnswered == \A i \in Ids : cache[i] \notin {NoEntry, db[i]} => Answered(i)

LEMMA MoveEffect ==
    ASSUME NCTypeOK, NEW r \in Callers, NEW from, NEW to, Move(r, from, to)
    PROVE  /\ phase[r] = from /\ phase'[r] = to
           /\ \A q \in Callers : q # r => phase'[q] = phase[q]
  BY DEF Move, NCTypeOK

(* Steps that neither make a user nor uncover one.                           *)
LEMMA CoverKept ==
    ASSUME FilterCovers, made' => made,
           \A a \in Admins : phase'[a] = "fill" => phase[a] = "fill",
           \A i \in Ids : db'[i] # NoRow => db[i] # NoRow,
           \A i \in Ids : Covered(i) => Covered(i)'
    PROVE  FilterCovers'
  BY DEF FilterCovers

(* The clients' steps that are not part of a POST.                           *)
LEMMA CoverClient ==
    ASSUME NCTypeOK, FilterCovers, NEW r \in Clients,
           phase[r] # "add" \/ r \notin Creates,
           \A q \in Callers : q # r => phase'[q] = phase[q],
           UNCHANGED <<made, filter, holes, id, keys>>,
           \A i \in Ids : db'[i] # NoRow => db[i] # NoRow
    PROVE  FilterCovers'
  <1>1. /\ \A a \in Admins : phase'[a] = phase[a]
        /\ \A q \in Creates : phase[q] = "add" => phase'[q] = "add"
    BY NCKinds
  <1>2. \A i \in Ids : Covered(i) => Covered(i)'
    BY <1>1 DEF Covered
  <1> QED
    BY <1>1, <1>2, CoverKept

LEMMA CoverCreate ==
    ASSUME NCTypeOK, FilterCovers, NEW r \in Creates, Create(r)
    PROVE  FilterCovers'
  <1> USE DEF users, bloom
  <1>1. r \in Clients /\ r \in Callers /\ id[r] \in Ids
    BY NCKinds DEF NCTypeOK
  <1>2. CASE Insert(r)
    <2>1. /\ phase[r] = "new" /\ phase'[r] = "add"
          /\ \A q \in Callers : q # r => phase'[q] = phase[q]
      BY <1>1, <1>2, MoveEffect DEF Insert
    <2>2. /\ next \in Ids
          /\ id' = [id EXCEPT ![r] = next] /\ db' = [db EXCEPT ![next] = r]
          /\ UNCHANGED <<made, filter, holes, keys>>
      BY <1>2 DEF Insert
    <2>3. id'[r] = next /\ \A q \in Clients : q # r => id'[q] = id[q]
      BY <1>1, <2>2 DEF NCTypeOK
    <2>4. \A i \in Ids : i # next => db'[i] = db[i]
      BY <2>2 DEF NCTypeOK
    <2>5. \A a \in Admins : phase'[a] = phase[a]
      BY <1>1, <2>1, NCKinds
    <2>6. ASSUME NEW i \in Ids, Covered(i) PROVE Covered(i)'
      <3>1. ASSUME NEW q \in Creates, phase[q] = "add", id[q] = i
            PROVE  phase'[q] = "add" /\ id'[q] = i
        <4>1. q # r /\ q \in Clients /\ q \in Callers
          BY <2>1, <3>1, NCKinds
        <4> QED
          BY <2>1, <2>3, <3>1, <4>1
      <3>2. CASE \E q \in Creates : phase[q] = "add" /\ id[q] = i
        BY <3>1, <3>2 DEF Covered
      <3>3. CASE ~ \E q \in Creates : phase[q] = "add" /\ id[q] = i
        BY <2>2, <2>5, <2>6, <3>3 DEF Covered
      <3> QED
        BY <3>2, <3>3
    <2>7. ASSUME NEW i \in Ids, i = next PROVE Covered(i)'
      BY <2>1, <2>3, <2>7 DEF Covered
    <2> QED
      BY <2>2, <2>4, <2>5, <2>6, <2>7 DEF FilterCovers
  <1>3. CASE Add(r)
    <2>1. /\ phase[r] = "add" /\ \A q \in Callers : q # r => phase'[q] = phase[q]
          /\ UNCHANGED <<db, id, keys>>
      BY <1>1, <1>3, MoveEffect DEF Add
    <2>2. \A a \in Admins : phase'[a] = phase[a]
      BY <1>1, <2>1, NCKinds
    <2>3. filter' = filter \cup {id[r]}
      BY <1>3 DEF Add
    <2>4. CASE made
      <3>1. holes' = holes \ {id[r]} /\ made'
        BY <1>3, <2>4 DEF Add
      <3>2. ASSUME NEW i \in Ids, Covered(i) PROVE Covered(i)'
        <4>1. CASE i = id[r]
          BY <2>3, <4>1 DEF Covered
        <4>2. CASE i # id[r]
          <5>1. ASSUME NEW q \in Creates, phase[q] = "add", id[q] = i
                PROVE  phase'[q] = "add" /\ id'[q] = i
            BY <2>1, <4>2, <5>1, NCKinds
          <5> QED
            BY <2>1, <2>2, <2>3, <3>1, <3>2, <4>2, <5>1 DEF Covered
        <4> QED
          BY <4>1, <4>2
      <3> QED
        BY <2>1, <2>2, <2>4, <3>2, CoverKept
    <2>5. CASE ~made
      <3>1. holes' = Ids \ {id[r]}
        BY <1>3, <2>5 DEF Add
      <3>2. \A i \in Ids : Covered(i)'
        BY <2>3, <3>1 DEF Covered
      <3> QED
        BY <3>2 DEF FilterCovers
    <2> QED
      BY <2>4, <2>5
  <1>4. CASE AddFails(r)
    <2>1. /\ phase[r] = "add" /\ \A q \in Callers : q # r => phase'[q] = phase[q]
          /\ UNCHANGED <<db, made, filter, id, keys>>
          /\ holes' = holes \cup ({id[r]} \ filter)
      BY <1>1, <1>4, MoveEffect DEF AddFails
    <2>2. \A a \in Admins : phase'[a] = phase[a]
      BY <1>1, <2>1, NCKinds
    <2>3. ASSUME NEW i \in Ids, Covered(i) PROVE Covered(i)'
      <3>1. CASE i = id[r]
        BY <2>1, <3>1 DEF Covered
      <3>2. CASE i # id[r]
        <4>1. ASSUME NEW q \in Creates, phase[q] = "add", id[q] = i
              PROVE  phase'[q] = "add" /\ id'[q] = i
          BY <2>1, <3>2, <4>1, NCKinds
        <4> QED
          BY <2>1, <2>2, <2>3, <3>2, <4>1 DEF Covered
      <3> QED
        BY <3>1, <3>2
    <2> QED
      BY <2>1, <2>2, <2>3, CoverKept
  <1>5. CASE Evict(r) \/ Put(r)
    <2>1. /\ phase[r] \in {"evict", "put"}
          /\ \A q \in Callers : q # r => phase'[q] = phase[q]
      BY <1>1, <1>5, MoveEffect DEF Evict, Put
    <2>2. UNCHANGED <<db, made, filter, holes, id, keys>>
      BY <1>5 DEF Evict, Put
    <2> QED
      BY <1>1, <2>1, <2>2, CoverClient
  <1> QED
    BY <1>2, <1>3, <1>4, <1>5 DEF Create

(* A rebuild covers every user from its beginning to its end: until it       *)
(* collects by being ahead, then by what it has collected, at last in the    *)
(* filter; one that fails leaves holes.                                      *)
LEMMA CoverAdminister ==
    ASSUME NCTypeOK, FilterCovers, NEW a \in Admins, Administer(a)
    PROVE  FilterCovers'
  <1> USE DEF users, bloom
  <1>1. a \in Callers /\ a \notin Creates
    BY NCKinds
  <1>2. CASE Scan(a) \/ Drop(a) \/ Clear(a) \/ Reserve(a) \/ ReserveFails(a)
    <2>1. phase'[a] \in {"drop", "clear", "reserve", "collect"}
      <3>1. PICK from, to \in {"new", "scan", "drop", "clear", "reserve", "collect"} :
              to \notin {"new", "scan"} /\ Move(a, from, to)
        BY <1>2 DEF Scan, Drop, Clear, Reserve, ReserveFails
      <3> QED
        BY <1>1, <3>1, MoveEffect
    <2>2. \A i \in Ids : Covered(i)'
      BY <2>1 DEF Covered
    <2> QED
      BY <2>2 DEF FilterCovers
  <1>3. CASE Collect(a)
    <2>1. phase'[a] = "fill"
      BY <1>1, <1>3, MoveEffect DEF Collect
    <2>2. db' = db /\ keys'[a] = {i \in Ids : db[i] # NoRow}
      BY <1>3 DEF Collect, NCTypeOK
    <2>3. \A i \in Ids : db'[i] # NoRow => Covered(i)'
      BY <2>1, <2>2 DEF Covered
    <2> QED
      BY <2>3 DEF FilterCovers
  <1>4. CASE Fill(a)
    <2>1. /\ phase[a] = "fill" /\ \A q \in Callers : q # a => phase'[q] = phase[q]
          /\ filter' = filter \cup keys[a] /\ holes' = holes \ keys[a]
          /\ \A c \in Admins : c # a => keys'[c] = keys[c]
          /\ UNCHANGED <<db, id>>
      BY <1>1, <1>4, MoveEffect DEF Fill, NCTypeOK
    <2>2. ASSUME NEW i \in Ids, Covered(i) PROVE Covered(i)'
      <3>1. CASE i \in filter \cup keys[a]
        BY <2>1, <3>1 DEF Covered
      <3>2. CASE i \notin filter \cup keys[a]
        <4>1. ASSUME NEW q \in Creates PROVE phase'[q] = phase[q]
          BY <1>1, <2>1, NCKinds
        <4>2. ASSUME NEW c \in Admins, c # a PROVE phase'[c] = phase[c]
          BY <2>1, <4>2, NCKinds
        <4> QED
          BY <2>1, <2>2, <3>2, <4>1, <4>2 DEF Covered
      <3> QED
        BY <3>1, <3>2
    <2> QED
      BY <2>1, <2>2 DEF FilterCovers
  <1>5. CASE FillFails(a) \/ AdminFails(a)
    <2>1. holes' = Ids \ filter /\ filter' = filter
      BY <1>5 DEF FillFails, AdminFails
    <2>2. \A i \in Ids : Covered(i)'
      BY <2>1 DEF Covered
    <2> QED
      BY <2>2 DEF FilterCovers
  <1> QED
    BY <1>2, <1>3, <1>4, <1>5 DEF Administer

LEMMA CoverInit == NCInit => FilterCovers
  <1> SUFFICES ASSUME NCInit, NEW i \in Ids, made, db[i] # NoRow
               PROVE  Covered(i)
    BY NCKinds DEF FilterCovers, NCInit
  <1>1. i \in 1 .. Seeds
    BY NegativeCacheAssumption DEF NCInit, SeedDB, Ids
  <1> QED
    BY <1>1 DEF NCInit, Covered

LEMMA CoverStep ==
    ASSUME NCTypeOK, FilterCovers, [NCNext]_ncVars
    PROVE  FilterCovers'
  <1> USE DEF users, bloom, client
  <1>1. ASSUME NEW r \in Lookups, Lookup(r) PROVE FilterCovers'
    <2>1. PICK from, to \in {"new", "get", "db", "store", "done"} : Move(r, from, to)
      BY <1>1 DEF Lookup, Block, Pass, Hit, Miss, Fetch, Store
    <2>2. phase[r] # "add" /\ \A q \in Callers : q # r => phase'[q] = phase[q]
      BY <2>1, MoveEffect, NCKinds
    <2>3. UNCHANGED <<db, made, filter, holes, id, keys>>
      BY <1>1 DEF Lookup, Block, Pass, Hit, Miss, Fetch, Store
    <2> QED
      BY <2>2, <2>3, CoverClient, NCKinds
  <1>2. ASSUME NEW r \in Creates, Create(r) PROVE FilterCovers'
    BY <1>2, CoverCreate
  <1>3. ASSUME NEW r \in Deletes, Delete(r) PROVE FilterCovers'
    <2>1. PICK from, to \in {"new", "mark", "done"} : Move(r, from, to)
      BY <1>3 DEF Delete, Remove, Mark
    <2>2. phase[r] # "add" /\ \A q \in Callers : q # r => phase'[q] = phase[q]
      BY <2>1, MoveEffect, NCKinds
    <2>3. UNCHANGED <<made, filter, holes, id, keys>>
      BY <1>3 DEF Delete, Remove, Mark
    <2>4. \A i \in Ids : db'[i] # NoRow => db[i] # NoRow
      BY <1>3, NCKinds DEF Delete, Remove, Mark, NCTypeOK
    <2> QED
      BY <2>2, <2>3, <2>4, CoverClient, NCKinds
  <1>4. ASSUME NEW r \in Clients, Fail(r) PROVE FilterCovers'
    <2>1. phase[r] # "add" /\ \A q \in Callers : q # r => phase'[q] = phase[q]
      BY <1>4, NCKinds DEF Fail, NCTypeOK
    <2>2. UNCHANGED <<db, made, filter, holes, id, keys>>
      BY <1>4 DEF Fail
    <2> QED
      BY <2>1, <2>2, CoverClient
  <1>5. ASSUME NEW a \in Resets, Reset(a) PROVE FilterCovers'
    <2>1. phase'[a] = "scan" /\ a \in Admins
      BY <1>5, MoveEffect, NCKinds DEF Reset
    <2>2. \A i \in Ids : Covered(i)'
      BY <2>1 DEF Covered
    <2> QED
      BY <2>2 DEF FilterCovers
  <1>6. ASSUME NEW a \in Admins, Administer(a) PROVE FilterCovers'
    BY <1>6, CoverAdminister
  <1>7. CASE (\E i \in Ids : Lapse(i)) \/ UNCHANGED ncVars
    <2>1. UNCHANGED <<db, made, filter, holes, phase, id, keys>>
      BY <1>7 DEF Lapse, ncVars
    <2> QED
      BY <2>1 DEF FilterCovers, Covered
  <1>8. CASE Crash
    <2>1. holes' = Ids \ filter /\ filter' = filter
      BY <1>8 DEF Crash
    <2>2. \A i \in Ids : Covered(i)'
      BY <2>1 DEF Covered
    <2> QED
      BY <2>2 DEF FilterCovers
  <1> QED
    BY <1>1, <1>2, <1>3, <1>4, <1>5, <1>6, <1>7, <1>8 DEF NCNext

(* The filter denies no user but for a reason: whatever the order of POSTs   *)
(* and rebuilds, for any number of both.                                     *)
THEOREM DenialsCorrect == NCSpec => []DenialsAreExplained
  <1>1. NCTypeOK /\ FilterCovers /\ [NCNext]_ncVars => FilterCovers'
    BY CoverStep
  <1>2. FilterCovers => DenialsAreExplained
    BY DEF FilterCovers, Covered, DenialsAreExplained, Rebuilding
  <1> QED
    BY <1>1, <1>2, CoverInit, NCTypeCorrect, PTL DEF NCSpec

----------------------------------------------------------------------------
(* Without faults a rebuild gives no user away: an id is in the filter, or   *)
(* its POST is about to add it, or an administrator has yet to collect it or *)
(* is about to fill it in.                                                   *)
Adding(i) == \E r \in Creates : phase[r] = "add" /\ id[r] = i
Filled(i) ==
    \/ i \in filter
    \/ Adding(i)
    \/ \E a \in Admins : phase[a] \in {"scan", "drop", "clear", "reserve", "collect"}
    \/ \E a \in Admins : phase[a] = "fill" /\ i \in keys[a]
Begun == faults = 0 /\ \E a \in Admins : phase[a] # "new"

RebuildFills == Begun => \A i \in Ids : db[i] # NoRow => Filled(i)

RebuiltDeniesNobody ==
    Begun /\ (\A a \in Admins : ~Rebuilding(a)) =>
        \A i \in Ids : db[i] # NoRow => i \in filter \/ Adding(i)

LEMMA FillsKept ==
    ASSUME RebuildFills, Begun' => Begun,
           \A i \in Ids : db'[i] # NoRow => db[i] # NoRow,
           \A i \in Ids : Filled(i) => Filled(i)'
    PROVE  RebuildFills'
  BY DEF RebuildFills

LEMMA FillsClient ==
    ASSUME NCTypeOK, RebuildFills, NEW r \in Clients,
           phase[r] # "add" \/ r \notin Creates,
           \A q \in Callers : q # r => phase'[q] = phase[q],
           UNCHANGED <<filter, id, keys, faults>>,
           \A i \in Ids : db'[i] # NoRow => db[i] # NoRow
    PROVE  RebuildFills'
  <1>1. /\ \A a \in Admins : phase'[a] = phase[a]
        /\ \A q \in Creates : phase[q] = "add" => phase'[q] = "add"
    BY NCKinds
  <1>2. \A i \in Ids : Filled(i) => Filled(i)'
    BY <1>1 DEF Filled, Adding
  <1>3. Begun' => Begun
    BY <1>1 DEF Begun
  <1> QED
    BY <1>2, <1>3, FillsKept

(* A step that fails ends the time without faults.                           *)
LEMMA FillsFault ==
    ASSUME NCTypeOK, faults' = faults + 1
    PROVE  RebuildFills'
  BY NegativeCacheAssumption DEF RebuildFills, Begun, NCTypeOK

LEMMA FillsCreate ==
    ASSUME NCTypeOK, RebuildFills, NEW r \in Creates, Create(r)
    PROVE  RebuildFills'
  <1> USE DEF users, bloom
  <1>1. r \in Clients /\ r \in Callers /\ id[r] \in Ids
    BY NCKinds DEF NCTypeOK
  <1>2. CASE Insert(r)
    <2>1. /\ phase[r] = "new" /\ phase'[r] = "add"
          /\ \A q \in Callers : q # r => phase'[q] = phase[q]
      BY <1>1, <1>2, MoveEffect DEF Insert
    <2>2. /\ next \in Ids /\ UNCHANGED <<filter, keys, faults>>
          /\ id'[r] = next /\ \A q \in Clients : q # r => id'[q] = id[q]
          /\ \A i \in Ids : i # next => db'[i] = db[i]
      BY <1>1, <1>2 DEF Insert, NCTypeOK
    <2>3. \A a \in Admins : phase'[a] = phase[a]
      BY <1>1, <2>1, NCKinds
    <2>4. ASSUME NEW i \in Ids, Filled(i) PROVE Filled(i)'
      <3>1. Adding(i) => Adding(i)'
        <4>1. ASSUME NEW q \in Creates, phase[q] = "add", id[q] = i
              PROVE  phase'[q] = "add" /\ id'[q] = i
          BY <2>1, <2>2, <4>1, NCKinds
        <4> QED
          BY <4>1 DEF Adding
      <3> QED
        BY <2>2, <2>3, <2>4, <3>1 DEF Filled
    <2>5. ASSUME NEW i \in Ids, i = next PROVE Filled(i)'
      BY <2>1, <2>2, <2>5 DEF Filled, Adding
    <2>6. Begun' => Begun
      BY <2>2, <2>3 DEF Begun
    <2> QED
      BY <2>2, <2>4, <2>5, <2>6 DEF RebuildFills
  <1>3. CASE Add(r)
    <2>1. /\ phase[r] = "add" /\ \A q \in Callers : q # r => phase'[q] = phase[q]
          /\ UNCHANGED <<db, id, keys, faults>> /\ filter' = filter \cup {id[r]}
      BY <1>1, <1>3, MoveEffect DEF Add
    <2>2. \A a \in Admins : phase'[a] = phase[a]
      BY <1>1, <2>1, NCKinds
    <2>3. ASSUME NEW i \in Ids, Filled(i) PROVE Filled(i)'
      <3>1. CASE i = id[r]
        BY <2>1, <3>1 DEF Filled
      <3>2. CASE i # id[r]
        <4>1. Adding(i) => Adding(i)'
          BY <2>1, <3>2, NCKinds DEF Adding
        <4> QED
          BY <2>1, <2>2, <2>3, <4>1 DEF Filled
      <3> QED
        BY <3>1, <3>2
    <2>4. Begun' => Begun
      BY <2>1, <2>2 DEF Begun
    <2> QED
      BY <2>1, <2>3, <2>4, FillsKept
  <1>4. CASE AddFails(r)
    BY <1>4, FillsFault DEF AddFails
  <1>5. CASE Evict(r) \/ Put(r)
    <2>1. /\ phase[r] \in {"evict", "put"}
          /\ \A q \in Callers : q # r => phase'[q] = phase[q]
      BY <1>1, <1>5, MoveEffect DEF Evict, Put
    <2>2. UNCHANGED <<db, filter, id, keys, faults>>
      BY <1>5 DEF Evict, Put
    <2> QED
      BY <1>1, <2>1, <2>2, FillsClient
  <1> QED
    BY <1>2, <1>3, <1>4, <1>5 DEF Create

LEMMA FillsAdminister ==
    ASSUME NCTypeOK, RebuildFills, NEW a \in Admins, Administer(a)
    PROVE  RebuildFills'
  <1> USE DEF users, bloom
  <1>1. a \in Callers /\ a \notin Creates
    BY NCKinds
  <1>2. CASE Scan(a) \/ Drop(a) \/ Clear(a) \/ Reserve(a) \/ ReserveFails(a)
    <2>1. phase'[a] \in {"drop", "clear", "reserve", "collect"}
      <3>1. PICK from, to \in {"new", "scan", "drop", "clear", "reserve", "collect"} :
              to \notin {"new", "scan"} /\ Move(a, from, to)
        BY <1>2 DEF Scan, Drop, Clear, Reserve, ReserveFails
      <3> QED
        BY <1>1, <3>1, MoveEffect
    <2> QED
      BY <2>1 DEF RebuildFills, Filled
  <1>3. CASE Collect(a)
    <2>1. phase'[a] = "fill" /\ db' = db /\ keys'[a] = {i \in Ids : db[i] # NoRow}
      BY <1>1, <1>3, MoveEffect DEF Collect, NCTypeOK
    <2> QED
      BY <2>1 DEF RebuildFills, Filled
  <1>4. CASE Fill(a)
    <2>1. /\ phase[a] = "fill" /\ \A q \in Callers : q # a => phase'[q] = phase[q]
          /\ filter' = filter \cup keys[a]
          /\ \A c \in Admins : c # a => keys'[c] = keys[c]
          /\ UNCHANGED <<db, id, faults>>
      BY <1>1, <1>4, MoveEffect DEF Fill, NCTypeOK
    <2>2. \A q \in Creates : phase'[q] = phase[q]
      BY <1>1, <2>1, NCKinds
    <2>3. \A c \in Admins : c # a => phase'[c] = phase[c]
      BY <2>1, NCKinds
    <2>4. ASSUME NEW i \in Ids, Filled(i) PROVE Filled(i)'
      <3>1. CASE i \in filter \cup keys[a]
        BY <2>1, <3>1 DEF Filled
      <3>2. CASE i \notin filter \cup keys[a]
        BY <2>1, <2>2, <2>3, <2>4, <3>2 DEF Filled, Adding
      <3> QED
        BY <3>1, <3>2
    <2>5. Begun' => Begun
      BY <2>1 DEF Begun
    <2> QED
      BY <2>1, <2>4, <2>5, FillsKept
  <1>5. CASE FillFails(a) \/ AdminFails(a)
    BY <1>5, FillsFault DEF FillFails, AdminFails
  <1> QED
    BY <1>2, <1>3, <1>4, <1>5 DEF Administer

(* As long as nothing fails and the process does not restart, the filter     *)
(* denies no user once a POST /bloom/init or POST /reset is done and no      *)
(* other one is under way, but while the POST that creates the user has yet  *)
(* to add it: whatever was posted or deleted during the rebuilds, and also   *)
(* when a filter was never made before.                                      *)
THEOREM RebuildsAreWhole == NCSpec => []RebuiltDeniesNobody
  <1>1. NCInit => RebuildFills
    BY NCKinds DEF NCInit, RebuildFills, Begun
  <1>2. NCTypeOK /\ RebuildFills /\ [NCNext]_ncVars => RebuildFills'
    <2> SUFFICES ASSUME NCTypeOK, RebuildFills, [NCNext]_ncVars PROVE RebuildFills'
      OBVIOUS
    <2> USE DEF users, bloom, client
    <2>1. ASSUME NEW r \in Lookups, Lookup(r) PROVE RebuildFills'
      <3>1. PICK from, to \in {"new", "get", "db", "store", "done"} : Move(r, from, to)
        BY <2>1 DEF Lookup, Block, Pass, Hit, Miss, Fetch, Store
      <3>2. phase[r] # "add" /\ \A q \in Callers : q # r => phase'[q] = phase[q]
        BY <3>1, MoveEffect, NCKinds
      <3>3. UNCHANGED <<db, filter, id, keys, faults>>
        BY <2>1 DEF Lookup, Block, Pass, Hit, Miss, Fetch, Store
      <3> QED
        BY <3>2, <3>3, FillsClient, NCKinds
    <2>2. ASSUME NEW r \in Creates, Create(r) PROVE RebuildFills'
      BY <2>2, FillsCreate
    <2>3. ASSUME NEW r \in Deletes, Delete(r) PROVE RebuildFills'
      <3>1. PICK from, to \in {"new", "mark", "done"} : Move(r, from, to)
        BY <2>3 DEF Delete, Remove, Mark
      <3>2. phase[r] # "add" /\ \A q \in Callers : q # r => phase'[q] = phase[q]
        BY <3>1, MoveEffect, NCKinds
      <3>3. UNCHANGED <<filter, id, keys, faults>>
        BY <2>3 DEF Delete, Remove, Mark
      <3>4. \A i \in Ids : db'[i] # NoRow => db[i] # NoRow
        BY <2>3, NCKinds DEF Delete, Remove, Mark, NCTypeOK
      <3> QED
        BY <3>2, <3>3, <3>4, FillsClient, NCKinds
    <2>4. ASSUME NEW r \in Clients, Fail(r) PROVE RebuildFills'
      BY <2>4, FillsFault DEF Fail
    <2>5. ASSUME NEW a \in Resets, Reset(a) PROVE RebuildFills'
      <3>1. phase'[a] = "scan" /\ a \in Admins
        BY <2>5, MoveEffect, NCKinds DEF Reset
      <3> QED
        BY <3>1 DEF RebuildFills, Filled
    <2>6. ASSUME NEW a \in Admins, Administer(a) PROVE RebuildFills'
      BY <2>6, FillsAdminister
    <2>7. CASE (\E i \in Ids : Lapse(i)) \/ UNCHANGED ncVars
      <3>1. UNCHANGED <<db, filter, phase, id, keys, faults>>
        BY <2>7 DEF Lapse, ncVars
      <3> QED
        BY <3>1 DEF RebuildFills, Begun, Filled, Adding
    <2>8. CASE Crash
      BY <2>8, FillsFault DEF Crash
    <2> QED
      BY <2>1, <2>2, <2>3, <2>4, <2>5, <2>6, <2>7, <2>8 DEF NCNext
  <1>3. RebuildFills => RebuiltDeniesNobody
    BY DEF RebuildFills, RebuiltDeniesNobody, Filled, Rebuilding
  <1> QED
    BY <1>1, <1>2, <1>3, NCTypeCorrect, PTL DEF NCSpec

----------------------------------------------------------------------------
LEMMA AnswerInit == NCInit => WrongIsAnswered
  BY DEF NCInit, WrongIsAnswered

(* A wrong entry stays answered for by all but the steps that correct it.    *)
LEMMA AnswerKept ==
    ASSUME WrongIsAnswered,
           \A i \in Ids : cache'[i] \notin {NoEntry, db'[i]} =>
               \/ Answered(i)'
               \/ cache[i] \notin {NoEntry, db[i]} /\ (Answered(i) => Answered(i)')
    PROVE  WrongIsAnswered'
  BY DEF WrongIsAnswered

LEMMA SetEntryEffect ==
    ASSUME NCTypeOK, NEW r \in Clients, SetEntry(r), UNCHANGED db
    PROVE  /\ cache'[id[r]] \notin {NoEntry, db'[id[r]]} => raced'[id[r]]
           /\ \A i \in Ids : i # id[r] => cache'[i] = cache[i] /\ raced'[i] = raced[i]
  BY DEF SetEntry, NCTypeOK

(* The steps of a client other than a row's insertion and removal.           *)
LEMMA AnswerClient ==
    ASSUME NCTypeOK, WrongIsAnswered, NEW r \in Clients,
           \A q \in Callers : q # r => phase'[q] = phase[q],
           UNCHANGED <<db, id, keys>>,
           \A i \in Ids : i # id[r] => cache'[i] = cache[i] /\ raced'[i] = raced[i],
           cache'[id[r]] \notin {NoEntry, db[id[r]]} => Answered(id[r])'
    PROVE  WrongIsAnswered'
  <1>1. \A a \in Admins : phase'[a] = phase[a]
    BY NCKinds
  <1>2. ASSUME NEW i \in Ids, i # id[r], Answered(i) PROVE Answered(i)'
    <2>1. ASSUME NEW q \in Creates \cup Deletes, id[q] = i
          PROVE  phase'[q] = phase[q] /\ id'[q] = i
      BY <1>2, <2>1, NCKinds
    <2> QED
      BY <1>1, <1>2, <2>1 DEF Answered
  <1> QED
    BY <1>2, AnswerKept

(* A step of a client that leaves the entries alone, and goes on if it is    *)
(* correcting one.                                                           *)
LEMMA AnswerQuiet ==
    ASSUME NCTypeOK, WrongIsAnswered, NEW r \in Clients, NEW from, NEW to,
           Move(r, from, to),
           from \in {"add", "evict", "put"} => to \in {"add", "evict", "put"},
           from # "mark",
           UNCHANGED <<db, cache, raced, id, keys>>
    PROVE  WrongIsAnswered'
  <1>1. r \in Callers
    BY NCKinds
  <1>2. /\ phase[r] = from /\ phase'[r] = to
        /\ \A q \in Callers : q # r => phase'[q] = phase[q]
    BY <1>1, MoveEffect
  <1>3. /\ \A a \in Admins : phase'[a] = phase[a]
        /\ \A q \in Creates : phase[q] \in {"add", "evict", "put"}
               => phase'[q] \in {"add", "evict", "put"}
        /\ \A q \in Deletes : phase[q] = "mark" => phase'[q] = "mark"
    BY <1>1, <1>2, NCKinds
  <1>4. \A i \in Ids : Answered(i) => Answered(i)'
    BY <1>3 DEF Answered
  <1> QED
    BY <1>4, AnswerKept

LEMMA AnswerCreate ==
    ASSUME NCTypeOK, WrongIsAnswered, NEW r \in Creates, Create(r)
    PROVE  WrongIsAnswered'
  <1> USE DEF users, bloom
  <1>1. r \in Clients /\ r \in Callers /\ id[r] \in Ids
    BY NCKinds DEF NCTypeOK
  <1>2. CASE Insert(r)
    <2>1. /\ phase[r] = "new" /\ phase'[r] = "add"
          /\ \A q \in Callers : q # r => phase'[q] = phase[q]
      BY <1>1, <1>2, MoveEffect DEF Insert
    <2>2. /\ next \in Ids
          /\ id' = [id EXCEPT ![r] = next] /\ db' = [db EXCEPT ![next] = r]
          /\ UNCHANGED <<cache, raced, keys>>
      BY <1>2 DEF Insert
    <2>3. id'[r] = next /\ \A q \in Clients : q # r => id'[q] = id[q]
      BY <1>1, <2>2 DEF NCTypeOK
    <2>4. \A i \in Ids : i # next => db'[i] = db[i]
      BY <2>2 DEF NCTypeOK
    <2>5. \A a \in Admins : phase'[a] = phase[a]
      BY <1>1, <2>1, NCKinds
    <2>6. ASSUME NEW i \in Ids, Answered(i) PROVE Answered(i)'
      <3>1. ASSUME NEW q \in Creates \cup Deletes, phase[q] \in {"add", "evict", "put", "mark"}
            PROVE  phase'[q] = phase[q] /\ id'[q] = id[q]
        <4>1. q # r /\ q \in Clients /\ q \in Callers
          BY <2>1, <3>1, NCKinds
        <4> QED
          BY <2>1, <2>3, <4>1
      <3>2. CASE \E q \in Creates : id[q] = i /\ phase[q] \in {"add", "evict", "put"}
        <4>1. PICK q \in Creates : id[q] = i /\ phase[q] \in {"add", "evict", "put"}
          BY <3>2
        <4>2. id'[q] = i /\ phase'[q] \in {"add", "evict", "put"}
          BY <3>1, <4>1
        <4> QED
          BY <4>2 DEF Answered
      <3>3. CASE \E q \in Deletes : id[q] = i /\ phase[q] = "mark"
        <4>1. PICK q \in Deletes : id[q] = i /\ phase[q] = "mark"
          BY <3>3
        <4>2. id'[q] = i /\ phase'[q] = "mark"
          BY <3>1, <4>1
        <4> QED
          BY <4>2 DEF Answered
      <3> QED
        BY <2>2, <2>5, <2>6, <3>2, <3>3 DEF Answered
    <2>7. ASSUME NEW i \in Ids, i = next PROVE Answered(i)'
      BY <2>1, <2>3, <2>7 DEF Answered
    <2> QED
      BY <2>2, <2>4, <2>6, <2>7, AnswerKept
  <1>3. CASE Add(r) \/ AddFails(r)
    <2>1. Move(r, "add", "evict") /\ UNCHANGED <<db, cache, raced, id, keys>>
      BY <1>3 DEF Add, AddFails
    <2> QED
      BY <1>1, <2>1, AnswerQuiet
  <1>4. CASE Evict(r)
    <2>1. UNCHANGED <<db, id, keys>> /\ \A q \in Callers : q # r => phase'[q] = phase[q]
      BY <1>1, <1>4, MoveEffect DEF Evict
    <2>2. /\ cache'[id[r]] = NoEntry
          /\ \A i \in Ids : i # id[r] => cache'[i] = cache[i]
      BY <1>1, <1>4 DEF Evict, DropEntries
    <2>3. \A i \in Ids : i # id[r] => raced'[i] = raced[i]
      <3>1. \A i \in Ids : raced'[i] = (raced[i] /\ i \notin {id[r]})
        BY <1>4 DEF Evict, DropEntries
      <3> QED
        BY <3>1, Zenon DEF NCTypeOK
    <2> QED
      BY <1>1, <2>1, <2>2, <2>3, AnswerClient
  <1>5. CASE Put(r)
    <2>1. UNCHANGED <<db, id, keys>> /\ \A q \in Callers : q # r => phase'[q] = phase[q]
      BY <1>1, <1>5, MoveEffect DEF Put
    <2>2. SetEntry(r)
      BY <1>5 DEF Put
    <2> QED
      BY <1>1, <2>1, <2>2, SetEntryEffect, AnswerClient DEF Answered
  <1> QED
    BY <1>2, <1>3, <1>4, <1>5 DEF Create

LEMMA AnswerDelete ==
    ASSUME NCTypeOK, WrongIsAnswered, NEW r \in Deletes, Delete(r)
    PROVE  WrongIsAnswered'
  <1> USE DEF users, bloom
  <1>1. r \in Clients /\ r \in Callers /\ id[r] \in Ids
    BY NCKinds DEF NCTypeOK
  <1>2. CASE Remove(r)
    <2>1. /\ phase[r] = "new" /\ phase'[r] = "mark"
          /\ \A q \in Callers : q # r => phase'[q] = phase[q]
      BY <1>1, <1>2, MoveEffect DEF Remove
    <2>2. /\ db' = [db EXCEPT ![id[r]] = NoRow]
          /\ UNCHANGED <<cache, raced, id, keys>>
      BY <1>2 DEF Remove
    <2>3. \A i \in Ids : i # id[r] => db'[i] = db[i]
      BY <2>2 DEF NCTypeOK
    <2>4. /\ \A a \in Admins : phase'[a] = phase[a]
          /\ \A q \in Creates : phase'[q] = phase[q]
          /\ \A q \in Deletes : phase[q] = "mark" => phase'[q] = "mark"
      BY <1>1, <2>1, NCKinds, NegativeCacheAssumption
    <2>5. \A i \in Ids : Answered(i) => Answered(i)'
      BY <2>2, <2>4 DEF Answered
    <2>6. Answered(id[r])'
      BY <2>1, <2>2 DEF Answered
    <2> QED
      BY <2>2, <2>3, <2>5, <2>6, AnswerKept
  <1>3. CASE Mark(r)
    <2>1. UNCHANGED <<db, id, keys>> /\ \A q \in Callers : q # r => phase'[q] = phase[q]
      BY <1>1, <1>3, MoveEffect DEF Mark
    <2>2. SetEntry(r)
      BY <1>3 DEF Mark
    <2> QED
      BY <1>1, <2>1, <2>2, SetEntryEffect, AnswerClient DEF Answered
  <1> QED
    BY <1>2, <1>3 DEF Delete

(* A client that fails while it corrects an entry leaves it marked.          *)
LEMMA AnswerFail ==
    ASSUME NCTypeOK, WrongIsAnswered, NEW r \in Clients, Fail(r)
    PROVE  WrongIsAnswered'
  <1> USE DEF users, bloom
  <1> DEFINE late == phase[r] \in {"evict", "put", "mark"}
  <1>1. r \in Callers /\ id[r] \in Ids
    BY NCKinds DEF NCTypeOK
  <1>2. /\ \A q \in Callers : q # r => phase'[q] = phase[q]
        /\ phase[r] \in {"get", "store", "evict", "put", "mark"}
        /\ UNCHANGED <<db, cache, id, keys>>
    BY <1>1 DEF Fail, NCTypeOK
  <1>3. /\ raced'[id[r]] = (raced[id[r]] \/ late)
        /\ \A i \in Ids : i # id[r] => raced'[i] = raced[i]
    BY <1>1 DEF Fail, NCTypeOK
  <1>4. ASSUME cache[id[r]] \notin {NoEntry, db[id[r]]}
        PROVE  Answered(id[r])'
    <2>1. CASE late
      BY <1>2, <1>3, <2>1 DEF Answered
    <2>2. CASE ~late
      <3>1. Answered(id[r])
        BY <1>1, <1>4 DEF WrongIsAnswered
      <3>2. ASSUME NEW q \in Creates \cup Deletes,
                   phase[q] \in {"evict", "put", "mark"}
            PROVE  phase'[q] = phase[q]
        BY <1>2, <2>2, <3>2, NCKinds
      <3>3. ASSUME NEW q \in Creates, phase[q] = "add"
            PROVE  phase'[q] = phase[q]
        BY <1>2, <3>3, NCKinds
      <3>4. \A a \in Admins : phase'[a] = phase[a]
        BY <1>1, <1>2, NCKinds
      <3>5. raced[id[r]] => raced'[id[r]]
        BY <1>3, Zenon
      <3> QED
        BY <1>2, <3>1, <3>2, <3>3, <3>4, <3>5 DEF Answered
    <2> QED
      BY <2>1, <2>2
  <1> QED
    BY <1>1, <1>2, <1>3, <1>4, AnswerClient

(* POST /reset answers for every entry until it has scanned, and for those   *)
(* it has found until it drops them; what is stored meanwhile is marked.     *)
LEMMA AnswerAdminister ==
    ASSUME NCTypeOK, WrongIsAnswered, NEW a \in Admins, Administer(a)
    PROVE  WrongIsAnswered'
  <1> USE DEF users, bloom
  <1>1. a \in Callers /\ \A q \in Clients : q # a
    BY NCKinds
  <1>2. CASE Scan(a)
    <2>1. /\ phase'[a] = "drop" /\ keys'[a] = {i \in Ids : cache[i] # NoEntry}
          /\ UNCHANGED <<db, cache>>
      BY <1>1, <1>2, MoveEffect DEF Scan, NCTypeOK
    <2> QED
      BY <2>1 DEF WrongIsAnswered, Answered
  <1>3. CASE Drop(a)
    <2>1. /\ phase[a] = "drop" /\ \A q \in Callers : q # a => phase'[q] = phase[q]
          /\ \A c \in Admins : c # a => keys'[c] = keys[c]
          /\ UNCHANGED <<db, id>>
      BY <1>1, <1>3, MoveEffect DEF Drop, NCTypeOK
    <2>2. \A i \in Ids : cache'[i] = IF i \in keys[a] THEN NoEntry ELSE cache[i]
      BY <1>3 DEF Drop, DropEntries
    <2>3. \A i \in Ids : i \notin keys[a] /\ raced[i] => raced'[i]
      BY <1>3, Zenon DEF Drop, DropEntries
    <2>4. ASSUME NEW i \in Ids, i \notin keys[a], Answered(i) PROVE Answered(i)'
      <3>1. /\ \A q \in Creates \cup Deletes : phase'[q] = phase[q]
            /\ \A c \in Admins : c # a => phase'[c] = phase[c]
        BY <1>1, <2>1, NCKinds
      <3> QED
        BY <2>1, <2>3, <2>4, <3>1 DEF Answered
    <2> QED
      BY <2>1, <2>2, <2>4 DEF WrongIsAnswered
  <1>4. CASE Clear(a) \/ Reserve(a) \/ ReserveFails(a) \/ Collect(a) \/ Fill(a) \/ FillFails(a)
    <2>1. PICK from, to \in {"new", "clear", "reserve", "collect", "fill", "done"} :
            Move(a, from, to)
      BY <1>4 DEF Clear, Reserve, ReserveFails, Collect, Fill, FillFails
    <2>2. /\ phase[a] \notin {"scan", "drop"}
          /\ \A q \in Callers : q # a => phase'[q] = phase[q]
      BY <1>1, <2>1, MoveEffect
    <2>3. UNCHANGED <<db, cache, raced, id>> /\ \A c \in Admins : c # a => keys'[c] = keys[c]
      BY <1>4 DEF Clear, Reserve, ReserveFails, Collect, Fill, FillFails, NCTypeOK
    <2>4. /\ \A q \in Creates \cup Deletes : phase'[q] = phase[q]
          /\ \A c \in Admins : phase[c] \in {"scan", "drop"}
                 => phase'[c] = phase[c] /\ keys'[c] = keys[c]
      BY <1>1, <2>2, <2>3, NCKinds
    <2>5. \A i \in Ids : Answered(i) => Answered(i)'
      BY <2>3, <2>4 DEF Answered
    <2> QED
      BY <2>3, <2>5, AnswerKept
  <1>5. CASE AdminFails(a)
    <2>1. CASE phase[a] \in {"scan", "drop"}
      <3>1. \A i \in Ids : raced'[i]
        BY <1>5, <2>1 DEF AdminFails
      <3> QED
        BY <3>1 DEF WrongIsAnswered, Answered
    <2>2. CASE phase[a] \notin {"scan", "drop"}
      <3>1. /\ \A q \in Callers : q # a => phase'[q] = phase[q]
            /\ \A c \in Admins : c # a => keys'[c] = keys[c]
            /\ UNCHANGED <<db, cache, id>>
        BY <1>1, <1>5 DEF AdminFails, NCTypeOK
      <3>2. \A i \in Ids : raced[i] => raced'[i]
        BY <1>5, Zenon DEF AdminFails
      <3>3. /\ \A q \in Creates \cup Deletes : phase'[q] = phase[q]
            /\ \A c \in Admins : phase[c] \in {"scan", "drop"}
                   => phase'[c] = phase[c] /\ keys'[c] = keys[c]
        BY <1>1, <2>2, <3>1, NCKinds
      <3>4. \A i \in Ids : Answered(i) => Answered(i)'
        BY <3>1, <3>2, <3>3 DEF Answered
      <3> QED
        BY <3>1, <3>4, AnswerKept
    <2> QED
      BY <2>1, <2>2
  <1> QED
    BY <1>2, <1>3, <1>4, <1>5 DEF Administer

LEMMA AnswerStep ==
    ASSUME NCTypeOK, WrongIsAnswered, [NCNext]_ncVars
    PROVE  WrongIsAnswered'
  <1> USE DEF users, bloom, client
  <1>1. ASSUME NEW r \in Lookups, Lookup(r) PROVE WrongIsAnswered'
    <2>1. r \in Clients /\ r \in Callers /\ id[r] \in Ids
      BY NCKinds DEF NCTypeOK
    <2>2. CASE Store(r)
      <3>1. UNCHANGED <<db, id, keys>> /\ \A q \in Callers : q # r => phase'[q] = phase[q]
        BY <2>1, <2>2, MoveEffect DEF Store
      <3>2. SetEntry(r)
        BY <2>2 DEF Store
      <3> QED
        BY <2>1, <3>1, <3>2, SetEntryEffect, AnswerClient DEF Answered
    <2>3. CASE Block(r) \/ Pass(r) \/ Hit(r) \/ Miss(r) \/ Fetch(r)
      <3>1. PICK from, to \in {"new", "get", "db", "store", "done"} : Move(r, from, to)
        BY <2>3 DEF Block, Pass, Hit, Miss, Fetch
      <3>2. UNCHANGED <<db, cache, raced, id, keys>>
        BY <2>3 DEF Block, Pass, Hit, Miss, Fetch
      <3> QED
        BY <2>1, <3>1, <3>2, AnswerQuiet
    <2> QED
      BY <1>1, <2>2, <2>3 DEF Lookup
  <1>2. ASSUME NEW a \in Resets, Reset(a) PROVE WrongIsAnswered'
    <2>1. phase'[a] = "scan" /\ a \in Admins
      BY <1>2, MoveEffect, NCKinds DEF Reset
    <2> QED
      BY <2>1 DEF WrongIsAnswered, Answered
  <1>3. ASSUME NEW i \in Ids, Lapse(i) PROVE WrongIsAnswered'
    <2>1. /\ cache'[i] = NoEntry /\ \A j \in Ids : j # i => cache'[j] = cache[j]
          /\ UNCHANGED <<db, phase, id, keys>>
      BY <1>3 DEF Lapse, DropEntries
    <2>2. \A j \in Ids : j # i /\ raced[j] => raced'[j]
      BY <1>3, Zenon DEF Lapse, DropEntries
    <2> QED
      BY <2>1, <2>2 DEF WrongIsAnswered, Answered
  <1>4. CASE Crash
    <2>1. \A i \in Ids : raced'[i]
      BY <1>4 DEF Crash
    <2> QED
      BY <2>1 DEF WrongIsAnswered, Answered
  <1>5. CASE UNCHANGED ncVars
    BY <1>5 DEF ncVars, WrongIsAnswered, Answered
  <1> QED
    BY <1>1, <1>2, <1>3, <1>4, <1>5, AnswerCreate, AnswerDelete, AnswerFail,
       AnswerAdminister DEF NCNext

(* A cached row or sentinel is wrong only while somebody is to correct it,   *)
(* after a failure, or because it was outdated when it was stored: for any   *)
(* number of users, requests and rebuilds.                                   *)
THEOREM WrongCorrect == NCSpec => []WrongIsRaced
  <1>1. NCTypeOK /\ WrongIsAnswered /\ [NCNext]_ncVars => WrongIsAnswered'
    BY AnswerStep
  <1>2. WrongIsAnswered => WrongIsRaced
    BY DEF WrongIsAnswered, Answered, WrongIsRaced, Correcting
  <1> QED
    BY <1>1, <1>2, AnswerInit, NCTypeCorrect, PTL DEF NCSpec
===============================================================================
