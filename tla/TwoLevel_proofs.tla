-------------------------- MODULE TwoLevel_proofs --------------------------
(* Proofs about TwoLevel, for every set of keys and requests and for every   *)
(* pair of lives.                                                            *)
EXTENDS TwoLevel, TLAPS

(* The lives and bounds are natural numbers, and no request is a row that it *)
(* could not have written.                                                   *)
LEMMA LivesAreNat ==
    /\ L1_TTL \in Nat /\ L2_TTL \in Nat /\ L1_TTL > 0 /\ L2_TTL > 0
    /\ MaxFlushes \in Nat /\ MaxFaults \in Nat
    /\ Absent \notin Posts /\ Absent # Seed
  BY TwoLevelAssumption

LEMMA LoadedIsTyped == Loaded \in [Keys -> Rows \cup {Absent}]
  BY DEF Loaded, Rows

LEMMA DropIsTyped ==
    ASSUME TypeOK, NEW dropped, DropL1(dropped)
    PROVE  l1' \in [Keys -> Rows \cup {Absent}] /\ ttl1' \in [Keys -> 0 .. L1_TTL]
  BY LivesAreNat DEF TypeOK, DropL1

LEMMA SetIsTyped ==
    ASSUME TypeOK, NEW r \in Requests, SetL2(r)
    PROVE  /\ l2' \in [Keys -> Rows \cup {Absent}]
           /\ ttl2' \in [Keys -> 0 .. L2_TTL]
           /\ raced2' \in [Keys -> BOOLEAN]
  <1>1. L2_TTL \in 0 .. L2_TTL
    BY LivesAreNat
  <1>2. Outdated(r) \in BOOLEAN
    BY DEF Outdated
  <1>3. raced2' \in [Keys -> BOOLEAN]
    BY <1>2, Zenon DEF TypeOK, SetL2
  <1> QED
    BY <1>1, <1>3 DEF TypeOK, SetL2

(* The type invariant.                                                       *)
THEOREM TypeCorrect == Spec => []TypeOK
  <1>1. Init => TypeOK
    <2> SUFFICES ASSUME Init PROVE TypeOK
      OBVIOUS
    <2>1. /\ 0 \in 0 .. L1_TTL /\ 0 \in 0 .. L2_TTL /\ 0 \in 0 .. L1_TTL + L2_TTL
          /\ 0 \in 0 .. MaxFlushes /\ 0 \in 0 .. MaxFaults
      BY LivesAreNat
    <2> QED
      BY <2>1, LoadedIsTyped DEF Init, TypeOK
  <1>2. TypeOK /\ [Next]_vars => TypeOK'
    <2> SUFFICES ASSUME TypeOK, [Next]_vars
                 PROVE  TypeOK'
      OBVIOUS
    <2> USE DEF caches, request, bounds, raced, history
    <2>1. ASSUME NEW r \in Gets, Get(r) PROVE TypeOK'
      <3>0. r \in Requests
        BY DEF Requests
      <3>1. CASE L1Hit(r) \/ L1Miss(r) \/ L2Hit(r) \/ L2Miss(r) \/ Fetch(r) \/ NotFound(r)
        BY <3>0, <3>1 DEF L1Hit, L1Miss, L2Hit, L2Miss, Fetch, NotFound, Goto, TypeOK
      <3>2. CASE StoreL2(r)
        BY <3>0, <3>2, SetIsTyped DEF StoreL2, Goto, TypeOK
      <3>3. CASE Backfill(r)
        <4>1. L1_TTL \in 0 .. L1_TTL
          BY LivesAreNat
        <4>2. raced1' \in [Keys -> BOOLEAN]
          <5>1. Outdated(r) \in BOOLEAN
            BY DEF Outdated
          <5> QED
            BY <3>3, <5>1, Zenon DEF Backfill, TypeOK
        <4> QED
          BY <3>0, <3>3, <4>1, <4>2 DEF Backfill, Goto, TypeOK
      <3> QED
        BY <2>1, <3>1, <3>2, <3>3 DEF Get
    <2>2. ASSUME NEW r \in Posts, Post(r) PROVE TypeOK'
      <3>0. r \in Requests /\ r \in Rows
        BY DEF Requests, Rows
      <3>1. CASE Write(r)
        <4>1. 0 \in 0 .. L1_TTL + L2_TTL
          BY LivesAreNat
        <4> QED
          BY <3>0, <3>1, <4>1 DEF Write, Goto, TypeOK
      <3>2. CASE PutL2(r)
        BY <3>0, <3>2, SetIsTyped DEF PutL2, Goto, TypeOK
      <3>3. CASE Evict(r)
        BY <3>0, <3>3, DropIsTyped DEF Evict, Goto, TypeOK
      <3> QED
        BY <2>2, <3>1, <3>2, <3>3 DEF Post
    <2>3. ASSUME NEW r \in Requests, Fail(r) PROVE TypeOK'
      <3>1. raced1' \in [Keys -> BOOLEAN]
        BY <2>3, Zenon DEF Fail, TypeOK
      <3>2. /\ l2' \in [Keys -> Rows \cup {Absent}]
            /\ ttl2' \in [Keys -> 0 .. L2_TTL]
            /\ raced2' \in [Keys -> BOOLEAN]
        <4>1. CASE SetL2(r)
          BY <4>1, SetIsTyped
        <4>2. CASE /\ raced2' = [raced2 EXCEPT ![key[r]] = @ \/ pc[r] = "put"]
                   /\ UNCHANGED <<l2, ttl2>>
          <5>1. raced2' \in [Keys -> BOOLEAN]
            BY <4>2, Zenon DEF TypeOK
          <5> QED
            BY <4>2, <5>1 DEF TypeOK
        <4> QED
          BY <2>3, <4>1, <4>2 DEF Fail
      <3>3. faults' \in 0 .. MaxFaults
        BY <2>3, LivesAreNat DEF Fail, TypeOK
      <3> QED
        BY <2>3, <3>1, <3>2, <3>3 DEF Fail, TypeOK
    <2>4. ASSUME NEW D \in SUBSET Keys, FlushL1(D) PROVE TypeOK'
      <3>1. flushes' \in 0 .. MaxFlushes
        BY <2>4, LivesAreNat DEF FlushL1, TypeOK
      <3> QED
        BY <2>4, <3>1, DropIsTyped DEF FlushL1, TypeOK
    <2>5. ASSUME NEW b \in BOOLEAN, FlushScan(b) PROVE TypeOK'
      <3>1. flushes' \in 0 .. MaxFlushes
        BY <2>5, LivesAreNat DEF FlushScan, TypeOK
      <3> QED
        BY <2>5, <3>1, DropIsTyped DEF FlushScan, TypeOK
    <2>6. CASE FlushDelete
      BY <2>6, LivesAreNat DEF FlushDelete, TypeOK
    <2>7. CASE Tick
      <3>1. ttl1' \in [Keys -> 0 .. L1_TTL] /\ ttl2' \in [Keys -> 0 .. L2_TTL]
        BY <2>7, LivesAreNat DEF Tick, Less, TypeOK
      <3>2. calm' \in [Keys -> 0 .. L1_TTL + L2_TTL]
        <4>1. ASSUME NEW n \in 0 .. L1_TTL + L2_TTL
              PROVE  Calmer(n) \in 0 .. L1_TTL + L2_TTL
          BY LivesAreNat DEF Calmer
        <4>2. 0 \in 0 .. L1_TTL + L2_TTL
          BY LivesAreNat
        <4>3. calm \in [Keys -> 0 .. L1_TTL + L2_TTL]
              /\ calm' = [k \in Keys |-> IF Held(k) THEN 0 ELSE Calmer(calm[k])]
          BY <2>7 DEF Tick, TypeOK
        <4> QED
          BY <4>1, <4>2, <4>3, Zenon
      <3> QED
        BY <2>7, <3>1, <3>2 DEF Tick, TypeOK
    <2>8. CASE Crash
      <3>1. faults' \in 0 .. MaxFaults /\ 0 \in 0 .. L1_TTL + L2_TTL
        BY <2>8, LivesAreNat DEF Crash, TypeOK
      <3>2. raced2' \in [Keys -> BOOLEAN]
        BY <2>8 DEF Crash
      <3> QED
        BY <2>8, <3>1, <3>2, DropIsTyped, LoadedIsTyped DEF Crash, TypeOK
    <2>9. CASE UNCHANGED vars
      BY <2>9 DEF vars, TypeOK
    <2> QED
      <3>1. ASSUME NEW k \in Keys, FlushL1({k}) PROVE TypeOK'
        BY <2>4, <3>1
      <3> QED
        BY <2>1, <2>2, <2>3, <2>4, <2>5, <2>6, <2>7, <2>8, <2>9, <3>1 DEF Next
  <1> QED
    BY <1>1, <1>2, PTL DEF Spec

----------------------------------------------------------------------------
(* What one key's freshness rests on.                                        *)
Raced1(k) == Stale1(k) => raced1[k] \/ Writing(k, {"put", "evict"})
Raced2(k) == Stale2(k) => raced2[k] \/ Writing(k, {"put"})

(* A request that goes from one await to the next leaves what other requests *)
(* write under way; its own writing goes on unless it leaves those awaits.   *)
LEMMA WritingGoesOn ==
    ASSUME TypeOK, NEW k \in Keys, NEW S, Writing(k, S), key' = key,
           NEW r \in Requests, NEW to, pc' = [pc EXCEPT ![r] = to],
           r \notin Posts \/ key[r] # k \/ pc[r] \notin S \/ to \in S
    PROVE  Writing(k, S)'
  <1>1. PICK q \in Posts : key[q] = k /\ pc[q] \in S
    BY DEF Writing
  <1>2. q \in Requests
    BY DEF Requests
  <1>3. pc'[q] \in S
    BY <1>1, <1>2 DEF TypeOK
  <1> QED
    BY <1>1, <1>3 DEF Writing

(* Storing in L2 leaves a key's L2 entry stale only as raced2 says.          *)
LEMMA SetIsHonest ==
    ASSUME TypeOK, NEW r \in Requests, SetL2(r), db' = db,
           NEW k \in Keys, Stale2(k)'
    PROVE  IF key[r] = k THEN raced2'[k] ELSE Stale2(k) /\ raced2'[k] = raced2[k]
  <1>1. key[r] \in Keys
    BY DEF TypeOK
  <1>2. CASE key[r] = k
    <2>1. l2'[k] = val[r] /\ raced2'[k] = Outdated(r)
      BY <1>1, <1>2, Zenon DEF SetL2, TypeOK
    <2> QED
      BY <1>2, <2>1 DEF Stale2, Outdated
  <1>3. CASE key[r] # k
    <2>1. l2'[k] = l2[k] /\ raced2'[k] = raced2[k]
      BY <1>1, <1>3, Zenon DEF SetL2, TypeOK
    <2> QED
      BY <1>3, <2>1 DEF Stale2
  <1> QED
    BY <1>2, <1>3

LEMMA DropIsHonest ==
    ASSUME TypeOK, NEW dropped, DropL1(dropped), db' = db, NEW k \in Keys, Stale1(k)'
    PROVE  Stale1(k) /\ k \notin dropped
  BY DEF TypeOK, DropL1, Stale1

(* A step of a request.                                                      *)
LEMMA RequestKeepsRaced ==
    ASSUME TypeOK, NEW r \in Requests,
           (r \in Gets /\ Get(r)) \/ (r \in Posts /\ Post(r)) \/ Fail(r),
           NEW k \in Keys, Raced1(k), Raced2(k)
    PROVE  Raced1(k)' /\ Raced2(k)'
  <1> USE DEF caches, request, bounds, raced, history
  <1>0. key[r] \in Keys /\ r \notin Gets \cap Posts
    BY TwoLevelAssumption DEF TypeOK
  <1>1. CASE r \in Gets /\ (\/ L1Hit(r) \/ L1Miss(r) \/ L2Hit(r) \/ L2Miss(r)
                            \/ Fetch(r) \/ NotFound(r))
    <2>1. /\ UNCHANGED <<db, l1, l2, key, raced1, raced2>>
          /\ \E to : pc' = [pc EXCEPT ![r] = to]
      BY <1>1 DEF L1Hit, L1Miss, L2Hit, L2Miss, Fetch, NotFound, Goto
    <2>2. Writing(k, {"put"}) => Writing(k, {"put"})'
      BY <1>0, <1>1, <2>1, WritingGoesOn
    <2>3. Writing(k, {"put", "evict"}) => Writing(k, {"put", "evict"})'
      BY <1>0, <1>1, <2>1, WritingGoesOn
    <2> QED
      BY <2>1, <2>2, <2>3 DEF Raced1, Raced2, Stale1, Stale2
  <1>2. CASE r \in Gets /\ StoreL2(r)
    <2>1. Writing(k, {"put"}) => Writing(k, {"put"})'
      BY <1>0, <1>2, WritingGoesOn DEF StoreL2, Goto
    <2>2. Writing(k, {"put", "evict"}) => Writing(k, {"put", "evict"})'
      BY <1>0, <1>2, WritingGoesOn DEF StoreL2, Goto
    <2>3. UNCHANGED <<db, l1, raced1>> /\ SetL2(r)
      BY <1>2 DEF StoreL2
    <2>4. Raced1(k)'
      BY <2>2, <2>3 DEF Raced1, Stale1
    <2>5. Raced2(k)'
      BY <2>1, <2>3, SetIsHonest DEF Raced2
    <2> QED
      BY <2>4, <2>5
  <1>3. CASE r \in Gets /\ Backfill(r)
    <2>1. Writing(k, {"put"}) => Writing(k, {"put"})'
      BY <1>0, <1>3, WritingGoesOn DEF Backfill, Goto
    <2>2. Writing(k, {"put", "evict"}) => Writing(k, {"put", "evict"})'
      BY <1>0, <1>3, WritingGoesOn DEF Backfill, Goto
    <2>3. UNCHANGED <<db, l2, raced2>>
      BY <1>3 DEF Backfill
    <2>4. Raced2(k)'
      BY <2>1, <2>3 DEF Raced2, Stale2
    <2>5. CASE key[r] = k
      <3>1. l1'[k] = val[r] /\ raced1'[k] = Outdated(r)
        BY <1>0, <1>3, <2>5, Zenon DEF Backfill, TypeOK
      <3> QED
        BY <2>3, <2>4, <2>5, <3>1 DEF Raced1, Stale1, Outdated
    <2>6. CASE key[r] # k
      <3>1. l1'[k] = l1[k] /\ raced1'[k] = raced1[k]
        BY <1>0, <1>3, <2>6, Zenon DEF Backfill, TypeOK
      <3> QED
        BY <2>2, <2>3, <2>4, <3>1 DEF Raced1, Stale1
    <2> QED
      BY <2>5, <2>6
  <1>4. CASE r \in Posts /\ Write(r)
    <2>1. Writing(k, {"put"}) => Writing(k, {"put"})'
      BY <1>4, WritingGoesOn DEF Write, Goto
    <2>2. Writing(k, {"put", "evict"}) => Writing(k, {"put", "evict"})'
      BY <1>4, WritingGoesOn DEF Write, Goto
    <2>3. UNCHANGED <<l1, l2, raced1, raced2, key>>
      BY <1>4 DEF Write
    <2>4. CASE key[r] = k
      <3>1. pc'[r] = "put"
        BY <1>4 DEF Write, Goto, TypeOK
      <3> QED
        BY <1>4, <2>3, <2>4, <3>1 DEF Raced1, Raced2, Writing
    <2>5. CASE key[r] # k
      <3>1. db'[k] = db[k]
        BY <1>0, <1>4, <2>5 DEF Write, TypeOK
      <3> QED
        BY <2>1, <2>2, <2>3, <3>1 DEF Raced1, Raced2, Stale1, Stale2
    <2> QED
      BY <2>4, <2>5
  <1>5. CASE r \in Posts /\ PutL2(r)
    <2>1. key[r] # k /\ Writing(k, {"put"}) => Writing(k, {"put"})'
      BY <1>5, WritingGoesOn DEF PutL2, Goto
    <2>2. Writing(k, {"put", "evict"}) => Writing(k, {"put", "evict"})'
      BY <1>5, WritingGoesOn DEF PutL2, Goto
    <2>3. UNCHANGED <<db, l1, raced1>> /\ SetL2(r)
      BY <1>5 DEF PutL2
    <2>4. Raced1(k)'
      BY <2>2, <2>3 DEF Raced1, Stale1
    <2>5. Raced2(k)'
      BY <2>1, <2>3, SetIsHonest DEF Raced2
    <2> QED
      BY <2>4, <2>5
  <1>6. CASE r \in Posts /\ Evict(r)
    <2>1. Writing(k, {"put"}) => Writing(k, {"put"})'
      BY <1>6, WritingGoesOn DEF Evict, Goto
    <2>2. key[r] # k /\ Writing(k, {"put", "evict"}) => Writing(k, {"put", "evict"})'
      BY <1>6, WritingGoesOn DEF Evict, Goto
    <2>3. UNCHANGED <<db, l2, raced1, raced2>> /\ DropL1({key[r]})
      BY <1>6 DEF Evict
    <2>4. Raced1(k)'
      BY <2>2, <2>3, DropIsHonest DEF Raced1
    <2>5. Raced2(k)'
      BY <2>1, <2>3 DEF Raced2, Stale2
    <2> QED
      BY <2>4, <2>5
  <1>7. CASE Fail(r)
    <2>0. /\ UNCHANGED <<db, l1, key>>
          /\ pc' = [pc EXCEPT ![r] = "done"]
          /\ raced1' = [raced1 EXCEPT ![key[r]] = @ \/ pc[r] \in {"put", "evict"}]
      BY <1>7 DEF Fail
    <2>1. key[r] # k \/ pc[r] # "put" => (Writing(k, {"put"}) => Writing(k, {"put"})')
      BY <2>0, WritingGoesOn
    <2>2. key[r] # k \/ pc[r] \notin {"put", "evict"} =>
              (Writing(k, {"put", "evict"}) => Writing(k, {"put", "evict"})')
      BY <2>0, WritingGoesOn
    <2>3. /\ raced1[k] => raced1'[k]
          /\ key[r] = k /\ pc[r] \in {"put", "evict"} => raced1'[k]
      BY <1>0, <2>0, Zenon DEF TypeOK
    <2>4. Raced1(k)'
      BY <2>0, <2>2, <2>3 DEF Raced1, Stale1
    <2>5. CASE /\ raced2' = [raced2 EXCEPT ![key[r]] = @ \/ pc[r] = "put"]
               /\ UNCHANGED <<l2, ttl2>>
      <3>1. /\ raced2[k] => raced2'[k]
            /\ key[r] = k /\ pc[r] = "put" => raced2'[k]
        BY <1>0, <2>5, Zenon DEF TypeOK
      <3> QED
        BY <2>0, <2>1, <2>4, <2>5, <3>1 DEF Raced2, Stale2
    <2>6. CASE pc[r] = "store" /\ SetL2(r)
      BY <2>0, <2>1, <2>4, <2>6, SetIsHonest DEF Raced2
    <2> QED
      BY <1>7, <2>5, <2>6 DEF Fail
  <1> QED
    BY <1>1, <1>2, <1>3, <1>4, <1>5, <1>6, <1>7 DEF Get, Post

(* An L1 or L2 entry is stale only after a race, a failure or a restart, or  *)
(* while a POST of its key is under way: StaleIsRaced is inductive.          *)
THEOREM StalenessNeedsRaces == Spec => []StaleIsRaced
  <1> USE DEF caches, request, bounds, raced, history
  <1>1. Init => StaleIsRaced
    BY DEF Init, StaleIsRaced, Stale1, Stale2
  <1>2. TypeOK /\ StaleIsRaced /\ [Next]_vars => StaleIsRaced'
    <2> SUFFICES ASSUME TypeOK, StaleIsRaced, [Next]_vars, NEW k \in Keys
                 PROVE  Raced1(k)' /\ Raced2(k)'
      BY DEF StaleIsRaced, Raced1, Raced2
    <2>0. Raced1(k) /\ Raced2(k)
      BY DEF StaleIsRaced, Raced1, Raced2
    <2>1. ASSUME NEW r \in Requests,
                 (r \in Gets /\ Get(r)) \/ (r \in Posts /\ Post(r)) \/ Fail(r)
          PROVE  Raced1(k)' /\ Raced2(k)'
      BY <2>0, <2>1, RequestKeepsRaced
    <2>2. ASSUME NEW dropped, DropL1(dropped),
                 UNCHANGED <<db, l2, pc, key, raced1, raced2>>
          PROVE  Raced1(k)' /\ Raced2(k)'
      <3>1. Raced1(k)'
        BY <2>0, <2>2, DropIsHonest DEF Raced1, Writing
      <3> QED
        BY <2>0, <2>2, <3>1 DEF Raced2, Stale2, Writing
    <2>3. CASE FlushDelete
      <3>1. l2'[k] \in {Absent, l2[k]} /\ UNCHANGED <<db, l1, pc, key, raced1, raced2>>
        BY <2>3 DEF FlushDelete
      <3> QED
        BY <2>0, <3>1 DEF Raced1, Raced2, Stale1, Stale2, Writing
    <2>4. CASE Tick
      <3>1. l1'[k] \in {Absent, l1[k]} /\ l2'[k] \in {Absent, l2[k]}
        BY <2>4 DEF Tick
      <3>2. UNCHANGED <<db, pc, key, raced1, raced2>>
        BY <2>4 DEF Tick
      <3> QED
        BY <2>0, <3>1, <3>2 DEF Raced1, Raced2, Stale1, Stale2, Writing
    <2>5. CASE Crash
      BY <2>5 DEF Crash, DropL1, Raced1, Raced2, Stale1
    <2>6. CASE UNCHANGED vars
      BY <2>0, <2>6 DEF vars, Raced1, Raced2, Stale1, Stale2, Writing
    <2>7. ASSUME NEW D, FlushL1(D) PROVE Raced1(k)' /\ Raced2(k)'
      BY <2>2, <2>7 DEF FlushL1
    <2>8. ASSUME NEW b \in BOOLEAN, FlushScan(b) PROVE Raced1(k)' /\ Raced2(k)'
      BY <2>2, <2>8 DEF FlushScan
    <2> QED
      BY <2>1, <2>3, <2>4, <2>5, <2>6, <2>7, <2>8 DEF Next, Requests
  <1> QED
    BY <1>1, <1>2, TypeCorrect, PTL DEF Spec

----------------------------------------------------------------------------
(* How old an outdated row may be that a request has in hand: a row to store *)
(* has been outdated since the last tick, one from L2 for L2's life.         *)
InHand(r) ==
    Outdated(r) =>
        /\ pc[r] \in {"store", "put"} => calm[key[r]] = 0
        /\ pc[r] = "backfill" /\ val[r] # Absent => calm[key[r]] <= L2_TTL
Bounded1(k) == Stale1(k) => calm[k] + ttl1[k] <= L1_TTL + L2_TTL
Bounded2(k) == Stale2(k) => calm[k] + ttl2[k] <= L2_TTL

BoundInv ==
    /\ \A r \in Requests : InHand(r)
    /\ \A k \in Keys : Bounded1(k) /\ Bounded2(k)

LEMMA NumbersAreTyped ==
    ASSUME TypeOK, NEW k \in Keys
    PROVE  /\ calm[k] \in Nat /\ calm[k] <= L1_TTL + L2_TTL
           /\ ttl1[k] \in Nat /\ ttl1[k] <= L1_TTL
           /\ ttl2[k] \in Nat /\ ttl2[k] <= L2_TTL
  BY LivesAreNat DEF TypeOK

(* SETEX of an outdated row finds the key without a calm moment.             *)
LEMMA SetIsBounded ==
    ASSUME TypeOK, BoundInv, NEW r \in Requests, SetL2(r), pc[r] \in {"store", "put"},
           UNCHANGED <<db, calm>>, NEW k \in Keys
    PROVE  Bounded2(k)'
  <1>1. key[r] \in Keys
    BY DEF TypeOK
  <1>2. CASE key[r] = k
    <2>1. l2'[k] = val[r] /\ ttl2'[k] = L2_TTL
      BY <1>1, <1>2 DEF SetL2, TypeOK
    <2>2. Outdated(r) => calm[k] = 0
      BY <1>2 DEF BoundInv, InHand
    <2> QED
      BY <1>2, <2>1, <2>2, LivesAreNat DEF Bounded2, Stale2, Outdated
  <1>3. CASE key[r] # k
    <2>1. l2'[k] = l2[k] /\ ttl2'[k] = ttl2[k]
      BY <1>1, <1>3 DEF SetL2, TypeOK
    <2> QED
      BY <2>1 DEF BoundInv, Bounded2, Stale2
  <1> QED
    BY <1>2, <1>3

LEMMA DropIsBounded ==
    ASSUME TypeOK, NEW dropped, DropL1(dropped), UNCHANGED <<db, calm>>,
           NEW k \in Keys, Bounded1(k)
    PROVE  Bounded1(k)'
  BY DEF TypeOK, DropL1, Bounded1, Stale1

(* A request whose row, key and awaits are as before has what it had.        *)
LEMMA HandsStay ==
    ASSUME TypeOK, BoundInv, UNCHANGED <<db, key, val, calm>>,
           NEW r \in Requests, NEW to, pc' = [pc EXCEPT ![r] = to],
           to \in {"backfill", "store"} => pc[r] \in {"store", "put"} \/ ~Outdated(r),
           to # "put"
    PROVE  \A q \in Requests : InHand(q)'
  <1> SUFFICES ASSUME NEW q \in Requests PROVE InHand(q)'
    OBVIOUS
  <1>0. InHand(q) /\ (Outdated(q)' <=> Outdated(q)) /\ key[q] \in Keys
    BY DEF BoundInv, Outdated, TypeOK
  <1>1. CASE q # r
    <2>1. pc'[q] = pc[q]
      BY <1>1 DEF TypeOK
    <2> QED
      BY <1>0, <2>1 DEF InHand
  <1>2. CASE q = r
    <2>1. pc'[q] = to
      BY <1>2 DEF TypeOK
    <2> QED
      BY <1>0, <1>2, <2>1, LivesAreNat DEF InHand
  <1> QED
    BY <1>1, <1>2

(* A step of a request.                                                      *)
LEMMA RequestKeepsBounds ==
    ASSUME TypeOK, BoundInv, NEW r \in Requests,
           (r \in Gets /\ Get(r)) \/ (r \in Posts /\ Post(r)) \/ Fail(r)
    PROVE  BoundInv'
  <1> USE DEF caches, request, bounds, raced, history
  <1>0. key[r] \in Keys
    BY DEF TypeOK
  <1>1. CASE L1Hit(r) \/ L1Miss(r) \/ L2Miss(r) \/ NotFound(r)
    <2>1. PICK to \in {"done", "l2", "db"} :
              pc' = [pc EXCEPT ![r] = to] /\ UNCHANGED <<db, key, val, calm, caches>>
      BY <1>1 DEF L1Hit, L1Miss, L2Miss, NotFound, Goto
    <2>2. \A q \in Requests : InHand(q)'
      BY <2>1, HandsStay
    <2> QED
      BY <2>1, <2>2 DEF BoundInv, Bounded1, Bounded2, Stale1, Stale2
  <1>2. CASE L2Hit(r)
    <2>1. UNCHANGED <<db, key, calm, caches>>
      BY <1>2 DEF L2Hit
    <2>2. ASSUME NEW q \in Requests PROVE InHand(q)'
      <3>1. CASE q = r
        <4>1. val'[r] = l2[key[r]] /\ l2[key[r]] # Absent /\ pc'[r] = "backfill"
          BY <1>2 DEF L2Hit, Goto, TypeOK
        <4>2. Outdated(r)' => calm[key[r]] + ttl2[key[r]] <= L2_TTL
          BY <1>0, <2>1, <4>1 DEF Outdated, BoundInv, Bounded2, Stale2
        <4> QED
          BY <1>0, <2>1, <3>1, <4>1, <4>2, NumbersAreTyped, LivesAreNat DEF InHand
      <3>2. CASE q # r
        <4>1. val'[q] = val[q] /\ pc'[q] = pc[q]
          BY <1>2, <3>2 DEF L2Hit, Goto, TypeOK
        <4> QED
          BY <2>1, <4>1 DEF BoundInv, InHand, Outdated
      <3> QED
        BY <3>1, <3>2
    <2> QED
      BY <2>1, <2>2 DEF BoundInv, Bounded1, Bounded2, Stale1, Stale2
  <1>3. CASE Fetch(r)
    <2>1. UNCHANGED <<db, key, calm, caches>>
      BY <1>3 DEF Fetch
    <2>2. ASSUME NEW q \in Requests PROVE InHand(q)'
      <3>1. CASE q = r
        <4>1. ~Outdated(r)'
          BY <1>3, <2>1 DEF Fetch, Outdated, TypeOK
        <4> QED
          BY <3>1, <4>1 DEF InHand
      <3>2. CASE q # r
        <4>1. val'[q] = val[q] /\ pc'[q] = pc[q]
          BY <1>3, <3>2 DEF Fetch, Goto, TypeOK
        <4> QED
          BY <2>1, <4>1 DEF BoundInv, InHand, Outdated
      <3> QED
        BY <3>1, <3>2
    <2> QED
      BY <2>1, <2>2 DEF BoundInv, Bounded1, Bounded2, Stale1, Stale2
  <1>4. CASE StoreL2(r) \/ PutL2(r)
    <2>1. /\ UNCHANGED <<db, key, val, calm, l1, ttl1>> /\ SetL2(r)
          /\ pc[r] \in {"store", "put"}
      BY <1>4 DEF StoreL2, PutL2, Goto
    <2>2. \E to \in {"backfill", "evict"} : pc' = [pc EXCEPT ![r] = to]
      BY <1>4 DEF StoreL2, PutL2, Goto
    <2>3. \A q \in Requests : InHand(q)'
      BY <2>1, <2>2, HandsStay
    <2>4. \A k \in Keys : Bounded2(k)'
      BY <2>1, SetIsBounded
    <2> QED
      BY <2>1, <2>3, <2>4 DEF BoundInv, Bounded1, Stale1
  <1>5. CASE Backfill(r)
    <2>1. UNCHANGED <<db, key, val, calm, l2, ttl2>>
      BY <1>5 DEF Backfill
    <2>2. \A q \in Requests : InHand(q)'
      BY <1>5, <2>1, HandsStay DEF Backfill, Goto
    <2>3. ASSUME NEW k \in Keys PROVE Bounded1(k)'
      <3>1. CASE key[r] = k
        <4>1. l1'[k] = val[r] /\ ttl1'[k] = L1_TTL
          BY <1>0, <1>5, <3>1 DEF Backfill, TypeOK
        <4>2. Outdated(r) /\ val[r] # Absent => calm[k] <= L2_TTL
          BY <1>5, <3>1 DEF BoundInv, InHand, Backfill, Goto
        <4> QED
          BY <2>1, <3>1, <4>1, <4>2, NumbersAreTyped, LivesAreNat
             DEF Bounded1, Stale1, Outdated
      <3>2. CASE key[r] # k
        <4>1. l1'[k] = l1[k] /\ ttl1'[k] = ttl1[k]
          BY <1>0, <1>5, <3>2 DEF Backfill, TypeOK
        <4> QED
          BY <2>1, <4>1 DEF BoundInv, Bounded1, Stale1
      <3> QED
        BY <3>1, <3>2
    <2> QED
      BY <2>1, <2>2, <2>3 DEF BoundInv, Bounded2, Stale2
  <1>6. CASE Write(r)
    <2>1. /\ UNCHANGED <<key, caches>>
          /\ calm' = [calm EXCEPT ![key[r]] = 0]
          /\ db' = [db EXCEPT ![key[r]] = r]
          /\ val' = [val EXCEPT ![r] = r]
          /\ pc' = [pc EXCEPT ![r] = "put"]
      BY <1>6 DEF Write, Goto
    <2>2. calm'[key[r]] = 0
      BY <1>0, <2>1 DEF TypeOK
    <2>3. \A k \in Keys \ {key[r]} : db'[k] = db[k] /\ calm'[k] = calm[k]
      BY <2>1 DEF TypeOK
    <2>4. ASSUME NEW q \in Requests PROVE InHand(q)'
      <3>1. CASE key[q] = key[r]
        BY <2>1, <2>2, <3>1, LivesAreNat DEF InHand
      <3>2. CASE key[q] # key[r]
        <4>1. val'[q] = val[q] /\ pc'[q] = pc[q]
          BY <2>1, <3>2 DEF TypeOK
        <4>2. key[q] \in Keys
          BY DEF TypeOK
        <4> QED
          BY <2>1, <2>3, <3>2, <4>1, <4>2 DEF BoundInv, InHand, Outdated
      <3> QED
        BY <3>1, <3>2
    <2>5. ASSUME NEW k \in Keys PROVE Bounded1(k)' /\ Bounded2(k)'
      <3>1. CASE k = key[r]
        BY <2>1, <2>2, <3>1, NumbersAreTyped, LivesAreNat DEF Bounded1, Bounded2
      <3>2. CASE k # key[r]
        BY <2>1, <2>3, <3>2 DEF BoundInv, Bounded1, Bounded2, Stale1, Stale2
      <3> QED
        BY <3>1, <3>2
    <2> QED
      BY <2>4, <2>5 DEF BoundInv
  <1>7. CASE Evict(r)
    <2>1. UNCHANGED <<db, key, val, calm, l2, ttl2>> /\ DropL1({key[r]})
      BY <1>7 DEF Evict
    <2>2. \A q \in Requests : InHand(q)'
      BY <1>7, <2>1, HandsStay DEF Evict, Goto
    <2>3. \A k \in Keys : Bounded1(k)'
      BY <2>1, DropIsBounded DEF BoundInv
    <2> QED
      BY <2>1, <2>2, <2>3 DEF BoundInv, Bounded2, Stale2
  <1>8. CASE Fail(r)
    <2>1. UNCHANGED <<db, key, val, calm, l1, ttl1>> /\ pc' = [pc EXCEPT ![r] = "done"]
      BY <1>8 DEF Fail
    <2>2. \A q \in Requests : InHand(q)'
      BY <2>1, HandsStay
    <2>3. CASE UNCHANGED <<l2, ttl2>>
      BY <2>1, <2>2, <2>3 DEF BoundInv, Bounded1, Bounded2, Stale1, Stale2
    <2>4. CASE pc[r] = "store" /\ SetL2(r)
      <3>1. \A k \in Keys : Bounded2(k)'
        BY <2>1, <2>4, SetIsBounded
      <3> QED
        BY <2>1, <2>2, <3>1 DEF BoundInv, Bounded1, Stale1
    <2> QED
      BY <1>8, <2>3, <2>4 DEF Fail
  <1> QED
    BY <1>1, <1>2, <1>3, <1>4, <1>5, <1>6, <1>7, <1>8 DEF Get, Post

(* A tick: what is in hand outdated has no calm moment after it, and what is *)
(* stored loses as much life as the key gains calm.                          *)
LEMMA TickKeepsBounds ==
    ASSUME TypeOK, BoundInv, Tick
    PROVE  BoundInv'
  <1> USE DEF request, bounds, raced
  <1>1. ASSUME NEW r \in Requests PROVE InHand(r)'
    <2>1. key[r] \in Keys /\ UNCHANGED <<db, pc, key, val>>
      BY DEF Tick, TypeOK
    <2>2. calm'[key[r]] = IF Held(key[r]) THEN 0 ELSE Calmer(calm[key[r]])
      BY <2>1 DEF Tick
    <2>3. CASE pc[r] \in {"store", "put", "backfill"} /\ Outdated(r)
      <3>1. Held(key[r])
        BY <2>3 DEF Held
      <3> QED
        BY <2>1, <2>2, <3>1, LivesAreNat DEF InHand
    <2>4. CASE ~(pc[r] \in {"store", "put", "backfill"} /\ Outdated(r))
      BY <2>1, <2>4 DEF InHand, Outdated
    <2> QED
      BY <2>3, <2>4
  <1>2. ASSUME NEW k \in Keys PROVE Bounded1(k)' /\ Bounded2(k)'
    <2>1. /\ ttl1'[k] = Less(ttl1[k]) /\ ttl2'[k] = Less(ttl2[k])
          /\ l1'[k] = (IF ttl1[k] <= 1 THEN Absent ELSE l1[k])
          /\ l2'[k] = (IF ttl2[k] <= 1 THEN Absent ELSE l2[k])
          /\ calm'[k] = (IF Held(k) THEN 0 ELSE Calmer(calm[k]))
          /\ db' = db
      BY DEF Tick
    <2>2. calm'[k] \in Nat /\ calm'[k] <= calm[k] + 1
      BY <2>1, NumbersAreTyped, LivesAreNat DEF Calmer
    <2>3. Bounded1(k) /\ Bounded2(k)
      BY DEF BoundInv
    <2>4. Bounded1(k)'
      BY <2>1, <2>2, <2>3, NumbersAreTyped, LivesAreNat DEF Bounded1, Stale1, Less
    <2>5. Bounded2(k)'
      BY <2>1, <2>2, <2>3, NumbersAreTyped, LivesAreNat DEF Bounded2, Stale2, Less
    <2> QED
      BY <2>4, <2>5
  <1> QED
    BY <1>1, <1>2 DEF BoundInv

(* Once nobody has an outdated row of a key in hand, L2 is stale for at most *)
(* its own life and L1 for at most the sum of both.                          *)
THEOREM StalenessEnds == Spec => []StalenessIsBounded
  <1> USE DEF caches, request, bounds, raced, history
  <1>1. Init => BoundInv
    BY DEF Init, BoundInv, InHand, Bounded1, Bounded2, Stale1, Stale2
  <1>2. TypeOK /\ BoundInv /\ [Next]_vars => BoundInv'
    <2> SUFFICES ASSUME TypeOK, BoundInv, [Next]_vars
                 PROVE  BoundInv'
      OBVIOUS
    <2>1. ASSUME NEW r \in Requests,
                 (r \in Gets /\ Get(r)) \/ (r \in Posts /\ Post(r)) \/ Fail(r)
          PROVE  BoundInv'
      BY <2>1, RequestKeepsBounds
    <2>2. ASSUME NEW dropped, DropL1(dropped), UNCHANGED <<db, l2, ttl2, request, calm>>
          PROVE  BoundInv'
      <3>1. \A k \in Keys : Bounded1(k)'
        BY <2>2, DropIsBounded DEF BoundInv
      <3> QED
        BY <2>2, <3>1 DEF BoundInv, Bounded2, Stale2, InHand, Outdated
    <2>3. CASE FlushDelete
      <3>1. UNCHANGED <<db, l1, ttl1, request, calm>>
        BY <2>3 DEF FlushDelete
      <3>2. ASSUME NEW k \in Keys PROVE Bounded2(k)'
        <4>1. l2'[k] = Absent \/ (l2'[k] = l2[k] /\ ttl2'[k] = ttl2[k])
          BY <2>3 DEF FlushDelete
        <4> QED
          BY <3>1, <4>1 DEF BoundInv, Bounded2, Stale2
      <3> QED
        BY <3>1, <3>2 DEF BoundInv, Bounded1, Stale1, InHand, Outdated
    <2>4. CASE Tick
      BY <2>4, TickKeepsBounds
    <2>5. CASE Crash
      <3>1. \A k \in Keys : calm'[k] = 0 /\ l1'[k] = Absent
        BY <2>5 DEF Crash, DropL1
      <3>2. \A r \in Requests : pc'[r] \in {"new", "done"}
        BY <2>5 DEF Crash
      <3>3. UNCHANGED <<l2, ttl2, key>>
        BY <2>5 DEF Crash
      <3>4. \A r \in Requests : InHand(r)'
        BY <3>2 DEF InHand
      <3>5. ASSUME NEW k \in Keys PROVE Bounded1(k)' /\ Bounded2(k)'
        <4>1. ttl2'[k] \in Nat /\ ttl2'[k] <= L2_TTL /\ calm'[k] = 0 /\ l1'[k] = Absent
          BY <3>1, <3>3, NumbersAreTyped
        <4> QED
          BY <4>1, LivesAreNat DEF Bounded1, Bounded2, Stale1
      <3> QED
        BY <3>4, <3>5 DEF BoundInv
    <2>6. CASE UNCHANGED vars
      BY <2>6 DEF vars, BoundInv, Bounded1, Bounded2, Stale1, Stale2, InHand, Outdated
    <2>7. ASSUME NEW D, FlushL1(D) PROVE BoundInv'
      BY <2>2, <2>7 DEF FlushL1
    <2>8. ASSUME NEW b \in BOOLEAN, FlushScan(b) PROVE BoundInv'
      BY <2>2, <2>8 DEF FlushScan
    <2> QED
      BY <2>1, <2>3, <2>4, <2>5, <2>6, <2>7, <2>8 DEF Next, Requests
  <1>3. BoundInv => StalenessIsBounded
    BY DEF BoundInv, Bounded1, Bounded2, StalenessIsBounded
  <1> QED
    BY <1>1, <1>2, <1>3, TypeCorrect, PTL DEF Spec

=============================================================================
