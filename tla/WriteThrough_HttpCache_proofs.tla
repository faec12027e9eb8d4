-------------------- MODULE WriteThrough_HttpCache_proofs --------------------
(* Proofs about WriteThrough, for every number of profiles, requests and     *)
(* faults, and about HttpCache, for every number of articles, browsers and   *)
(* writers. The two have no name in common and nothing to do with each other.*)
EXTENDS WriteThrough, HttpCache, FiniteSetTheorems, TLAPS

----------------------------------------------------------------------------
(* WriteThrough.                                                             *)

(* The type invariant, for the versions in SQLite, in Redis and in requests. *)
THEOREM TypeCorrect == Spec => []TypeOK
  <1>1. Init => TypeOK
    <2> SUFFICES ASSUME Init PROVE TypeOK
      OBVIOUS
    <2>1. 0 \in 0 .. MaxFaults
      BY WriteThroughAssumption
    <2> QED
      BY <2>1 DEF Init, TypeOK
  <1>2. TypeOK /\ [Next]_vars => TypeOK'
    <2> SUFFICES ASSUME TypeOK, [Next]_vars
                 PROVE  TypeOK'
      OBVIOUS
    <2> USE WriteThroughAssumption DEF TypeOK, request, clear, stats
    <2>1. ASSUME NEW r \in Requests, GetHit(r) \/ GetMiss(r) PROVE TypeOK'
      BY <2>1 DEF GetHit, GetMiss, Goto
    <2>2. ASSUME NEW r \in Requests, PutCommit(r) PROVE TypeOK'
      <3>1. overlapped' \in [Users -> BOOLEAN]
        <4>1. overlapped[user[r]] \/ Overlaps(r) \in BOOLEAN
          BY DEF Overlaps
        <4> QED
          BY <2>2, <4>1, Zenon DEF PutCommit
      <3> QED
        BY <2>2, <3>1 DEF PutCommit, Goto
    <2>3. ASSUME NEW r \in Requests, Load(r) \/ Reread(r) PROVE TypeOK'
      BY <2>3 DEF Load, Reread, Goto
    <2>4. ASSUME NEW r \in Requests, Fill(r) \/ Store(r) PROVE TypeOK'
      BY <2>4 DEF Fill, Store, Stored, Goto
    <2>5. ASSUME NEW r \in Requests, Fail(r) PROVE TypeOK'
      <3>1. overlapped' \in [Users -> BOOLEAN]
        <4>1. overlapped[user[r]] \/ Committed(r) \in BOOLEAN
          BY DEF Committed
        <4> QED
          BY <2>5, <4>1, Zenon DEF Fail
      <3>2. Stored(r) \in [Users -> Nat \cup {Absent}]
        BY DEF Stored
      <3>3. cached' \in [Users -> Nat \cup {Absent}]
        BY <2>5, <3>2 DEF Fail
      <3> QED
        BY <2>5, <3>1, <3>3 DEF Fail
    <2>6. ASSUME NEW u \in Users, Expire(u) PROVE TypeOK'
      BY <2>6 DEF Expire
    <2>7. CASE Clear
      <3>1. CASE ClearStart
        BY <3>1 DEF ClearStart
      <3>2. ASSUME NEW u \in Users, ClearKey(u) PROVE TypeOK'
        BY <3>2 DEF ClearKey
      <3>3. CASE ClearEnd
        BY <3>3 DEF ClearEnd
      <3> QED
        BY <2>7, <3>1, <3>2, <3>3 DEF Clear
    <2>8. CASE Crash
      <3>1. overlapped' \in [Users -> BOOLEAN]
        <4>1. \A u \in Users :
                  (overlapped[u] \/ \E r \in Requests : user[r] = u /\ Committed(r))
                      \in BOOLEAN
          BY Zenon
        <4> QED
          BY <2>8, <4>1, Zenon DEF Crash
      <3>2. pc' \in [Requests -> {"new", "load", "fill", "reread", "store", "done"}]
        BY <2>8 DEF Crash, InFlight
      <3>3. faults' \in 0 .. MaxFaults
        BY <2>8 DEF Crash
      <3> QED
        BY <2>8, <3>1, <3>2, <3>3 DEF Crash
    <2>9. CASE UNCHANGED vars
      BY <2>9 DEF vars
    <2> QED
      BY <2>1, <2>2, <2>3, <2>4, <2>5, <2>6, <2>7, <2>8, <2>9
         DEF Next, Continue
  <1> QED
    BY <1>1, <1>2, PTL DEF Spec

----------------------------------------------------------------------------
(* What a request holds is a version the row has had; a PUT's is at least    *)
(* its own.                                                                  *)
HeldBelow ==
    \A r \in Requests :
        pc[r] \in {"fill", "store"} => val[r] <= db[user[r]]

MineBelow == \A r \in Requests : Committed(r) => mine[r] <= db[user[r]]

HeldInv == HeldBelow /\ MineBelow /\ PutStoresItsWrite

LEMMA HeldInvariant == Spec => []HeldInv
  <1>1. Init => HeldInv
    BY DEF Init, HeldInv, HeldBelow, MineBelow, PutStoresItsWrite, Committed
  <1>2. TypeOK /\ HeldInv /\ [Next]_vars => HeldInv'
    <2> SUFFICES ASSUME TypeOK, HeldInv, [Next]_vars
                 PROVE  HeldInv'
      OBVIOUS
    <2> USE DEF TypeOK, HeldInv, HeldBelow, MineBelow, PutStoresItsWrite,
                Committed, request, clear, stats
    <2>1. ASSUME NEW r \in Requests, GetHit(r) \/ GetMiss(r) PROVE HeldInv'
      BY <2>1 DEF GetHit, GetMiss, Goto
    <2>2. ASSUME NEW r \in Requests, PutCommit(r) PROVE HeldInv'
      <3>1. \A u \in Users : db'[u] \in Nat /\ db[u] <= db'[u]
        BY <2>2 DEF PutCommit
      <3>2. db'[user[r]] = db[user[r]] + 1 /\ mine'[r] = db[user[r]] + 1
        BY <2>2 DEF PutCommit
      <3>3. \A q \in Requests \ {r} : mine'[q] = mine[q] /\ pc'[q] = pc[q]
        BY <2>2 DEF PutCommit, Goto
      <3>4. pc'[r] = "reread" /\ val' = val /\ user' = user
        BY <2>2 DEF PutCommit, Goto
      <3> QED
        BY <3>1, <3>2, <3>3, <3>4
    <2>3. ASSUME NEW r \in Requests, Load(r) \/ Reread(r) PROVE HeldInv'
      BY <2>3 DEF Load, Reread, Goto
    <2>4. ASSUME NEW r \in Requests, Fill(r) \/ Store(r) PROVE HeldInv'
      BY <2>4 DEF Fill, Store, Goto
    <2>5. ASSUME NEW r \in Requests, Fail(r) PROVE HeldInv'
      BY <2>5 DEF Fail
    <2>6. CASE Clear \/ \E u \in Users : Expire(u)
      BY <2>6 DEF Clear, ClearStart, ClearKey, ClearEnd, Expire
    <2>7. CASE Crash
      BY <2>7 DEF Crash, InFlight
    <2>8. CASE UNCHANGED vars
      BY <2>8 DEF vars
    <2> QED
      BY <2>1, <2>2, <2>3, <2>4, <2>5, <2>6, <2>7, <2>8 DEF Next, Continue
  <1> QED
    BY <1>1, <1>2, TypeCorrect, PTL DEF Spec

(* A PUT never overwrites its own write with an older version of the row.    *)
THEOREM PutKeepsItsWrite == Spec => []PutStoresItsWrite
  BY HeldInvariant, PTL DEF HeldInv

----------------------------------------------------------------------------
(* The router implements the cache contract: no interleaving, fault or clear *)
(* puts a version into Redis that SQLite never had.                          *)
THEOREM WriteThroughImplementsContract == Spec => ImplementsContract
  <1> USE DEF ImplementsContract, Contract!Spec, Contract!Init, Contract!Next, Contract!contractVars,
              Contract!Write, Contract!Store, Contract!Drop
  <1>1. Init => Contract!Init
    BY DEF Init
  <1>2. TypeOK /\ HeldInv /\ [Next]_vars => [Contract!Next]_Contract!contractVars
    <2> SUFFICES ASSUME TypeOK, HeldInv, [Next]_vars
                 PROVE  [Contract!Next]_Contract!contractVars
      OBVIOUS
    <2>1. ASSUME NEW r \in Requests, pc[r] \in {"fill", "store"},
                 cached' = Stored(r), db' = db
          PROVE  Contract!Store(user[r])
      <3>1. val[r] \in 0 .. db[user[r]]
        BY <2>1 DEF HeldInv, HeldBelow, TypeOK
      <3> QED
        BY <2>1, <3>1 DEF Stored
    <2>2. ASSUME NEW r \in Requests, PutCommit(r)
          PROVE  Contract!Write(user[r])
      BY <2>2 DEF PutCommit
    <2>3. ASSUME NEW r \in Requests, Fill(r) \/ Store(r)
          PROVE  Contract!Store(user[r])
      BY <2>1, <2>3 DEF Fill, Store, Goto
    <2>4. ASSUME NEW r \in Requests, Fail(r)
          PROVE  Contract!Store(user[r]) \/ UNCHANGED <<db, cached>>
      BY <2>1, <2>4 DEF Fail
    <2>5. ASSUME NEW u \in Users, Expire(u) \/ ClearKey(u)
          PROVE  Contract!Drop(u)
      BY <2>5 DEF Expire, ClearKey
    <2>6. ASSUME NEW r \in Requests,
                 GetHit(r) \/ GetMiss(r) \/ Load(r) \/ Reread(r)
          PROVE  UNCHANGED <<db, cached>>
      BY <2>6 DEF GetHit, GetMiss, Load, Reread
    <2>7. CASE ClearStart \/ ClearEnd \/ Crash \/ UNCHANGED vars
      BY <2>7 DEF ClearStart, ClearEnd, Crash, vars
    <2>8. \A r \in Requests : user[r] \in Users
      BY DEF TypeOK
    <2> QED
      BY <2>2, <2>3, <2>4, <2>5, <2>6, <2>7, <2>8 DEF Next, Continue, Clear
  <1> QED
    BY <1>1, <1>2, TypeCorrect, HeldInvariant, PTL DEF Spec

----------------------------------------------------------------------------
(* As long as no commit overlapped a holder of the row, every holder has the *)
(* newest version: what makes the entries coherent once the PUTs are over.   *)
HeldIsCurrent ==
    \A r \in Requests :
        ~overlapped[user[r]] /\ pc[r] \in {"fill", "store"} =>
            val[r] = db[user[r]]

StaleInv == HeldIsCurrent /\ StaleNeedsOverlap

(* A step that leaves versions, users and overlaps alone and in which no PUT *)
(* stops being under way keeps an entry that is dropped or left as it was.   *)
LEMMA StaleQuiet ==
    ASSUME TypeOK, StaleInv, UNCHANGED <<db, user, overlapped>>,
           \A r \in Requests : Committed(r) => Committed(r)',
           \A r \in Requests : pc'[r] \in {"fill", "store"} =>
               \/ pc[r] \in {"fill", "store"} /\ val'[r] = val[r]
               \/ val'[r] = db[user[r]],
           \A u \in Users : cached'[u] \in {Absent, cached[u]}
    PROVE  StaleInv'
  <1>1. HeldIsCurrent'
    BY DEF StaleInv, HeldIsCurrent
  <1>2. StaleNeedsOverlap'
    BY DEF StaleInv, StaleNeedsOverlap, Coherent, Writing
  <1> QED
    BY <1>1, <1>2 DEF StaleInv

(* SETEX of a held version.                                                  *)
LEMMA StaleStore ==
    ASSUME TypeOK, StaleInv, NEW r \in Requests, pc[r] \in {"fill", "store"},
           cached' = Stored(r), pc' = [pc EXCEPT ![r] = "done"],
           UNCHANGED <<db, user, val, overlapped>>
    PROVE  StaleInv'
  <1>1. \A q \in Requests \ {r} : pc'[q] = pc[q]
    BY DEF TypeOK
  <1>2. pc'[r] = "done"
    BY DEF TypeOK
  <1>3. HeldIsCurrent'
    BY <1>1, <1>2 DEF StaleInv, HeldIsCurrent
  <1>4. StaleNeedsOverlap'
    <2> SUFFICES ASSUME NEW u \in Users, ~overlapped[u], ~Writing(u)'
                 PROVE  Coherent(u)'
      BY DEF StaleNeedsOverlap
    <2>1. CASE u = user[r]
      <3>1. val[r] = db[u]
        BY <2>1 DEF StaleInv, HeldIsCurrent
      <3>2. cached'[u] = val[r]
        BY <2>1 DEF Stored, TypeOK
      <3> QED
        BY <3>1, <3>2 DEF Coherent
    <2>2. CASE u # user[r]
      <3>1. ~Writing(u)
        BY <1>1, <2>2 DEF Writing, Committed
      <3>2. cached'[u] = cached[u]
        BY <2>2 DEF Stored, TypeOK
      <3> QED
        BY <3>1, <3>2 DEF StaleInv, StaleNeedsOverlap, Coherent
    <2> QED
      BY <2>1, <2>2
  <1> QED
    BY <1>3, <1>4 DEF StaleInv

(* A commit: whoever holds a version of the row is overlapped from now on.   *)
LEMMA StalePut ==
    ASSUME TypeOK, StaleInv, NEW r \in Requests, PutCommit(r)
    PROVE  StaleInv'
  <1>1. /\ pc' = [pc EXCEPT ![r] = "reread"]
        /\ UNCHANGED <<cached, user, val>>
    BY DEF PutCommit, Goto
  <1>2. /\ pc'[r] = "reread"
        /\ \A q \in Requests \ {r} : pc'[q] = pc[q]
    BY <1>1 DEF TypeOK
  <1>3. \A u \in Users \ {user[r]} : db'[u] = db[u] /\ overlapped'[u] = overlapped[u]
    BY DEF PutCommit, TypeOK
  <1>4. ASSUME ~overlapped'[user[r]] PROVE ~Overlaps(r)
    <2>1. overlapped'[user[r]] = (overlapped[user[r]] \/ Overlaps(r))
      BY Zenon DEF PutCommit, TypeOK
    <2> QED
      BY <1>4, <2>1, Zenon
  <1>5. HeldIsCurrent'
    <2> SUFFICES ASSUME NEW q \in Requests, ~overlapped'[user[q]],
                        pc'[q] \in {"fill", "store"}
                 PROVE  val[q] = db'[user[q]]
      BY <1>1 DEF HeldIsCurrent
    <2>1. q # r /\ pc[q] \in {"fill", "store"}
      BY <1>2
    <2>2. user[q] # user[r]
      BY <1>4, <2>1 DEF Overlaps
    <2> QED
      BY <1>3, <2>1, <2>2 DEF StaleInv, HeldIsCurrent, TypeOK
  <1>6. StaleNeedsOverlap'
    <2> SUFFICES ASSUME NEW u \in Users, ~overlapped'[u], ~Writing(u)'
                 PROVE  Coherent(u)'
      BY DEF StaleNeedsOverlap
    <2>1. u # user[r]
      BY <1>1, <1>2 DEF Writing, Committed
    <2>2. ~Writing(u)
      BY <1>1, <1>2, <2>1 DEF Writing, Committed
    <2> QED
      BY <1>1, <1>3, <2>1, <2>2 DEF StaleInv, StaleNeedsOverlap, Coherent
  <1> QED
    BY <1>5, <1>6 DEF StaleInv

(* A failed call ends the request: a PUT that had committed marks its row.   *)
LEMMA StaleFail ==
    ASSUME TypeOK, StaleInv, NEW r \in Requests, Fail(r)
    PROVE  StaleInv'
  <1>1. /\ pc' = [pc EXCEPT ![r] = "done"]
        /\ UNCHANGED <<db, user, val>>
    BY DEF Fail
  <1>2. /\ pc'[r] = "done"
        /\ \A q \in Requests \ {r} : pc'[q] = pc[q]
    BY <1>1 DEF TypeOK
  <1>3. \A u \in Users \ {user[r]} : overlapped'[u] = overlapped[u]
    BY DEF Fail, TypeOK
  <1>4. overlapped'[user[r]] = (overlapped[user[r]] \/ Committed(r))
    BY Zenon DEF Fail, TypeOK
  <1>5. \A u \in Users : ~overlapped'[u] => ~overlapped[u]
    BY <1>3, <1>4, Zenon
  <1>6. HeldIsCurrent'
    <2> SUFFICES ASSUME NEW q \in Requests, ~overlapped'[user[q]],
                        pc'[q] \in {"fill", "store"}
                 PROVE  val[q] = db[user[q]]
      BY <1>1 DEF HeldIsCurrent
    <2>1. q # r /\ pc[q] \in {"fill", "store"} /\ ~overlapped[user[q]]
      BY <1>2, <1>5 DEF TypeOK
    <2> QED
      BY <2>1 DEF StaleInv, HeldIsCurrent
  <1>7. StaleNeedsOverlap'
    <2> SUFFICES ASSUME NEW u \in Users, ~overlapped'[u], ~Writing(u)'
                 PROVE  Coherent(u)'
      BY DEF StaleNeedsOverlap
    <2>1. ~overlapped[u]
      BY <1>5
    <2>2. user[r] = u => ~Committed(r)
      BY <1>4, Zenon
    <2>3. ~Writing(u)
      BY <1>1, <1>2, <2>2 DEF Writing, Committed
    <2>4. Coherent(u)
      BY <2>1, <2>3 DEF StaleInv, StaleNeedsOverlap
    <2>5. cached'[u] = cached[u] \/ cached'[u] = db[u]
      <3>1. CASE cached' = Stored(r) /\ pc[r] \in {"fill", "store"}
        <4>1. user[r] = u => val[r] = db[u]
          BY <2>1, <3>1 DEF StaleInv, HeldIsCurrent
        <4> QED
          BY <3>1, <4>1 DEF Stored, TypeOK
      <3> QED
        BY <3>1 DEF Fail
    <2> QED
      BY <1>1, <2>4, <2>5 DEF Coherent
  <1> QED
    BY <1>6, <1>7 DEF StaleInv

(* A restart marks the rows of every PUT it cut off.                         *)
LEMMA StaleCrash ==
    ASSUME TypeOK, StaleInv, Crash
    PROVE  StaleInv'
  <1>1. UNCHANGED <<db, cached, user, val>>
    BY DEF Crash
  <1>2. \A r \in Requests : pc'[r] \in {"new", "done"}
    BY DEF Crash, InFlight
  <1>3. \A u \in Users : ~overlapped'[u] => ~overlapped[u] /\ ~Writing(u)
    <2>1. \A u \in Users :
              overlapped'[u] = (overlapped[u] \/ \E r \in Requests :
                                                     user[r] = u /\ Committed(r))
      BY Zenon DEF Crash
    <2> QED
      BY <2>1, Zenon DEF Writing
  <1>4. HeldIsCurrent'
    BY <1>2 DEF HeldIsCurrent
  <1>5. StaleNeedsOverlap'
    BY <1>1, <1>3 DEF StaleInv, StaleNeedsOverlap, Coherent
  <1> QED
    BY <1>4, <1>5 DEF StaleInv

(* A stale entry with no PUT under way takes an overlap, for any number of   *)
(* requests: GET, PUT, DELETE /cache, expiry and restarts do not suffice.    *)
THEOREM StaleOnlyByOverlap == Spec => []StaleNeedsOverlap
  <1>1. Init => StaleInv
    BY DEF Init, StaleInv, HeldIsCurrent, StaleNeedsOverlap, Coherent
  <1>2. TypeOK /\ StaleInv /\ [Next]_vars => StaleInv'
    <2> SUFFICES ASSUME TypeOK, StaleInv, [Next]_vars
                 PROVE  StaleInv'
      OBVIOUS
    <2>1. ASSUME NEW r \in Requests, GetHit(r) \/ GetMiss(r) PROVE StaleInv'
      BY <2>1, StaleQuiet DEF GetHit, GetMiss, Goto, TypeOK, Committed
    <2>2. ASSUME NEW r \in Requests, Load(r) \/ Reread(r) PROVE StaleInv'
      <3>1. \A q \in Requests : pc'[q] \in {"fill", "store"} =>
               \/ pc[q] \in {"fill", "store"} /\ val'[q] = val[q]
               \/ val'[q] = db[user[q]]
        BY <2>2 DEF Load, Reread, Goto, TypeOK
      <3>2. \A q \in Requests : Committed(q) => Committed(q)'
        BY <2>2 DEF Load, Reread, Goto, TypeOK, Committed
      <3>3. UNCHANGED <<db, cached, user, overlapped>>
        BY <2>2 DEF Load, Reread
      <3> QED
        BY <3>1, <3>2, <3>3, StaleQuiet
    <2>3. ASSUME NEW r \in Requests, Fill(r) \/ Store(r) PROVE StaleInv'
      BY <2>3, StaleStore DEF Fill, Store, Goto
    <2>4. ASSUME NEW r \in Requests, PutCommit(r) PROVE StaleInv'
      BY <2>4, StalePut
    <2>5. ASSUME NEW r \in Requests, Fail(r) PROVE StaleInv'
      BY <2>5, StaleFail
    <2>6. ASSUME NEW u \in Users, Expire(u) \/ ClearKey(u) PROVE StaleInv'
      <3>1. UNCHANGED <<db, pc, user, val, overlapped>>
        BY <2>6 DEF Expire, ClearKey, request
      <3>2. \A v \in Users : cached'[v] \in {Absent, cached[v]}
        BY <2>6 DEF Expire, ClearKey, TypeOK
      <3> QED
        BY <3>1, <3>2, StaleQuiet DEF Committed
    <2>7. CASE ClearStart \/ ClearEnd \/ UNCHANGED vars
      <3>1. UNCHANGED <<db, cached, pc, user, val, overlapped>>
        BY <2>7 DEF ClearStart, ClearEnd, vars, request
      <3> QED
        BY <3>1, StaleQuiet DEF Committed
    <2>8. CASE Crash
      BY <2>8, StaleCrash
    <2> QED
      BY <2>1, <2>2, <2>3, <2>4, <2>5, <2>6, <2>7, <2>8 DEF Next, Continue, Clear
  <1>3. StaleInv => StaleNeedsOverlap
    BY DEF StaleInv
  <1> QED
    BY <1>1, <1>2, <1>3, TypeCorrect, PTL DEF Spec

----------------------------------------------------------------------------
(* HttpCache.                                                                *)

(* What an UPDATE leaves in a row: it is a row, the session's when it had    *)
(* read the last one, and the last one when it changed nothing.              *)
LEMMA MergedRow ==
    ASSUME NEW B, NEW V, NEW A,
           NEW old \in [body : B, version : V, at : A],
           NEW new \in [body : B, version : V, at : A],
           NEW now \in [body : B, version : V, at : A]
    PROVE  /\ Merged(old, new, now) \in [body : B, version : V, at : A]
           /\ old = now => Merged(old, new, now) = new
           /\ old = new => Merged(old, new, now) = now
  <1> DEFINE m == Merged(old, new, now)
  <1>1. DOMAIN now = {"body", "version", "at"} /\ DOMAIN new = {"body", "version", "at"}
    OBVIOUS
  <1>2. m = [c \in {"body", "version", "at"} |->
                IF new[c] # old[c] THEN new[c] ELSE now[c]]
    BY <1>1 DEF Merged
  <1> HIDE DEF m
  <1>3. m = [body |-> m.body, version |-> m.version, at |-> m.at]
    BY <1>2
  <1>4. /\ m.body \in {new.body, now.body}
        /\ m.version \in {new.version, now.version}
        /\ m.at \in {new.at, now.at}
    BY <1>2
  <1>5. m \in [body : B, version : V, at : A]
    BY <1>3, <1>4
  <1>6. ASSUME old = now PROVE m = new
    BY <1>2, <1>6
  <1>7. ASSUME old = new PROVE m = now
    BY <1>2, <1>7
  <1> QED
    BY <1>5, <1>6, <1>7 DEF m
----------------------------------------------------------------------------
(* The rows there can be so far: each PUT past its change has raised a       *)
(* version by one at most, and no time is later than the clock.              *)
Edited == {w \in Puts : stage[w] \in {"commit", "done"}}
RowSoFar == [body : Bodies \cup {SeedBody},
             version : 1 .. 1 + Cardinality(Edited), at : 0 .. Now]

RowsSoFar ==
    /\ row \in [Articles -> RowSoFar]
    /\ before \in [Writers -> [Articles -> RowSoFar]]
    /\ after \in [Writers -> [Articles -> RowSoFar]]
    /\ copy \in [Browsers -> {Nothing} \cup [Articles -> RowSoFar]]

PlacesOK ==
    /\ second \in 0 .. MaxSecond
    /\ stage \in [Writers -> {"new", "change", "commit", "done"}]
    /\ subject \in [Puts -> Articles]
    /\ page \in [Browsers -> SUBSET Articles]
    /\ answer \in [Browsers -> [by : {"nothing", "etag", "date", "list"}, wrong : SUBSET Articles]]
    /\ disturbed \subseteq Articles

HCTypeInv == PlacesOK /\ RowsSoFar

LEMMA EditedCounted ==
    /\ IsFiniteSet(Edited) /\ Cardinality(Edited) \in Nat
    /\ Cardinality(Puts) \in Nat
    /\ Cardinality(Edited) <= Cardinality(Puts)
  <1> DEFINE E == Edited
  <1>1. IsFiniteSet(Puts) /\ E \in SUBSET Puts
    BY HttpCacheAssumption DEF Edited
  <1> HIDE DEF E
  <1>2. IsFiniteSet(E) /\ Cardinality(E) <= Cardinality(Puts)
    BY <1>1, FS_Subset
  <1>3. Cardinality(E) \in Nat /\ Cardinality(Puts) \in Nat
    BY <1>1, <1>2, FS_CardinalityType
  <1> QED
    BY <1>2, <1>3 DEF E

(* The rows there can be are the more, the more PUTs have made their change. *)
LEMMA RowsGrow ==
    ASSUME PlacesOK, second' \in Nat, second <= second', Edited \subseteq Edited'
    PROVE  /\ RowSoFar \subseteq RowSoFar'
           /\ Cardinality(Edited') \in Nat /\ Cardinality(Edited) \in Nat
           /\ Cardinality(Edited) <= Cardinality(Edited')
  <1> DEFINE E == Edited
             F == Edited'
  <1>1. IsFiniteSet(Puts) /\ F \in SUBSET Puts /\ E \in SUBSET F
    BY HttpCacheAssumption DEF Edited
  <1> HIDE DEF E, F
  <1>2. IsFiniteSet(F)
    BY <1>1, FS_Subset
  <1>3. IsFiniteSet(E) /\ Cardinality(E) <= Cardinality(F)
    BY <1>1, <1>2, FS_Subset
  <1>4. Cardinality(E) \in Nat /\ Cardinality(F) \in Nat
    BY <1>2, <1>3, FS_CardinalityType
  <1>5. 1 .. 1 + Cardinality(E) \subseteq 1 .. 1 + Cardinality(F)
    BY <1>3, <1>4
  <1>6. 0 .. Now \subseteq 0 .. Now'
    <2>1. second \in Nat
      BY HttpCacheAssumption DEF PlacesOK
    <2> DEFINE s == second
               t == second'
    <2>2. Now = 2 * s + 1 /\ Now' = 2 * t + 1
      BY DEF Now
    <2>3. s \in Nat /\ t \in Nat /\ s <= t
      BY <2>1
    <2> HIDE DEF s, t
    <2>4. 2 * s + 1 \in Nat /\ 2 * t + 1 \in Nat /\ 2 * s + 1 <= 2 * t + 1
      BY <2>3
    <2> QED
      BY <2>2, <2>4
  <1>7. RowSoFar \subseteq RowSoFar'
    <2> DEFINE V == 1 .. 1 + Cardinality(E)
               W == 1 .. 1 + Cardinality(F)
               A == 0 .. Now
               B == 0 .. Now'
    <2>1. V \subseteq W /\ A \subseteq B
      BY <1>5, <1>6
    <2> HIDE DEF V, W, A, B
    <2>2. [body : Bodies \cup {SeedBody}, version : V, at : A]
              \subseteq [body : Bodies \cup {SeedBody}, version : W, at : B]
      BY <2>1
    <2> QED
      BY <2>2 DEF RowSoFar, E, F, V, W, A, B
  <1> QED
    BY <1>3, <1>4, <1>7 DEF E, F

LEMMA TypeInvInit == HCInit => HCTypeInv
  <1> SUFFICES ASSUME HCInit PROVE HCTypeInv
    OBVIOUS
  <1>1. Seed \in RowSoFar
    BY EditedCounted DEF Seed, RowSoFar, Now, HCInit
  <1>2. Seeded \in [Articles -> RowSoFar]
    BY <1>1 DEF Seeded
  <1>3. 0 \in 0 .. MaxSecond
    BY HttpCacheAssumption
  <1>4. page \in [Browsers -> SUBSET Articles]
    <2>1. {{a} : a \in Articles} \cup {Articles} \subseteq SUBSET Articles
      OBVIOUS
    <2> QED
      BY <2>1 DEF HCInit
  <1>5. RowsSoFar
    BY <1>2 DEF HCInit, RowsSoFar
  <1>6. PlacesOK
    BY <1>3, <1>4 DEF HCInit, PlacesOK
  <1> QED
    BY <1>5, <1>6 DEF HCTypeInv

(* What a PUT makes of the row it has read, and a commit of the row there is.*)
LEMMA EditTyped ==
    ASSUME HCTypeInv, NEW w \in Puts, NEW body \in Bodies, Edit(w, body)
    PROVE  HCTypeInv'
  <1> DEFINE a == subject[w]
             r == [body |-> body, version |-> before[w][a].version + 1, at |-> Now]
  <1>1. /\ w \in Writers /\ a \in Articles
        /\ stage[w] = "change" /\ stage' = [stage EXCEPT ![w] = "commit"]
        /\ after' = [after EXCEPT ![w] = [before[w] EXCEPT ![a] = r]]
        /\ UNCHANGED <<row, second, subject, before, browsing, disturbed>>
    BY DEF Edit, Advance, HCTypeInv, PlacesOK, Writers
  <1>2. /\ stage'[w] = "commit" /\ \A v \in Writers : v # w => stage'[v] = stage[v]
        /\ stage' \in [Writers -> {"new", "change", "commit", "done"}]
    BY <1>1 DEF HCTypeInv, PlacesOK
  <1>3. w \notin Edited /\ Edited' = Edited \cup {w}
    <2>1. w \notin Edited /\ w \in Edited'
      BY <1>1, <1>2 DEF Edited
    <2>2. \A v \in Puts : v # w => (v \in Edited <=> v \in Edited')
      BY <1>2 DEF Edited, Writers
    <2> QED
      BY <2>1, <2>2 DEF Edited
  <1>4. Cardinality(Edited') = Cardinality(Edited) + 1
    <2> DEFINE E == Edited
    <2>1. IsFiniteSet(E) /\ w \notin E
      BY <1>3, EditedCounted
    <2> HIDE DEF E
    <2>2. Cardinality(E \cup {w}) = Cardinality(E) + 1
      BY <2>1, FS_AddElement
    <2> QED
      BY <1>3, <2>2 DEF E
  <1>5. RowSoFar \subseteq RowSoFar'
    BY <1>1, <1>3, RowsGrow DEF HCTypeInv, PlacesOK
  <1>6. before[w] \in [Articles -> RowSoFar] /\ before[w][a] \in RowSoFar
    BY <1>1 DEF HCTypeInv, RowsSoFar
  <1>7. r \in RowSoFar'
    <2>1. Now \in 0 .. Now /\ Now' = Now
      BY <1>1, HttpCacheAssumption DEF Now, HCTypeInv, PlacesOK
    <2>2. before[w][a].version + 1 \in 1 .. 1 + Cardinality(Edited')
      BY <1>4, <1>6, EditedCounted DEF RowSoFar
    <2> QED
      BY <2>1, <2>2 DEF RowSoFar
  <1> HIDE DEF r, a
  <1>8. [before[w] EXCEPT ![a] = r] \in [Articles -> RowSoFar']
    BY <1>5, <1>6, <1>7
  <1>9. RowsSoFar'
    BY <1>1, <1>5, <1>8 DEF HCTypeInv, RowsSoFar, browsing
  <1>10. PlacesOK'
    BY <1>1, <1>2 DEF HCTypeInv, PlacesOK, browsing
  <1> QED
    BY <1>9, <1>10 DEF HCTypeInv

LEMMA CommitTyped ==
    ASSUME HCTypeInv, NEW w \in Writers
    PROVE  [a \in Articles |-> Merged(before[w][a], after[w][a], row[a])]
               \in [Articles -> RowSoFar]
  <1> SUFFICES ASSUME NEW a \in Articles
               PROVE  Merged(before[w][a], after[w][a], row[a]) \in RowSoFar
    OBVIOUS
  <1> DEFINE B == Bodies \cup {SeedBody}
             V == 1 .. 1 + Cardinality(Edited)
             A == 0 .. Now
             R == [body : B, version : V, at : A]
  <1>1. before[w][a] \in RowSoFar /\ after[w][a] \in RowSoFar /\ row[a] \in RowSoFar
    BY DEF HCTypeInv, RowsSoFar
  <1>2. RowSoFar = R
    BY DEF RowSoFar
  <1> HIDE DEF B, V, A
  <1>3. Merged(before[w][a], after[w][a], row[a]) \in R
    BY <1>1, <1>2, MergedRow
  <1> QED
    BY <1>2, <1>3

LEMMA TypeInvStep ==
    ASSUME HCTypeInv, [HCNext]_hcVars
    PROVE  HCTypeInv'
  <1> USE DEF writing, browsing
  <1>1. ASSUME Edited \subseteq Edited', UNCHANGED second
        PROVE  RowSoFar \subseteq RowSoFar'
    BY <1>1, RowsGrow DEF HCTypeInv, PlacesOK
  <1>2. ASSUME NEW w \in Writers, NEW q \in {"change", "commit", "done"},
               stage' = [stage EXCEPT ![w] = q],
               stage[w] \in {"commit", "done"} => q = "done"
        PROVE  /\ Edited \subseteq Edited'
               /\ stage' \in [Writers -> {"new", "change", "commit", "done"}]
    BY <1>2 DEF Edited, Writers, HCTypeInv, PlacesOK
  <1>3. ASSUME NEW w \in Writers, Read(w) PROVE HCTypeInv'
    <2>1. /\ stage' = [stage EXCEPT ![w] = "change"] /\ stage[w] = "new"
          /\ before' = [before EXCEPT ![w] = row]
          /\ UNCHANGED <<row, second, subject, after, page, copy, answer, disturbed>>
      BY <1>3 DEF Read, Advance
    <2>2. /\ RowSoFar \subseteq RowSoFar'
          /\ stage' \in [Writers -> {"new", "change", "commit", "done"}]
      BY <1>1, <1>2, <2>1
    <2> QED
      BY <2>1, <2>2 DEF HCTypeInv, PlacesOK, RowsSoFar
  <1>4. ASSUME NEW w \in Writers, SetBack(w) PROVE HCTypeInv'
    <2>1. /\ stage' = [stage EXCEPT ![w] = "commit"] /\ stage[w] = "change"
          /\ after' = [after EXCEPT ![w] = Seeded]
          /\ UNCHANGED <<row, second, subject, before, page, copy, answer, disturbed>>
      BY <1>4 DEF SetBack, Advance
    <2>2. /\ RowSoFar \subseteq RowSoFar'
          /\ stage' \in [Writers -> {"new", "change", "commit", "done"}]
      BY <1>1, <1>2, <2>1
    <2>3. Seeded \in [Articles -> RowSoFar]
      <3>1. Seed \in RowSoFar
        BY EditedCounted, HttpCacheAssumption
           DEF Seed, RowSoFar, Now, HCTypeInv, PlacesOK
      <3> QED
        BY <3>1 DEF Seeded
    <2> QED
      BY <2>1, <2>2, <2>3 DEF HCTypeInv, PlacesOK, RowsSoFar
  <1>5. ASSUME NEW w \in Writers, Commit(w) PROVE HCTypeInv'
    <2>1. /\ stage' = [stage EXCEPT ![w] = "done"] /\ stage[w] = "commit"
          /\ row' = [a \in Articles |-> Merged(before[w][a], after[w][a], row[a])]
          /\ UNCHANGED <<second, subject, before, after, page, copy, answer>>
          /\ disturbed' \subseteq Articles
      BY <1>5 DEF Commit, Advance, HCTypeInv, PlacesOK
    <2>2. /\ RowSoFar \subseteq RowSoFar'
          /\ stage' \in [Writers -> {"new", "change", "commit", "done"}]
      BY <1>1, <1>2, <2>1
    <2>3. row' \in [Articles -> RowSoFar]
      BY <2>1, CommitTyped
    <2> QED
      BY <2>1, <2>2, <2>3 DEF HCTypeInv, PlacesOK, RowsSoFar
  <1>6. ASSUME NEW w \in Writers, Abandon(w) PROVE HCTypeInv'
    <2>1. /\ stage' = [stage EXCEPT ![w] = "done"]
          /\ UNCHANGED <<row, second, subject, before, after, page, copy, answer, disturbed>>
      BY <1>6 DEF Abandon
    <2>2. /\ RowSoFar \subseteq RowSoFar'
          /\ stage' \in [Writers -> {"new", "change", "commit", "done"}]
      BY <1>1, <1>2, <2>1
    <2> QED
      BY <2>1, <2>2 DEF HCTypeInv, PlacesOK, RowsSoFar
  <1>7. ASSUME NEW b \in Browsers, Answer304(b) \/ Answer200(b) PROVE HCTypeInv'
    <2>1. UNCHANGED <<row, second, stage, subject, before, after, page, disturbed>>
      BY <1>7 DEF Answer304, Answer200
    <2>2. RowSoFar' = RowSoFar
      BY <2>1 DEF RowSoFar, Edited, Now
    <2>3. copy' \in [Browsers -> {Nothing} \cup [Articles -> RowSoFar]]
      BY <1>7 DEF Answer304, Answer200, HCTypeInv, RowsSoFar
    <2>4. answer' \in [Browsers -> [by : {"nothing", "etag", "date", "list"},
                                    wrong : SUBSET Articles]]
      <3>1. CASE Answer200(b)
        BY <3>1 DEF Answer200, HCTypeInv, PlacesOK
      <3>2. CASE Answer304(b)
        <4>1. PICK by \in {"etag", "date", "list"} :
                answer' = [answer EXCEPT ![b] = [by |-> by,
                    wrong |-> {a \in page[b] : copy[b][a].body # row[a].body}]]
          BY <3>2 DEF Answer304
        <4>2. {a \in page[b] : copy[b][a].body # row[a].body} \subseteq Articles
          BY DEF HCTypeInv, PlacesOK
        <4> QED
          BY <4>1, <4>2 DEF HCTypeInv, PlacesOK
      <3> QED
        BY <1>7, <3>1, <3>2
    <2> QED
      BY <2>1, <2>2, <2>3, <2>4 DEF HCTypeInv, PlacesOK, RowsSoFar
  <1>8. CASE Tick
    <2>1. /\ second' = second + 1 /\ second < MaxSecond
          /\ UNCHANGED <<row, stage, subject, before, after, page, copy, answer, disturbed>>
      BY <1>8 DEF Tick
    <2>2. second' \in 0 .. MaxSecond /\ second <= second' /\ second' \in Nat
      BY <2>1, HttpCacheAssumption DEF HCTypeInv, PlacesOK
    <2>3. RowSoFar \subseteq RowSoFar'
      BY <2>1, <2>2, RowsGrow DEF HCTypeInv, Edited
    <2> QED
      BY <2>1, <2>2, <2>3 DEF HCTypeInv, PlacesOK, RowsSoFar
  <1>9. CASE UNCHANGED hcVars
    BY <1>9 DEF hcVars, HCTypeInv, PlacesOK, RowsSoFar, RowSoFar, Edited, Now
  <1> QED
    BY <1>3, <1>4, <1>5, <1>6, <1>7, <1>8, <1>9, EditTyped
       DEF HCNext, Put, Reset, Writers

(* The type invariant: no PUT takes a version beyond one more than the       *)
(* number of PUTs, and no row has a time that the clock has yet to reach.    *)
THEOREM HCTypeCorrect == HCSpec => []HCTypeOK
  <1>1. HCTypeInv => HCTypeOK
    <2> SUFFICES ASSUME HCTypeInv PROVE HCTypeOK
      OBVIOUS
    <2>1. RowSoFar \subseteq Row
      <3>1. 1 .. 1 + Cardinality(Edited) \subseteq 1 .. Cardinality(Puts) + 1
        BY EditedCounted
      <3>2. 0 .. Now \subseteq 0 .. 2 * MaxSecond + 1
        BY HttpCacheAssumption DEF Now, HCTypeInv, PlacesOK
      <3> QED
        BY <3>1, <3>2 DEF RowSoFar, Row
    <2> QED
      BY <2>1 DEF HCTypeInv, PlacesOK, RowsSoFar, HCTypeOK
  <1> QED
    BY <1>1, TypeInvInit, TypeInvStep, PTL DEF HCSpec

----------------------------------------------------------------------------
(* A row follows another when it is the same or has a later version and a    *)
(* time later than what Last-Modified says of the other.                     *)
Follows(new, old) ==
    new = old \/ (old.version < new.version /\ 2 * (old.at \div 2) < new.at)

(* Every copy of an article that nobody disturbed is followed by its row.    *)
CopiesFollow ==
    \A b \in Browsers : copy[b] # Nothing =>
        \A a \in Articles \ disturbed : Follows(row[a], copy[b][a])

(* A PUT about to commit has changed its article, and no other: the next     *)
(* version, at a time with a fraction and not before the time it has read.   *)
EditsFollow ==
    \A w \in Puts : stage[w] = "commit" =>
        /\ \A a \in Articles \ {subject[w]} : after[w][a] = before[w][a]
        /\ after[w][subject[w]].version = before[w][subject[w]].version + 1
        /\ before[w][subject[w]].at <= after[w][subject[w]].at
        /\ \E s \in Nat : after[w][subject[w]].at = 2 * s + 1

HonestInv == CopiesFollow /\ EditsFollow /\ EtagsAreHonest /\ DatesAreHonest

LEMMA CutToSeconds ==
    ASSUME NEW n \in Nat
    PROVE  /\ n \div 2 \in Nat
           /\ 2 * (n \div 2) <= n
           /\ n < 2 * (n \div 2) + 2
  BY Z3

LEMMA HonestInit == HCInit => HonestInv
  <1> SUFFICES ASSUME HCInit PROVE HonestInv
    OBVIOUS
  <1>1. CopiesFollow
    BY DEF HCInit, CopiesFollow
  <1>2. EditsFollow
    BY DEF HCInit, EditsFollow, Writers
  <1>3. EtagsAreHonest /\ DatesAreHonest
    BY DEF HCInit, EtagsAreHonest, DatesAreHonest
  <1> QED
    BY <1>1, <1>2, <1>3 DEF HonestInv

(* A later version of an article that its writer had read follows every copy *)
(* that the article followed.                                                *)
LEMMA FollowsOn ==
    ASSUME NEW old, NEW now, NEW new,
           old.version \in Nat, now.version \in Nat, new.version = now.version + 1,
           old.at \in Nat, now.at \in Nat, now.at <= new.at,
           NEW s \in Nat, new.at = 2 * s + 1,
           Follows(now, old)
    PROVE  Follows(new, old)
  <1>1. 2 * (now.at \div 2) < new.at
    BY CutToSeconds
  <1>2. CASE now = old
    BY <1>1, <1>2 DEF Follows
  <1>3. CASE now # old
    <2>1. old.version < now.version /\ 2 * (old.at \div 2) < now.at
      BY <1>3 DEF Follows
    <2>2. old.version < new.version
      BY <2>1
    <2>3. old.at \div 2 \in Nat /\ new.at \in Nat
      BY CutToSeconds
    <2>4. 2 * (old.at \div 2) < new.at
      BY <2>1, <2>3
    <2> QED
      BY <2>2, <2>4 DEF Follows
  <1> QED
    BY <1>2, <1>3

(* A commit leaves the copies of an article behind it, or disturbs it.       *)
LEMMA CommitFollows ==
    ASSUME HCTypeInv, HonestInv, NEW w \in Writers, Commit(w)
    PROVE  CopiesFollow'
  <1> SUFFICES ASSUME NEW b \in Browsers, copy[b] # Nothing,
                      NEW a \in Articles, a \notin disturbed'
               PROVE  Follows(row'[a], copy[b][a])
    BY DEF CopiesFollow, Commit, browsing
  <1> DEFINE old == before[w][a]
             new == after[w][a]
             now == row[a]
  <1>1. /\ stage[w] = "commit"
        /\ row'[a] = Merged(old, new, now)
        /\ a \notin disturbed
        /\ old # new => w \notin Resets /\ old = now
    BY DEF Commit, Advance
  <1>2. old \in RowSoFar /\ new \in RowSoFar /\ now \in RowSoFar /\ copy[b][a] \in RowSoFar
    BY DEF HCTypeInv, RowsSoFar
  <1>3. Follows(now, copy[b][a])
    BY <1>1 DEF HonestInv, CopiesFollow
  <1>4. /\ old = now => row'[a] = new
        /\ old = new => row'[a] = now
    <2> DEFINE B == Bodies \cup {SeedBody}
               V == 1 .. 1 + Cardinality(Edited)
               A == 0 .. Now
               R == [body : B, version : V, at : A]
    <2>1. RowSoFar = R
      BY DEF RowSoFar
    <2> HIDE DEF B, V, A, old, new, now
    <2> QED
      BY <1>1, <1>2, <2>1, MergedRow
  <1>5. CASE old = new
    BY <1>3, <1>4, <1>5
  <1>6. CASE old # new
    <2>1. w \in Puts /\ row'[a] = new /\ old = now
      BY <1>1, <1>4, <1>6 DEF Writers
    <2>2. a = subject[w]
      BY <1>1, <1>6, <2>1 DEF HonestInv, EditsFollow
    <2>3. PICK s \in Nat : new.at = 2 * s + 1
      BY <1>1, <2>1, <2>2 DEF HonestInv, EditsFollow
    <2>4. new.version = now.version + 1 /\ now.at <= new.at
      BY <1>1, <2>1, <2>2 DEF HonestInv, EditsFollow
    <2>5. /\ copy[b][a].version \in Nat /\ now.version \in Nat
          /\ copy[b][a].at \in Nat /\ now.at \in Nat
      BY <1>2, EditedCounted DEF RowSoFar
    <2> HIDE DEF old, new, now
    <2>6. Follows(new, copy[b][a])
      BY <1>3, <2>3, <2>4, <2>5, FollowsOn
    <2> QED
      BY <2>1, <2>6
  <1> QED
    BY <1>5, <1>6

(* What a 304 says is true of the articles that nobody disturbed: the copy   *)
(* is not one of those that the row has left behind.                         *)
LEMMA AnswerHonest ==
    ASSUME HCTypeInv, HonestInv, NEW b \in Browsers, Answer304(b)
    PROVE  EtagsAreHonest' /\ DatesAreHonest'
  <1>1. copy[b] # Nothing /\ disturbed' = disturbed
    BY DEF Answer304
  <1> DEFINE wrong == {a \in page[b] : copy[b][a].body # row[a].body}
  <1>2. PICK by \in {"etag", "date", "list"} :
          Matches(b, by) /\ answer' = [answer EXCEPT ![b] = [by |-> by, wrong |-> wrong]]
    BY DEF Answer304
  <1>3. /\ answer'[b] = [by |-> by, wrong |-> wrong]
        /\ \A c \in Browsers : c # b => answer'[c] = answer[c]
    BY <1>2 DEF HCTypeInv, PlacesOK
  <1>4. \A a \in Articles : copy[b][a] \in RowSoFar /\ row[a] \in RowSoFar
    BY <1>1 DEF HCTypeInv, RowsSoFar
  <1>5. page[b] \subseteq Articles
    BY DEF HCTypeInv, PlacesOK
  <1>6. \A a \in Articles \ disturbed : Follows(row[a], copy[b][a])
    BY <1>1 DEF HonestInv, CopiesFollow
  <1>7. ASSUME by = "etag" PROVE wrong = {}
    BY <1>2, <1>7 DEF Matches, SameArticle
  <1>8. ASSUME by = "list" PROVE wrong \subseteq disturbed
    <2> SUFFICES ASSUME NEW a \in wrong, a \notin disturbed PROVE FALSE
      OBVIOUS
    <2>1. a \in Articles /\ copy[b][a].version = row[a].version
      BY <1>2, <1>5, <1>8 DEF Matches, SameList
    <2>2. row[a].version \in Nat
      BY <1>4, <2>1, EditedCounted DEF RowSoFar
    <2> QED
      BY <1>6, <2>1, <2>2 DEF Follows
  <1>9. ASSUME by = "date" PROVE wrong \subseteq disturbed
    <2> SUFFICES ASSUME NEW a \in wrong, a \notin disturbed PROVE FALSE
      OBVIOUS
    <2>1. a \in Articles /\ row[a].at <= 2 * (copy[b][a].at \div 2)
      BY <1>2, <1>5, <1>9 DEF Matches, NotModifiedSince
    <2>2. row[a].at \in Nat /\ copy[b][a].at \in Nat
      BY <1>4, <2>1, HttpCacheAssumption DEF RowSoFar
    <2>3. copy[b][a].at \div 2 \in Nat
      BY <2>2, CutToSeconds
    <2>4. ~(2 * (copy[b][a].at \div 2) < row[a].at)
      BY <2>1, <2>2, <2>3
    <2>5. row[a] = copy[b][a]
      BY <1>6, <2>1, <2>4 DEF Follows
    <2> QED
      BY <2>5
  <1> HIDE DEF wrong
  <1>10. EtagsAreHonest'
    BY <1>1, <1>3, <1>7, <1>8 DEF HonestInv, EtagsAreHonest
  <1>11. DatesAreHonest'
    BY <1>1, <1>3, <1>9 DEF HonestInv, DatesAreHonest
  <1> QED
    BY <1>10, <1>11

LEMMA HonestStep ==
    ASSUME HCTypeInv, HonestInv, [HCNext]_hcVars
    PROVE  HonestInv'
  <1> USE DEF writing, browsing
  <1>1. ASSUME disturbed \subseteq disturbed', UNCHANGED answer
        PROVE  EtagsAreHonest' /\ DatesAreHonest'
    BY <1>1 DEF HonestInv, EtagsAreHonest, DatesAreHonest
  <1>2. ASSUME UNCHANGED <<row, copy, disturbed>>
        PROVE  CopiesFollow'
    BY <1>2 DEF HonestInv, CopiesFollow
  <1>3. ASSUME UNCHANGED <<subject, after>>,
               \A w \in Puts : stage'[w] = "commit" =>
                   stage[w] = "commit" /\ before'[w] = before[w]
        PROVE  EditsFollow'
    BY <1>3 DEF HonestInv, EditsFollow
  <1>4. ASSUME NEW w \in Writers, Read(w) PROVE HonestInv'
    <2>1. /\ stage' = [stage EXCEPT ![w] = "change"]
          /\ before' = [before EXCEPT ![w] = row]
          /\ UNCHANGED <<row, subject, after, copy, answer, disturbed>>
      BY <1>4 DEF Read, Advance
    <2>2. \A v \in Puts : stage'[v] = "commit" => stage[v] = "commit" /\ before'[v] = before[v]
      BY <2>1 DEF HCTypeInv, PlacesOK, RowsSoFar, Writers
    <2> QED
      BY <1>1, <1>2, <1>3, <2>1, <2>2 DEF HonestInv
  <1>5. ASSUME NEW w \in Puts, NEW body \in Bodies, Edit(w, body) PROVE HonestInv'
    <2> DEFINE a == subject[w]
               r == [body |-> body, version |-> before[w][a].version + 1, at |-> Now]
    <2>1. /\ a \in Articles /\ w \in Writers
          /\ stage' = [stage EXCEPT ![w] = "commit"]
          /\ after' = [after EXCEPT ![w] = [before[w] EXCEPT ![a] = r]]
          /\ UNCHANGED <<row, second, subject, before, copy, answer, disturbed>>
      BY <1>5 DEF Edit, Advance, HCTypeInv, PlacesOK, Writers
    <2>2. r.version = before[w][a].version + 1 /\ r.at = Now
      OBVIOUS
    <2>3. Now = 2 * second + 1 /\ second \in Nat
      BY HttpCacheAssumption DEF Now, HCTypeInv, PlacesOK
    <2>4. before[w][a].at <= Now
      <3>1. before[w][a] \in RowSoFar
        BY <2>1 DEF HCTypeInv, RowsSoFar
      <3> QED
        BY <2>3, <3>1 DEF RowSoFar
    <2> HIDE DEF r
    <2>5. /\ after'[w][a] = r
          /\ \A c \in Articles \ {a} : after'[w][c] = before[w][c]
          /\ \A v \in Writers : v # w => after'[v] = after[v] /\ stage'[v] = stage[v]
      BY <2>1 DEF HCTypeInv, RowsSoFar, PlacesOK
    <2>6. EditsFollow'
      <3> SUFFICES ASSUME NEW v \in Puts, stage'[v] = "commit"
                   PROVE  /\ \A c \in Articles \ {subject[v]} : after'[v][c] = before[v][c]
                          /\ after'[v][subject[v]].version = before[v][subject[v]].version + 1
                          /\ before[v][subject[v]].at <= after'[v][subject[v]].at
                          /\ \E s \in Nat : after'[v][subject[v]].at = 2 * s + 1
        BY <2>1 DEF EditsFollow
      <3>1. CASE v = w
        BY <2>2, <2>3, <2>4, <2>5, <3>1
      <3>2. CASE v # w
        BY <2>5, <3>2 DEF HonestInv, EditsFollow, Writers
      <3> QED
        BY <3>1, <3>2
    <2> QED
      BY <1>1, <1>2, <2>1, <2>6 DEF HonestInv
  <1>6. ASSUME NEW w \in Resets, SetBack(w) PROVE HonestInv'
    <2>1. /\ stage' = [stage EXCEPT ![w] = "commit"]
          /\ after' = [after EXCEPT ![w] = Seeded]
          /\ UNCHANGED <<row, subject, before, copy, answer, disturbed>>
      BY <1>6 DEF SetBack, Advance
    <2>2. \A v \in Puts : stage'[v] = stage[v] /\ after'[v] = after[v]
      BY <2>1, HttpCacheAssumption DEF HCTypeInv, PlacesOK, RowsSoFar, Writers
    <2>3. EditsFollow'
      BY <2>1, <2>2 DEF HonestInv, EditsFollow
    <2> QED
      BY <1>1, <1>2, <2>1, <2>3 DEF HonestInv
  <1>7. ASSUME NEW w \in Writers, Commit(w) PROVE HonestInv'
    <2>1. /\ stage' = [stage EXCEPT ![w] = "done"]
          /\ disturbed \subseteq disturbed'
          /\ UNCHANGED <<subject, before, after, answer>>
      BY <1>7 DEF Commit, Advance
    <2>2. \A v \in Puts : stage'[v] = "commit" => stage[v] = "commit"
      BY <2>1 DEF HCTypeInv, PlacesOK, Writers
    <2> QED
      BY <1>1, <1>3, <1>7, <2>1, <2>2, CommitFollows DEF HonestInv
  <1>8. ASSUME NEW w \in Writers, Abandon(w) PROVE HonestInv'
    <2>1. /\ stage' = [stage EXCEPT ![w] = "done"]
          /\ UNCHANGED <<row, subject, before, after, copy, answer, disturbed>>
      BY <1>8 DEF Abandon
    <2>2. \A v \in Puts : stage'[v] = "commit" => stage[v] = "commit"
      BY <2>1 DEF HCTypeInv, PlacesOK, Writers
    <2> QED
      BY <1>1, <1>2, <1>3, <2>1, <2>2 DEF HonestInv
  <1>9. ASSUME NEW b \in Browsers, Answer304(b) PROVE HonestInv'
    BY <1>2, <1>3, <1>9, AnswerHonest DEF Answer304, HonestInv
  <1>10. ASSUME NEW b \in Browsers, Answer200(b) PROVE HonestInv'
    <2>1. /\ copy' = [copy EXCEPT ![b] = row]
          /\ answer' = [answer EXCEPT ![b] = [by |-> "nothing", wrong |-> {}]]
          /\ UNCHANGED <<row, stage, subject, before, after, disturbed>>
      BY <1>10 DEF Answer200
    <2>2. /\ copy'[b] = row /\ answer'[b].by = "nothing"
          /\ \A c \in Browsers : c # b => copy'[c] = copy[c] /\ answer'[c] = answer[c]
      BY <2>1 DEF HCTypeInv, PlacesOK, RowsSoFar
    <2>3. CopiesFollow'
      BY <2>1, <2>2 DEF HonestInv, CopiesFollow, Follows
    <2>4. EtagsAreHonest' /\ DatesAreHonest'
      BY <2>1, <2>2 DEF HonestInv, EtagsAreHonest, DatesAreHonest
    <2> QED
      BY <1>3, <2>1, <2>3, <2>4 DEF HonestInv
  <1>11. CASE Tick \/ UNCHANGED hcVars
    BY <1>1, <1>2, <1>3, <1>11 DEF Tick, hcVars, HonestInv
  <1> QED
    BY <1>4, <1>5, <1>6, <1>7, <1>8, <1>9, <1>10, <1>11 DEF HCNext, Put, Reset, Writers

(* The ETag of an article is never wrong, that of the list only about an     *)
(* article that was set back or whose writers had read the same row: for any *)
(* number of articles, browsers, PUTs and resets.                            *)
THEOREM EtagsCorrect == HCSpec => []EtagsAreHonest
  <1>1. HCInit => HCTypeInv /\ HonestInv
    BY TypeInvInit, HonestInit
  <1>2. HCTypeInv /\ HonestInv /\ [HCNext]_hcVars => HCTypeInv' /\ HonestInv'
    BY TypeInvStep, HonestStep
  <1>3. HonestInv => EtagsAreHonest
    BY DEF HonestInv
  <1> QED
    BY <1>1, <1>2, <1>3, PTL DEF HCSpec

(* Last-Modified, cut to seconds, is wrong only about such an article: two   *)
(* PUTs within a second are told apart.                                      *)
THEOREM DatesCorrect == HCSpec => []DatesAreHonest
  <1>1. HCInit => HCTypeInv /\ HonestInv
    BY TypeInvInit, HonestInit
  <1>2. HCTypeInv /\ HonestInv /\ [HCNext]_hcVars => HCTypeInv' /\ HonestInv'
    BY TypeInvStep, HonestStep
  <1>3. HonestInv => DatesAreHonest
    BY DEF HonestInv
  <1> QED
    BY <1>1, <1>2, <1>3, PTL DEF HCSpec
===============================================================================
