-------------------------- MODULE LookAside_proofs --------------------------
(* Proofs about LookAside, for every route, every number of requests and     *)
(* every set of keys.                                                        *)
EXTENDS LookAside, TLAPS

(* A route that labels by EXISTS never asks for TTL, and what a route stores *)
(* is a key.                                                                 *)
LEMMA RouteFlags ==
    ASSUME NEW rt \in Routes
    PROVE  /\ rt.peeks = TRUE \/ rt.peeks = FALSE
           /\ rt.asksTtl = TRUE \/ rt.asksTtl = FALSE
           /\ rt.peeks = FALSE \/ rt.asksTtl = FALSE
  <1>1. CASE rt = Product \/ rt = Order \/ rt = Herd
    BY <1>1 DEF Route, Product, Order, Herd
  <1>2. CASE rt = Article \/ rt = Recipe
    BY <1>2 DEF Route, Article, Recipe
  <1>3. CASE rt = Track \/ rt = Recipes \/ rt = Query \/ rt = Burst
    BY <1>3 DEF Route, Track, Recipes, Query, Burst
  <1> QED
    BY <1>1, <1>2, <1>3 DEF Routes

LEMMA RouteKeys ==
    ASSUME NEW rt \in Routes
    PROVE  /\ Rows \subseteq Storable(rt) /\ Storable(rt) \subseteq Keys
           /\ \A K \in Askable(rt) : K \subseteq Keys
  <1>1. Rows \subseteq Storable(rt) /\ Storable(rt) \subseteq Keys
    BY DEF Storable, Keys
  <1>2. \A K \in Askable(rt) : K \subseteq Keys
    BY DEF Askable, Keys
  <1> QED
    BY <1>1, <1>2

(* The type invariant.                                                       *)
THEOREM TypeCorrect == Spec => []TypeOK
  <1>1. Init => TypeOK
    <2> SUFFICES ASSUME Init PROVE TypeOK
      OBVIOUS
    <2>1. 0 \in 0 .. MaxFaults
      BY LookAsideAssumption
    <2>2. route.peeks \in BOOLEAN
      BY RouteFlags DEF Init
    <2>3. pc \in [Requests -> {"peek", "look", "ttl", "load", "fill", "done", "failed"}]
      BY <2>2 DEF Init
    <2> QED
      BY <2>1, <2>3 DEF Init, TypeOK, NoAnswer
  <1>2. TypeOK /\ [Next]_vars => TypeOK'
    <2> SUFFICES ASSUME TypeOK, [Next]_vars
                 PROVE  TypeOK'
      OBVIOUS
    <2> USE DEF TypeOK, Goto, clearVars
    <2>1. /\ Rows \subseteq Storable(route) /\ Storable(route) \subseteq Keys
          /\ \A r \in Requests : asked[r] \subseteq Keys
      BY RouteKeys
    <2>2. faults < MaxFaults => faults + 1 \in 0 .. MaxFaults
      BY LookAsideAssumption
    <2>3. ASSUME NEW K \in SUBSET Keys, Store(K), K \subseteq Storable(route),
                 UNCHANGED route
          PROVE  /\ cache' \subseteq Storable(route') /\ fresh' \subseteq Keys
                 /\ touched' \subseteq Requests
      BY <2>3 DEF Store, Concerned
    <2>4. ASSUME NEW K, Remove(K), UNCHANGED route
          PROVE  /\ cache' \subseteq Storable(route') /\ fresh' \subseteq Keys
                 /\ touched' \subseteq Requests
      BY <2>4 DEF Remove, Concerned
    <2>5. ASSUME NEW r \in Requests, NEW cached \in SUBSET Keys, NEW gone \in BOOLEAN,
                 Respond(r, cached, gone)
          PROVE  answer' \in [hit : SUBSET Keys, cached : SUBSET Keys, gone : BOOLEAN]
      BY <2>5 DEF Respond
    <2>6. ASSUME NEW r \in Requests
          PROVE  ToStore(r) \in SUBSET Keys /\ ToStore(r) \subseteq Storable(route)
      BY <2>1 DEF ToStore
    <2>7. ASSUME NEW r \in Requests, Peek(r) PROVE TypeOK'
      BY <2>1, <2>7 DEF Peek
    <2>8. ASSUME NEW r \in Requests, Look(r) PROVE TypeOK'
      BY <2>1, <2>5, <2>8 DEF Look
    <2>9. ASSUME NEW r \in Requests, AskTtl(r) PROVE TypeOK'
      BY <2>5, <2>9 DEF AskTtl
    <2>10. ASSUME NEW r \in Requests, Load(r) PROVE TypeOK'
      BY <2>5, <2>10 DEF Load
    <2>11. ASSUME NEW r \in Requests, Fill(r) PROVE TypeOK'
      BY <2>3, <2>5, <2>6, <2>11 DEF Fill
    <2>12. ASSUME NEW r \in Requests, Fail(r) PROVE TypeOK'
      <3>1. /\ pc' \in [Requests -> {"peek", "look", "ttl", "load", "fill", "done", "failed"}]
            /\ shrugged' \subseteq Requests
        <4>1. CASE Shrug(r)
          BY <4>1 DEF Shrug, ShrugPeek, ShrugLook, ShrugFill
        <4>2. CASE Raise(r)
          BY <4>2 DEF Raise
        <4> QED
          BY <2>12, <4>1, <4>2 DEF Fail
      <3>2. /\ cache' \subseteq Storable(route') /\ fresh' \subseteq Keys
            /\ touched' \subseteq Requests
        BY <2>3, <2>6, <2>12 DEF Fail, Shrug, ShrugPeek, ShrugLook, ShrugFill, Raise
      <3>3. answer' \in [hit : SUBSET Keys, cached : SUBSET Keys, gone : BOOLEAN]
        BY <2>5, <2>12 DEF Fail, Shrug, ShrugPeek, ShrugLook, ShrugFill, Raise
      <3> QED
        BY <2>2, <2>12, <3>1, <3>2, <3>3 DEF Fail
    <2>13. ASSUME NEW k \in Keys, Expire(k) \/ Populate(k) PROVE TypeOK'
      BY <2>1, <2>3, <2>4, <2>13 DEF Expire, Populate
    <2>14. CASE ClearStart \/ ClearScan \/ ClearEnd
      BY <2>14 DEF ClearStart, ClearScan, ClearEnd
    <2>15. CASE ClearDelete
      BY <2>4, <2>15 DEF ClearDelete
    <2>16. CASE ClearFail
      BY <2>2, <2>4, <2>16 DEF ClearFail
    <2>17. CASE Crash
      BY <2>2, <2>17 DEF Crash
    <2>18. CASE UNCHANGED vars
      BY <2>18 DEF vars
    <2> QED
      BY <2>7, <2>8, <2>9, <2>10, <2>11, <2>12, <2>13, <2>14, <2>15, <2>16, <2>17,
         <2>18 DEF Next, Get, Clear
  <1> QED
    BY <1>1, <1>2, PTL DEF Spec

----------------------------------------------------------------------------
(* While a clear is under way, what the cache holds is still to be scanned,  *)
(* or found and to be deleted, or was stored since.                          *)
ClearInv == clearing => cache \subseteq todo \cup batch \cup fresh

LEMMA ClearStep ==
    ASSUME TypeOK, ClearInv, [Next]_vars
    PROVE  /\ ClearInv'
           /\ clearing /\ ~clearing' /\ faults' = faults => cache' \subseteq fresh'
  <1> DEFINE Goal == /\ ClearInv'
                     /\ clearing /\ ~clearing' /\ faults' = faults
                            => cache' \subseteq fresh'
  <1> USE DEF ClearInv, clearVars
  <1>1. ASSUME UNCHANGED <<cache, clearing, todo, batch, fresh>> PROVE Goal
    BY <1>1
  <1>2. ASSUME NEW K, Store(K) \/ Remove(K), UNCHANGED clearVars PROVE Goal
    BY <1>2 DEF Store, Remove
  <1>3. ASSUME faults' = faults + 1, clearing' = FALSE PROVE Goal
    BY <1>3 DEF TypeOK
  <1>4. ASSUME NEW r \in Requests, Peek(r) \/ Look(r) \/ AskTtl(r) \/ Load(r)
        PROVE  Goal
    BY <1>1, <1>4 DEF Peek, Look, AskTtl, Load
  <1>5. ASSUME NEW r \in Requests, Fill(r) PROVE Goal
    BY <1>2, <1>5 DEF Fill
  <1>6. ASSUME NEW r \in Requests, Fail(r) PROVE Goal
    <2>1. \/ UNCHANGED <<cache, fresh>>
          \/ Store(ToStore(r))
      BY <1>6 DEF Fail, Shrug, ShrugPeek, ShrugLook, ShrugFill, Raise
    <2> QED
      BY <1>1, <1>2, <1>6, <2>1 DEF Fail
  <1>7. ASSUME NEW k \in Keys, Expire(k) \/ Populate(k) PROVE Goal
    BY <1>2, <1>7 DEF Expire, Populate
  <1>8. CASE ClearStart
    BY <1>8, RouteKeys DEF ClearStart, TypeOK
  <1>9. CASE ClearScan
    BY <1>9 DEF ClearScan
  <1>10. CASE ClearDelete
    BY <1>10 DEF ClearDelete, Remove
  <1>11. CASE ClearEnd
    BY <1>11 DEF ClearEnd
  <1>12. CASE ClearFail \/ Crash
    BY <1>3, <1>12 DEF ClearFail, Crash
  <1>13. CASE UNCHANGED vars
    BY <1>1, <1>13 DEF vars
  <1> QED
    BY <1>4, <1>5, <1>6, <1>7, <1>8, <1>9, <1>10, <1>11, <1>12, <1>13
       DEF Next, Get, Clear

(* A DELETE /cache that ends has removed whatever was not stored after it    *)
(* began, for every way the routers have of deleting what they find.         *)
THEOREM ClearLeavesNothing == Spec => ClearIsComplete
  <1>1. Init => ClearInv
    BY DEF Init, ClearInv
  <1>2. TypeOK /\ ClearInv /\ [Next]_vars => ClearInv'
    BY ClearStep
  <1>3. TypeOK /\ ClearInv /\ [Next]_vars
            => [clearing /\ ~clearing' /\ faults' = faults
                    => cache' \subseteq fresh']_vars
    BY ClearStep
  <1> QED
    BY <1>1, <1>2, <1>3, TypeCorrect, PTL DEF Spec, ClearIsComplete

----------------------------------------------------------------------------
(* Where a request stands between two looks at Redis: what EXISTS said still *)
(* holds, or an entry came or went; later, what it said is what GET found,   *)
(* or an entry did; and an entry whose TTL is to be asked is there, or went. *)
Excused(r) == r \in touched \cup shrugged
Explained(r) ==
    /\ pc[r] = "look" /\ route.peeks
          => pre[r] = asked[r] \cap cache \/ Excused(r)
    /\ pc[r] \in {"load", "fill"} /\ route.peeks => pre[r] = found[r] \/ Excused(r)
    /\ pc[r] = "ttl" => ~route.peeks /\ (asked[r] \subseteq cache \/ r \in touched)
LabelInv == \A r \in Requests : Explained(r)

Labelled(r) ==
    pc[r] # "done" /\ pc'[r] = "done" =>
        /\ answer'.hit # answer'.cached => r \in touched \cup shrugged'
        /\ answer'.gone => r \in touched

(* Whatever comes and goes, a request that it concerns is noted.             *)
LEMMA ChangesAreNoted ==
    ASSUME TypeOK, NEW K, Store(K) \/ Remove(K), NEW r \in Requests,
           pc[r] \in {"look", "ttl"}, r \notin touched'
    PROVE  asked[r] \cap cache' = asked[r] \cap cache /\ r \notin touched
  BY DEF Store, Remove, Concerned

(* A request that does not move stays explained, whatever happens around it. *)
LEMMA BystandersStayExplained ==
    ASSUME TypeOK, NEW s \in Requests, Explained(s), route' = route, asked' = asked,
           pc'[s] = pc[s], pre'[s] = pre[s], found'[s] = found[s],
           s \in shrugged => s \in shrugged',
           \/ UNCHANGED cache /\ (s \in touched => s \in touched')
           \/ \E K : Store(K) \/ Remove(K)
    PROVE  Explained(s)'
  <1>1. CASE UNCHANGED cache /\ (s \in touched => s \in touched')
    BY <1>1 DEF Explained, Excused
  <1>2. ASSUME NEW K, Store(K) \/ Remove(K) PROVE Explained(s)'
    <2>1. s \in touched => s \in touched'
      BY <1>2 DEF Store, Remove
    <2>2. CASE pc[s] \in {"look", "ttl"} /\ s \notin touched'
      <3>1. asked[s] \cap cache' = asked[s] \cap cache
        BY <1>2, <2>2, ChangesAreNoted
      <3> QED
        BY <2>1, <2>2, <3>1 DEF Explained, Excused
    <2>3. CASE ~(pc[s] \in {"look", "ttl"} /\ s \notin touched')
      BY <2>1, <2>3 DEF Explained, Excused
    <2> QED
      BY <2>2, <2>3
  <1> QED
    BY <1>1, <1>2

(* Each answer is labelled by what the request knew, and the request knew it *)
(* rightly or is excused.                                                    *)
LEMMA LabelStep ==
    ASSUME TypeOK, LabelInv, [Next]_vars
    PROVE  LabelInv' /\ \A r \in Requests : Labelled(r)
  <1> SUFFICES ASSUME NEW s \in Requests PROVE Explained(s)' /\ Labelled(s)
    BY DEF LabelInv
  <1> DEFINE Goal == Explained(s)' /\ Labelled(s)
  <1>0. Explained(s) /\ (route.peeks = TRUE \/ route.peeks = FALSE)
        /\ (route.asksTtl => ~route.peeks)
    BY RouteFlags DEF LabelInv, TypeOK
  <1>1. ASSUME pc'[s] = pc[s], pre'[s] = pre[s], found'[s] = found[s],
               UNCHANGED <<route, asked>>, s \in shrugged => s \in shrugged',
               \/ UNCHANGED cache /\ (s \in touched => s \in touched')
               \/ \E K : Store(K) \/ Remove(K)
        PROVE  Goal
    BY <1>0, <1>1, BystandersStayExplained DEF Labelled
  <1> USE DEF Goto, TypeOK, clearVars
  <1>2. ASSUME NEW r \in Requests, Peek(r) PROVE Goal
    <2>1. CASE r = s
      BY <1>2, <2>1 DEF Peek, Explained, Labelled
    <2>2. CASE r # s
      BY <1>1, <1>2, <2>2 DEF Peek
    <2> QED
      BY <2>1, <2>2
  <1>3. ASSUME NEW r \in Requests, Look(r) PROVE Goal
    <2>1. CASE r = s
      <3> DEFINE got == asked[s] \cap cache
      <3>1. found'[s] = got /\ pre'[s] = pre[s] /\ UNCHANGED <<route, asked, cache, shrugged>>
        BY <1>3, <2>1 DEF Look
      <3>2. pc[s] = "look" /\ (route.peeks => pre[s] = got \/ Excused(s))
        BY <1>0, <1>3, <2>1 DEF Look, Explained
      <3>3. CASE got = asked[s] /\ route.asksTtl
        <4>1. pc'[s] = "ttl"
          BY <1>3, <2>1, <3>3 DEF Look
        <4> QED
          BY <1>0, <3>1, <3>3, <4>1 DEF Explained, Labelled
      <3>4. CASE got = asked[s] /\ ~route.asksTtl
        <4>1. pc'[s] = "done" /\ Respond(s, got, FALSE)
          BY <1>3, <2>1, <3>4 DEF Look
        <4> QED
          BY <1>0, <3>1, <3>2, <4>1 DEF Respond, Explained, Excused, Labelled
      <3>5. CASE got # asked[s]
        <4>1. pc'[s] = "load" /\ UNCHANGED touched
          BY <1>3, <2>1, <3>5 DEF Look
        <4> QED
          BY <3>1, <3>2, <4>1 DEF Explained, Excused, Labelled
      <3> QED
        BY <3>3, <3>4, <3>5
    <2>2. CASE r # s
      BY <1>1, <1>3, <2>2 DEF Look
    <2> QED
      BY <2>1, <2>2
  <1>4. ASSUME NEW r \in Requests, AskTtl(r) PROVE Goal
    <2>1. CASE r = s
      BY <1>0, <1>4, <2>1 DEF AskTtl, Respond, Explained, Labelled
    <2>2. CASE r # s
      BY <1>1, <1>4, <2>2 DEF AskTtl
    <2> QED
      BY <2>1, <2>2
  <1>5. ASSUME NEW r \in Requests, Load(r) PROVE Goal
    <2>1. CASE r = s
      BY <1>0, <1>5, <2>1 DEF Load, Respond, Explained, Excused, Labelled
    <2>2. CASE r # s
      BY <1>1, <1>5, <2>2 DEF Load
    <2> QED
      BY <2>1, <2>2
  <1>6. ASSUME NEW r \in Requests, Fill(r) PROVE Goal
    <2>1. CASE r = s
      BY <1>0, <1>6, <2>1 DEF Fill, Respond, Explained, Excused, Labelled
    <2>2. CASE r # s
      BY <1>1, <1>6, <2>2 DEF Fill
    <2> QED
      BY <2>1, <2>2
  <1>7. ASSUME NEW r \in Requests, Fail(r), Shrug(r) PROVE Goal
    <2>1. CASE r = s
      BY <1>0, <1>7, <2>1 DEF Fail, Shrug, ShrugPeek, ShrugLook, ShrugFill, Respond,
         Explained, Excused, Labelled
    <2>2. CASE r # s
      BY <1>1, <1>7, <2>2 DEF Fail, Shrug, ShrugPeek, ShrugLook, ShrugFill
    <2> QED
      BY <2>1, <2>2
  <1>8. ASSUME NEW r \in Requests, Fail(r), Raise(r) PROVE Goal
    <2>1. CASE r = s
      BY <1>8, <2>1 DEF Fail, Raise, Explained, Labelled
    <2>2. CASE r # s
      BY <1>1, <1>8, <2>2 DEF Fail, Raise
    <2> QED
      BY <2>1, <2>2
  <1>9. ASSUME NEW k \in Keys, Expire(k) \/ Populate(k) PROVE Goal
    BY <1>1, <1>9 DEF Expire, Populate
  <1>10. CASE ClearStart \/ ClearScan \/ ClearEnd
    BY <1>1, <1>10 DEF ClearStart, ClearScan, ClearEnd
  <1>11. CASE ClearDelete \/ ClearFail
    BY <1>1, <1>11 DEF ClearDelete, ClearFail
  <1>12. CASE Crash
    BY <1>12 DEF Crash, Explained, Labelled
  <1>13. CASE UNCHANGED vars
    BY <1>1, <1>13 DEF vars
  <1> QED
    BY <1>2, <1>3, <1>4, <1>5, <1>6, <1>7, <1>8, <1>9, <1>10, <1>11, <1>12, <1>13
       DEF Next, Get, Clear, Fail

(* A wrong label, or the life of an entry that is gone, takes a race or a    *)
(* failure the handler swallowed, for every route.                           *)
THEOREM LabelsNeedRaces == Spec => MislabelNeedsRace
  <1>1. Init => LabelInv
    BY RouteFlags DEF Init, LabelInv, Explained
  <1>2. TypeOK /\ LabelInv /\ [Next]_vars => LabelInv'
    BY LabelStep
  <1>3. TypeOK /\ LabelInv /\ [Next]_vars
            => [\A r \in Requests : pc[r] # "done" /\ pc'[r] = "done" =>
                    /\ answer'.hit # answer'.cached => r \in touched \cup shrugged'
                    /\ answer'.gone => r \in touched]_vars
    BY LabelStep DEF Labelled
  <1> QED
    BY <1>1, <1>2, <1>3, TypeCorrect, PTL DEF Spec, MislabelNeedsRace

=============================================================================
