----------------------------- MODULE LookAside -----------------------------
(* The routers that only read through a cache: look in Redis, on a miss load *)
(* the row and store it. Redis object cache (2.2), cache-aside (2.3),        *)
(* aiocache's read-through decorator (2.6), the response cache middleware    *)
(* (2.7), aiocache used directly, for one key and for several (2.9), the     *)
(* query cache (2.10), and the plain and jittered articles of 2.12. A route  *)
(* is a record of what its handler does; one is chosen in Init. No handler   *)
(* of theirs changes a row, so an entry is present or absent and never old.  *)
(* One action is the code between two awaits. Left out: the 503 and 400 of   *)
(* the first lines, the counters behind GET /stats, and the lives POST       *)
(* /simulate of 2.12 reads after its burst.                                  *)
EXTENDS Naturals, FiniteSets

CONSTANTS
    Requests,   \* GETs of the route
    Rows,       \* keys of rows that exist
    Missing,    \* keys of rows that do not
    MaxFaults   \* bound: failed calls and restarts in a behaviour

Keys == Rows \cup Missing

ASSUME LookAsideAssumption ==
    /\ Rows \cap Missing = {}
    /\ MaxFaults \in Nat

VARIABLES
    route,      \* the handler under study
    asked,      \* the keys each request asks for, one unless the route is a batch
    pc,         \* where each request is
    cache,      \* keys that have an entry in Redis
    pre,        \* keys that EXISTS found before the fetch
    found,      \* keys whose entry the fetch found
    answer,     \* the last answer: the keys it labels a hit, those it took from
                \* the cache, and whether it reports the life of no entry
    clearing,   \* DELETE /cache is under way
    todo,       \* keys its SCAN has not come to
    batch,      \* keys it has found and not deleted
    faults,     \* faults so far
    fresh,      \* history: keys stored since the clear began
    touched,    \* history: requests with a key that came or went since they looked
    shrugged    \* history: requests that swallowed a failure

clearVars == <<clearing, todo, batch>>
vars == <<route, asked, pc, cache, pre, found, answer, clearVars, faults,
          fresh, touched, shrugged>>

(* What each handler does: whether it asks EXISTS first and labels by that,  *)
(* whether it reads the TTL after a hit; a missing row is stored as null,    *)
(* passed on uncached, or never asked for; which failures it swallows; how   *)
(* DELETE /cache removes what it finds: key by key, a SCAN page at once, or  *)
(* all of KEYS at once.                                                      *)
Route(peeks, asksTtl, missing, shrugs, many, clear) ==
    [peeks |-> peeks, asksTtl |-> asksTtl, missing |-> missing,
     shrugs |-> shrugs, many |-> many, clear |-> clear]

(*               peeks  asksTtl  missing   shrugs            many   clear    *)
Product == Route(FALSE, TRUE,    "none",   {},               FALSE, "key")
Order ==   Route(FALSE, TRUE,    "stored", {},               FALSE, "key")
Article == Route(TRUE,  FALSE,   "none",   {"look", "fill"}, FALSE, "page")
Track ==   Route(FALSE, FALSE,   "passed", {},               FALSE, "page")
Recipe ==  Route(TRUE,  FALSE,   "none",   {"peek"},         FALSE, "all")
Recipes == Route(FALSE, FALSE,   "none",   {},               TRUE,  "all")
Query ==   Route(FALSE, FALSE,   "none",   {},               FALSE, "page")
Herd ==    Route(FALSE, TRUE,    "none",   {},               FALSE, "page")
Burst ==   Route(FALSE, FALSE,   "none",   {},               FALSE, "page")

Routes == {Product, Order, Article, Track, Recipe, Recipes, Query, Herd, Burst}

Askable(rt) ==
    IF rt.many THEN SUBSET Rows \ {{}}
    ELSE {{k} : k \in IF rt.missing = "none" THEN Rows ELSE Keys}

Storable(rt) == IF rt.missing = "stored" THEN Keys ELSE Rows

NoAnswer == [hit |-> {}, cached |-> {}, gone |-> FALSE]

(* Redis may hold entries from before.                                       *)
Init ==
    /\ route \in Routes
    /\ asked \in [Requests -> Askable(route)]
    /\ pc = [r \in Requests |-> IF route.peeks THEN "peek" ELSE "look"]
    /\ cache \in SUBSET Storable(route)
    /\ pre = [r \in Requests |-> {}]
    /\ found = [r \in Requests |-> {}]
    /\ answer = NoAnswer
    /\ clearing = FALSE
    /\ todo = {}
    /\ batch = {}
    /\ faults = 0
    /\ fresh = {}
    /\ touched = {}
    /\ shrugged = {}

Goto(r, from, to) ==
    /\ pc[r] = from
    /\ pc' = [pc EXCEPT ![r] = to]

(* Requests between two looks at Redis, under which a key of K changes.      *)
Concerned(K) ==
    {r \in Requests : pc[r] \in {"look", "ttl"} /\ asked[r] \cap K # {}}

(* Entries come and go. Only what changes touches a request.                 *)
Store(K) ==
    /\ cache' = cache \cup K
    /\ fresh' = fresh \cup K
    /\ touched' = touched \cup Concerned(K \ cache)

Remove(K) ==
    /\ cache' = cache \ K
    /\ fresh' = fresh \ K
    /\ touched' = touched \cup Concerned(K \cap cache)

(* The answer of r, labelled by EXISTS where the route asks it. The counters *)
(* of the route follow the label.                                            *)
Respond(r, cached, gone) ==
    answer' = [hit |-> IF route.peeks THEN pre[r] ELSE cached,
               cached |-> cached, gone |-> gone]

----------------------------------------------------------------------------
(* Mutant: EXISTS on the key without its namespace.                          *)
PeekElsewhere(r) ==
    /\ Goto(r, "peek", "look")
    /\ pre' = [pre EXCEPT ![r] = {}]
    /\ touched' = touched \ {r}
    /\ UNCHANGED <<route, asked, cache, found, answer, clearVars, faults, fresh, shrugged>>

(* EXISTS, to label the answer.                                              *)
Peek(r) ==
    /\ Goto(r, "peek", "look")
    /\ pre' = [pre EXCEPT ![r] = asked[r] \cap cache]
    /\ touched' = touched \ {r}
    /\ UNCHANGED <<route, asked, cache, found, answer, clearVars, faults, fresh, shrugged>>

(* GET or MGET. A hit is answered, after TTL where the route asks for it;    *)
(* a request with a miss goes for the database.                              *)
Look(r) ==
    LET got == asked[r] \cap cache IN
    /\ found' = [found EXCEPT ![r] = got]
    /\ \/ /\ got = asked[r] /\ route.asksTtl
          /\ Goto(r, "look", "ttl")
          /\ touched' = touched \ {r}
          /\ UNCHANGED answer
       \/ /\ got = asked[r] /\ ~route.asksTtl
          /\ Goto(r, "look", "done")
          /\ Respond(r, got, FALSE)
          /\ UNCHANGED touched
       \/ /\ got # asked[r]
          /\ Goto(r, "look", "load")
          /\ UNCHANGED <<answer, touched>>
    /\ UNCHANGED <<route, asked, cache, pre, clearVars, faults, fresh, shrugged>>

(* TTL answers -2 for a key that is gone, and the answer reports it.         *)
AskTtl(r) ==
    /\ Goto(r, "ttl", "done")
    /\ Respond(r, found[r], ~(asked[r] \subseteq cache))
    /\ UNCHANGED <<route, asked, cache, pre, found, clearVars, faults, fresh, touched, shrugged>>

(* Mutant: the response is stored whatever its status.                       *)
ToStoreAll(r) == asked[r] \ found[r]

(* What the load found is to be stored, a null too where the route does; a   *)
(* row that is missing otherwise is answered 404 at once.                    *)
ToStore(r) == (asked[r] \ found[r]) \cap Storable(route)

Load(r) ==
    /\ \/ /\ ToStore(r) # {}
          /\ Goto(r, "load", "fill")
          /\ UNCHANGED answer
       \/ /\ ToStore(r) = {}
          /\ Goto(r, "load", "done")
          /\ Respond(r, found[r], FALSE)
    /\ UNCHANGED <<route, asked, cache, pre, found, clearVars, faults, fresh, touched, shrugged>>

(* SETEX, or the MULTI of multi_set.                                         *)
Fill(r) ==
    /\ Goto(r, "fill", "done")
    /\ Store(ToStore(r))
    /\ Respond(r, found[r], FALSE)
    /\ UNCHANGED <<route, asked, pre, found, clearVars, faults, shrugged>>

(* A call raises: where the handler swallows it the request goes on as if    *)
(* EXISTS or GET had found nothing, or as if the store had worked; elsewhere *)
(* it answers 500. A store that failed may have run.                         *)
ShrugPeek(r) ==
    /\ Goto(r, "peek", "look")
    /\ UNCHANGED <<cache, answer, fresh, touched>>

ShrugLook(r) ==
    /\ Goto(r, "look", "load")
    /\ UNCHANGED <<cache, answer, fresh, touched>>

ShrugFill(r) ==
    /\ Goto(r, "fill", "done")
    /\ Store(ToStore(r)) \/ UNCHANGED <<cache, fresh, touched>>
    /\ Respond(r, found[r], FALSE)

Shrug(r) ==
    /\ pc[r] \in route.shrugs
    /\ ShrugPeek(r) \/ ShrugLook(r) \/ ShrugFill(r)
    /\ shrugged' = shrugged \cup {r}

Raise(r) ==
    /\ pc[r] \notin route.shrugs \cup {"done", "failed"}
    /\ pc' = [pc EXCEPT ![r] = "failed"]
    /\ \/ pc[r] = "fill" /\ Store(ToStore(r))
       \/ UNCHANGED <<cache, fresh, touched>>
    /\ UNCHANGED <<answer, shrugged>>

Fail(r) ==
    /\ faults < MaxFaults
    /\ faults' = faults + 1
    /\ Shrug(r) \/ Raise(r)
    /\ UNCHANGED <<route, asked, pre, found, clearVars>>

----------------------------------------------------------------------------
(* The life of an entry ends, or DELETE /recipe/{id}, POST /expire or the    *)
(* first loop of POST /simulate deletes it.                                  *)
Expire(k) ==
    /\ k \in cache
    /\ Remove({k})
    /\ UNCHANGED <<route, asked, pc, pre, found, answer, clearVars, faults, shrugged>>

(* POST /populate of 2.12 stores its articles without looking.               *)
Populate(k) ==
    /\ route = Herd
    /\ k \in Rows
    /\ Store({k})
    /\ UNCHANGED <<route, asked, pc, pre, found, answer, clearVars, faults, shrugged>>

----------------------------------------------------------------------------
(* DELETE /cache, one at a time.                                             *)
ClearStart ==
    /\ ~clearing
    /\ clearing' = TRUE
    /\ todo' = Keys
    /\ batch' = {}
    /\ fresh' = {}
    /\ UNCHANGED <<route, asked, pc, cache, pre, found, answer, faults, touched, shrugged>>

(* One SCAN, or KEYS: a page of the key space, as large as Redis likes. What *)
(* was there from the first SCAN to the last is in some page.                *)
ClearScan ==
    /\ clearing
    /\ batch = {}
    /\ \E page \in SUBSET todo \ {{}} :
        /\ route.clear = "all" => page = todo
        /\ todo' = todo \ page
        /\ batch' = page \cap cache
    /\ UNCHANGED <<route, asked, pc, cache, pre, found, answer, clearing, faults,
                   fresh, touched, shrugged>>

ClearDelete ==
    /\ \E K \in SUBSET batch \ {{}} :
        /\ IF route.clear = "key" THEN Cardinality(K) = 1 ELSE K = batch
        /\ batch' = batch \ K
        /\ Remove(K)
    /\ UNCHANGED <<route, asked, pc, pre, found, answer, clearing, todo, faults, shrugged>>

(* Mutant: the loop ends with the first page.                                *)
ClearEndEarly ==
    /\ clearing
    /\ batch = {}
    /\ todo # Keys
    /\ clearing' = FALSE
    /\ UNCHANGED <<route, asked, pc, cache, pre, found, answer, todo, batch, faults,
                   fresh, touched, shrugged>>

(* The cursor is back at 0.                                                  *)
ClearEnd ==
    /\ clearing
    /\ batch = {}
    /\ todo = {}
    /\ clearing' = FALSE
    /\ UNCHANGED <<route, asked, pc, cache, pre, found, answer, todo, batch, faults,
                   fresh, touched, shrugged>>

(* A SCAN or DEL raises: 500, and what is left stays. A DEL may have run.    *)
ClearFail ==
    /\ clearing
    /\ faults < MaxFaults
    /\ faults' = faults + 1
    /\ clearing' = FALSE
    /\ todo' = {}
    /\ batch' = {}
    /\ Remove(batch) \/ UNCHANGED <<cache, fresh, touched>>
    /\ UNCHANGED <<route, asked, pc, pre, found, answer, shrugged>>

(* The process dies: the requests and the clear are gone, Redis stays.       *)
Crash ==
    /\ faults < MaxFaults
    /\ faults' = faults + 1
    /\ pc' = [r \in Requests |-> IF pc[r] = "done" THEN "done" ELSE "failed"]
    /\ clearing' = FALSE
    /\ todo' = {}
    /\ batch' = {}
    /\ UNCHANGED <<route, asked, cache, pre, found, answer, fresh, touched, shrugged>>

Get(r) == Peek(r) \/ Look(r) \/ AskTtl(r) \/ Load(r) \/ Fill(r)
Clear == ClearStart \/ ClearScan \/ ClearDelete \/ ClearEnd \/ ClearFail

Next ==
    \/ \E r \in Requests : Get(r) \/ Fail(r)
    \/ \E k \in Keys : Expire(k) \/ Populate(k)
    \/ Clear
    \/ Crash

Spec == Init /\ [][Next]_vars

----------------------------------------------------------------------------
TypeOK ==
    /\ route \in Routes
    /\ asked \in [Requests -> Askable(route)]
    /\ pc \in [Requests -> {"peek", "look", "ttl", "load", "fill", "done", "failed"}]
    /\ cache \subseteq Storable(route)
    /\ pre \in [Requests -> SUBSET Keys]
    /\ found \in [Requests -> SUBSET Keys]
    /\ answer \in [hit : SUBSET Keys, cached : SUBSET Keys, gone : BOOLEAN]
    /\ clearing \in BOOLEAN
    /\ todo \subseteq Keys /\ batch \subseteq Storable(route)
    /\ faults \in 0 .. MaxFaults
    /\ fresh \subseteq Keys
    /\ touched \subseteq Requests
    /\ shrugged \subseteq Requests

(* An answer says hit of what did not come from the cache, or miss of what   *)
(* did, or reports the life of an entry that is gone, only when the entry    *)
(* came or went between the two calls of the handler, or a failure of the    *)
(* handler's own call was swallowed.                                         *)
MislabelNeedsRace ==
    [][\A r \in Requests : pc[r] # "done" /\ pc'[r] = "done" =>
        /\ answer'.hit # answer'.cached => r \in touched \cup shrugged'
        /\ answer'.gone => r \in touched]_vars

(* When DELETE /cache has come to its end, whatever the cache holds was      *)
(* stored after it began: no page is left out and none deleted in vain.      *)
ClearIsComplete ==
    [][clearing /\ ~clearing' /\ faults' = faults => cache' \subseteq fresh']_vars
============================================================================
