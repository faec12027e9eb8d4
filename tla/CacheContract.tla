--------------------------- MODULE CacheContract ---------------------------
(* What the Redis caches of the routers promise about the database behind    *)
(* them, whatever order their requests run in: a cached entry is absent or   *)
(* is a version that the database has had. A version counts the committed    *)
(* updates of a row. The detailed modules implement this one.                *)
EXTENDS Naturals

CONSTANTS Keys, Absent

VARIABLES
    source,     \* the database's version of each row
    cache       \* the cached version of each row, or Absent

contractVars == <<source, cache>>

Init ==
    /\ source = [k \in Keys |-> 0]
    /\ cache = [k \in Keys |-> Absent]

Write(k) ==
    /\ source' = [source EXCEPT ![k] = @ + 1]
    /\ UNCHANGED cache

Store(k) ==
    /\ \E v \in 0 .. source[k] : cache' = [cache EXCEPT ![k] = v]
    /\ UNCHANGED source

Drop(k) ==
    /\ cache' = [cache EXCEPT ![k] = Absent]
    /\ UNCHANGED source

Next == \E k \in Keys : Write(k) \/ Store(k) \/ Drop(k)

Spec == Init /\ [][Next]_contractVars
============================================================================
