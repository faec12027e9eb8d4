---------------------------- MODULE MCInProcess ----------------------------
(* Two lru_cache calls, of one code or of two that evict each other, and two *)
(* TTLCache calls of one user. Two threads let a call wait in the queue      *)
(* behind calls that wait for the lock.                                      *)
EXTENDS InProcess, TLC

CONSTANTS l1, l2, t1, t2, k1, k2, u1

MCLruRequests == {l1, l2}
MCTtlRequests == {t1, t2}
MCCodes == {k1, k2}
MCUsers == {u1}

Ask(c1, c2) == (l1 :> c1) @@ (l2 :> c2) @@ [r \in MCTtlRequests |-> u1]
MCAsks == {Ask(k1, k1), Ask(k1, k2)}
============================================================================
