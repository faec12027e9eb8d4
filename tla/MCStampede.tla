---------------------------- MODULE MCStampede ----------------------------
(* A small instance of Stampede: two locked requests, so that an evicted      *)
(* holder can evict the other one, beside an unprotected one, and two polls. *)
EXTENDS Stampede

CONSTANTS r1, r2, x1

MCSafe == {r1, r2}
MCUnsafe == {x1}
============================================================================
