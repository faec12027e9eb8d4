------------------------- MODULE MCCircuitBreaker -------------------------
(* A small instance of CircuitBreaker: a threshold of two, so that failures   *)
(* below it are counted too, and enough requests to trip the breaker, probe  *)
(* it twice and have one more come late.                                     *)
EXTENDS CircuitBreaker, TLC

CONSTANTS r1, r2, r3, r4, r5

MCRequests == {r1, r2, r3, r4, r5}
RequestSymmetry == Permutations(MCRequests)
============================================================================
