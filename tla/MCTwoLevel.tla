---------------------------- MODULE MCTwoLevel ----------------------------
(* A small instance of TwoLevel: two GETs and two POSTs of one seeded key,   *)
(* so that a POST may overtake a GET or another POST, beside a key that only *)
(* a POST creates.                                                           *)
EXTENDS TwoLevel, TLC

CONSTANTS k1, k2, g1, g2, p1, p2

MCKeys == {k1, k2}
MCSeeded == {k1}
MCGets == {g1, g2}
MCPosts == {p1, p2}

Symmetry == Permutations(MCGets) \cup Permutations(MCPosts)
============================================================================
