---------------------------- MODULE MCLookAside ----------------------------
(* Two requests over two rows, which a batch may ask for together, and one   *)
(* missing row; one fault.                                                   *)
EXTENDS LookAside

CONSTANTS r1, r2, k1, k2, m1

MCRequests == {r1, r2}
MCRows == {k1, k2}
MCMissing == {m1}
============================================================================
