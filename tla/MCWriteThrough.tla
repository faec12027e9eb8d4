-------------------------- MODULE MCWriteThrough --------------------------
(* A small instance of WriteThrough: three requests on two profiles, so      *)
(* that two PUTs and a GET of one profile may overlap beside another.        *)
EXTENDS WriteThrough

CONSTANTS u1, u2, r1, r2, r3

MCUsers == {u1, u2}
MCRequests == {r1, r2, r3}
============================================================================
