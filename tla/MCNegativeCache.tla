-------------------------- MODULE MCNegativeCache --------------------------
(* A small instance of NegativeCache: a seeded user and one to be created, *)
(* either of whom is looked up and deleted, while the filter is made twice.  *)
EXTENDS NegativeCache

CONSTANTS g1, p1, d1, a1, a2

MCLookups == {g1}
MCCreates == {p1}
MCDeletes == {d1}
MCInits == {a1}
MCResets == {a2}
============================================================================
