--------------------------- MODULE MCWriteBehind ---------------------------
(* Small instances of WriteBehind: one POST /flush beside the worker; two    *)
(* events against a batch of one, three against a batch of two, so that a    *)
(* burst exceeds the batch.                                                  *)
EXTENDS WriteBehind

CONSTANTS e1, e2, e3, worker, f1

MCEvents == {e1, e2, e3}
MCTwoEvents == {e1, e2}
MCForcers == {f1}
============================================================================
