-------------------------- MODULE MCEventDriven --------------------------
(* A small instance of EventDriven: two items that share a tag, one of them  *)
(* with a tag of its own, and requests that may overlap on either.           *)
EXTENDS EventDriven, TLC

CONSTANTS i1, i2, all, one, g1, g2, p1

MCItems == {i1, i2}
MCTags == {all, one}
MCTagsOf == (i1 :> <<all, one>>) @@ (i2 :> <<all>>)
MCGets == {g1, g2}
MCPuts == {p1}
GetSymmetry == Permutations(MCGets)
============================================================================
