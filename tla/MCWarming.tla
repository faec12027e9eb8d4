---------------------------- MODULE MCWarming ----------------------------
(* A small instance of Warming: two starts around a stop, so that a new task *)
(* may be made while the old one is being cancelled, and one request of each *)
(* other kind. With an interval and a lag of 1 the trending list needs a life *)
(* of 4, and 4 it has.                                                       *)
EXTENDS Warming

CONSTANTS p1, r1, f1, s1, s2, x1

MCCatalog == <<p1>>
MCFills == {r1}
MCFlushes == {f1}
MCStarts == {s1, s2}
MCStops == {x1}
MCTasks == 1..2
============================================================================
