---------------------------- MODULE MCFunctions ----------------------------
(***************************************************************************)
(* The pure functions, in one run: the walk of MCHeapq through the lists   *)
(* that heapq makes, and the walk of MCScoring through the measurements.   *)
(* They have nothing to do with each other: the first is made beside one   *)
(* measurement only, the second beside the empty list.                     *)
(***************************************************************************)
EXTENDS MCHeapq, MCScoring

Silent == [p99 |-> 0, rps |-> 0, matchRate |-> 0, errorRate |-> 0, variance |-> 0]

Init == HeapInit /\ ScoringInit

Next == \/ m = Silent /\ HeapNext /\ UNCHANGED m
        \/ pushed = 0 /\ ScoringNext /\ UNCHANGED heapVars

vars == <<heapVars, m>>

Spec == Init /\ [][Next]_vars
=============================================================================
