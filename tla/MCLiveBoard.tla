---------------------------- MODULE MCLiveBoard ----------------------------
(* LiveBoard, and CorrectnessPipeline within it, for TLC: the surroundings that *)
(* are checked.                                                                *)
EXTENDS LiveBoard

Test == [slots |-> 4, tests |-> 1, honest |-> TRUE, prompt |-> TRUE, cap |-> 10,
         shown |-> FALSE, faults |-> 0]

\* Orders cross at slots 2 and 4.  An echo on the board, in a test of two.
Shown == [Test EXCEPT !.slots = 2, !.honest = FALSE, !.shown = TRUE]

\* An honest contestant in a test of four orders, in two tests of two that are longer than
\* the cap, and in one with a fault; an echo in a test with a fault; two tests whose writes
\* land late and overtake each other, with a fault.
Surroundings ==
  {Test,
   [Test EXCEPT !.slots = 2, !.tests = 2, !.cap = 3],
   [Test EXCEPT !.slots = 2, !.faults = 1],
   [Test EXCEPT !.slots = 3, !.honest = FALSE, !.faults = 1],
   [Test EXCEPT !.slots = 1, !.tests = 2, !.prompt = FALSE, !.faults = 1],
   Shown}

ShownOnly == {Shown}
=============================================================================
