--------------------------- MODULE EngineAgreement ---------------------------
(***************************************************************************)
(* The reference engine and the example contestant served the same         *)
(* requests: what the validator's score of an honest contestant rests on.  *)
(***************************************************************************)
EXTENDS MatchingEngine, ExampleEngine, TLC

VARIABLES contestant,
          intact  \* have both of the reference's lists been heaps all along

bothVars == <<vars, contestant, intact>>

BothInit == Init /\ contestant = EmptyEngine /\ intact = TRUE

\* The contestant gets the order the reference engine has just been given.
SameOrder ==
  LET o == objs'[incoming']
  IN contestant' = ServeOrder(contestant,
       [id |-> o.id, side |-> o.side, price |-> o.price, qty |-> o.qty, ts |-> incoming'])

BothNext ==
  /\ \/ (AddLimit \/ AddMarket) /\ SameOrder
     \/ Step /\ UNCHANGED contestant
     \/ \E id \in Ids : Cancel(id) /\ contestant' = ServeCancel(contestant, id)
  /\ intact' = (intact /\ IsHeap(buys') /\ IsHeap(sells'))

BothSpec == BothInit /\ [][BothNext]_bothVars

IdSymmetry == Permutations(Ids)

---------------------------------------------------------------------------
\* The two engines, one on a heap and one on a sorted list, produce the same
\* fills in the same order, which is what diff_fills compares, and are left with
\* the same orders in the same quantities, for as long as the reference's lists
\* are heaps and an order_id is used once.  (A cancel can end that: see
\* PriceTimePriority in MatchingEngine.)
SameOutcome ==
  incoming = 0 /\ intact /\ IdsUsedOnce =>
    /\ fills = contestant.fills
    /\ {<<h, objs[h].qty>> : h \in Resting}
         = {<<o.ts, o.qty>> : o \in contestant.buys \cup contestant.sells}
=============================================================================
