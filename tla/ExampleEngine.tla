--------------------------- MODULE ExampleEngine ---------------------------
(***************************************************************************)
(* The contestant shipped as a model answer,                               *)
(* examples/real_matching_engine/server.py.  Its handler serves one        *)
(* message at a time and never awaits inside the engine, so a message is   *)
(* one operator on the engine's state.  The book is sorted before each     *)
(* look at its head, by a key no two orders share: a set of orders says    *)
(* all there is to say of it.  An order carries the number it arrived      *)
(* under as `ts`; a fill names its two orders by that number.              *)
(***************************************************************************)
EXTENDS Naturals, Sequences, FiniteSets, FiniteSetsExt

EmptyEngine == [buys |-> {}, sells |-> {}, live |-> {}, fills |-> <<>>]

\* book[0] after the sort: best price first, then oldest.
BestOf(book, side) ==
  CHOOSE o \in book : \A p \in book \ {o} :
    \/ IF side = "buy" THEN o.price < p.price ELSE o.price > p.price
    \/ o.price = p.price /\ o.ts < p.ts

FillBetween(taker, maker, qty) ==
  IF taker.side = "buy"
  THEN [buy |-> taker.ts, sell |-> maker.ts, price |-> maker.price, qty |-> qty]
  ELSE [buy |-> maker.ts, sell |-> taker.ts, price |-> maker.price, qty |-> qty]

---------------------------------------------------------------------------
(* add_limit.  In its loop there are the engine and the order it works on;    *)
(* `live` is the dict, which maps an order_id to the order added last under it. *)

Against(s) == IF s.order.side = "buy" THEN s.engine.sells ELSE s.engine.buys
BestAgainst(s) == BestOf(Against(s), s.order.side)

GoesOn(s) ==
  /\ s.order.qty > 0 /\ Against(s) # {}
  /\ IF s.order.side = "buy" THEN BestAgainst(s).price <= s.order.price
                             ELSE BestAgainst(s).price >= s.order.price

\* One turn: a fill with the best order, which leaves the book if it is used up.
Turn(s) ==
  LET best == BestAgainst(s)
      qty == Min({s.order.qty, best.qty})
      usedUp == best.qty = qty
      left == (Against(s) \ {best}) \cup (IF usedUp THEN {} ELSE {[best EXCEPT !.qty = @ - qty]})
  IN [order |-> [s.order EXCEPT !.qty = @ - qty],
      engine |->
        [buys |-> IF s.order.side = "buy" THEN s.engine.buys ELSE left,
         sells |-> IF s.order.side = "buy" THEN left ELSE s.engine.sells,
         live |-> IF usedUp THEN {x \in s.engine.live : x.id # best.id} ELSE s.engine.live,
         fills |-> Append(s.engine.fills, FillBetween(s.order, best, qty))]]

\* Where exactly n turns lead: a set of one, or of none if the loop makes fewer.
After(s) ==
  LET f[n \in Nat] == IF n = 0 THEN {s} ELSE {Turn(t) : t \in {u \in f[n - 1] : GoesOn(u)}}
  IN f

\* What follows the loop: the order leaves the dict, or rests in its book.
Finish(s) ==
  IF s.order.qty = 0
  THEN [s.engine EXCEPT !.live = {x \in @ : x.id # s.order.id}]
  ELSE IF s.order.side = "buy" THEN [s.engine EXCEPT !.buys = @ \cup {s.order}]
                               ELSE [s.engine EXCEPT !.sells = @ \cup {s.order}]

\* The end of the loop: every turn but the last uses up an order of the book.
End(s) == CHOOSE t \in UNION {After(s)[n] : n \in 0..Cardinality(Against(s))} : ~GoesOn(t)

ServeOrder(e, o) ==
  LET entered == [e EXCEPT !.live = {x \in @ : x.id # o.id} \cup {[id |-> o.id, side |-> o.side]}]
  IN Finish(End([engine |-> entered, order |-> o]))

\* cancel: the list of the order's own side is filtered.
ServeCancel(e, id) ==
  LET own == {x.side : x \in {y \in e.live : y.id = id}}
  IN [e EXCEPT !.live = {x \in @ : x.id # id},
               !.buys = IF "buy" \in own THEN {o \in @ : o.id # id} ELSE @,
               !.sells = IF "sell" \in own THEN {o \in @ : o.id # id} ELSE @]

=============================================================================
