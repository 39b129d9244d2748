----------------------------- MODULE OrderBook -----------------------------
(***************************************************************************)
(* What a price-time priority limit order book promises, with no books,    *)
(* heaps or ids: an order trades with the best order of the other side as  *)
(* long as the prices cross, at that order's price, and rests with what is *)
(* left.  The best order has the best price, and came first among equals.  *)
(* Once an order has been cancelled the promise is a weaker one: an order  *)
(* trades with some order it crosses, or rests.  Once two orders have had  *)
(* one order_id, resting orders may vanish.                                *)
(***************************************************************************)
EXTENDS Naturals, Sequences

CONSTANTS Limits,     \* side -> the prices orders of that side may name
          Quantities

VARIABLES placed,   \* the orders, in the order they came, with what they have left
          resting,  \* the ones in the book
          taker,    \* the one that is being matched, 0 when there is none
          trades,
          disturbed,\* has an order been cancelled
          reused    \* have two orders been given one order_id

bookVars == <<placed, resting, taker, trades, disturbed, reused>>

Init == placed = <<>> /\ resting = {} /\ taker = 0 /\ trades = <<>>
        /\ disturbed = FALSE /\ reused = FALSE

Opposite(h) == {m \in resting : placed[m].side # placed[h].side}

Crossing(h) == {m \in Opposite(h) :
                  IF placed[h].side = "buy" THEN placed[m].price <= placed[h].price
                                            ELSE placed[m].price >= placed[h].price}

\* m has priority over n, two orders of the side opposite to h.
HasPriority(h, m, n) ==
  \/ placed[m].price = placed[n].price /\ m <= n
  \/ placed[h].side = "buy" /\ placed[m].price < placed[n].price
  \/ placed[h].side = "sell" /\ placed[m].price > placed[n].price

Place(side, price, qty) ==
  /\ taker = 0
  /\ placed' = Append(placed, [side |-> side, price |-> price, qty |-> qty])
  /\ taker' = Len(placed) + 1
  /\ reused' \in {reused, TRUE}
  /\ UNCHANGED <<resting, trades, disturbed>>

Trade(maker) ==
  /\ taker # 0
  /\ placed[taker].qty > 0
  /\ maker \in Crossing(taker)
  /\ ~disturbed => \A other \in Opposite(taker) : HasPriority(taker, maker, other)
  /\ \E qty \in {placed[taker].qty, placed[maker].qty} :
       /\ qty <= placed[taker].qty /\ qty <= placed[maker].qty
       /\ placed' = [placed EXCEPT ![taker].qty = @ - qty, ![maker].qty = @ - qty]
       /\ trades' = Append(trades,
            IF placed[taker].side = "buy"
            THEN [buy |-> taker, sell |-> maker, price |-> placed[maker].price, qty |-> qty]
            ELSE [buy |-> maker, sell |-> taker, price |-> placed[maker].price, qty |-> qty])
       /\ resting' = IF placed[maker].qty = qty THEN resting \ {maker} ELSE resting
  /\ UNCHANGED <<taker, disturbed, reused>>

Settle ==
  /\ taker # 0
  /\ placed[taker].qty = 0 \/ Crossing(taker) = {} \/ disturbed
  /\ resting' = IF placed[taker].qty > 0 THEN resting \cup {taker} ELSE resting
  /\ taker' = 0
  /\ UNCHANGED <<placed, trades, disturbed, reused>>

\* A cancel takes one order out of the book, or all that share its order_id.
Cancel(gone) ==
  /\ taker = 0
  /\ gone # {} /\ (reused \/ \E h \in resting : gone = {h})
  /\ resting' = resting \ gone
  /\ disturbed' = TRUE
  /\ UNCHANGED <<placed, taker, trades, reused>>

\* An order whose order_id another order has used may vanish untraded.
Lose(h) ==
  /\ reused
  /\ resting' = resting \ {h}
  /\ UNCHANGED <<placed, taker, trades, disturbed, reused>>

Next ==
  \/ \E side \in {"buy", "sell"}, qty \in Quantities :
       \E price \in Limits[side] : Place(side, price, qty)
  \/ \E maker \in resting : Trade(maker)
  \/ Settle
  \/ \E gone \in SUBSET resting : Cancel(gone)
  \/ \E h \in resting : Lose(h)

Spec == Init /\ [][Next]_bookVars
=============================================================================
