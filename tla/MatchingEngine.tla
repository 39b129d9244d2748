--------------------------- MODULE MatchingEngine ---------------------------
(***************************************************************************)
(* The validator's reference engine, services/validator/matching_engine.py.*)
(*                                                                         *)
(* An Order object is named by its place in `objs`, its handle: handles    *)
(* grow with the ts that _next_ts gives to orders, so they stand for it in *)
(* the sort keys.  (_next_ts also numbers fills; the order of orders is    *)
(* unchanged by that.)  The books are Python lists of objects ordered by   *)
(* heapq; the dict maps an order_id to the object added last under it.     *)
(* add_limit and add_market put an object in `incoming`; each step after   *)
(* that is one turn of the loop of _match, or what follows the loop.       *)
(***************************************************************************)
EXTENDS Heapq, FiniteSets, Functions

CONSTANTS Ids,         \* order_id strings
          Prices,      \* limit prices, in ticks
          Infinity,    \* the price of a market buy: float("inf")
          Quantities,  \* order quantities
          MaxOrders,   \* bound: how many orders are added
          MaxReused    \* bound: how many, when callers use an order_id again

ASSUME PricesAssumption == Prices \subseteq Nat \ {0}
ASSUME InfinityAssumption == Infinity \in Nat /\ \A p \in Prices : p < Infinity
ASSUME QuantitiesAssumption == Quantities \subseteq Nat \ {0}
ASSUME BoundsAssumption == MaxOrders \in Nat /\ MaxReused \in Nat

VARIABLES
  objs,      \* every Order object made; `asked` is the quantity it came with
  orders,    \* self.orders: order_id -> handle, 0 where the dict has no key
  buys,      \* self.buys: a list of <<sort key rank, handle>>
  sells,     \* self.sells
  fills,     \* self.fills
  incoming,  \* the order _match is working on, 0 between calls
  withdrawn  \* the objects whose owner was told True by cancel

vars == <<objs, orders, buys, sells, fills, incoming, withdrawn>>

Sides == {"buy", "sell"}
MarketPrice(side) == IF side = "buy" THEN Infinity ELSE 0
Order == [id : Ids, side : Sides, price : Nat, qty : Nat, asked : Nat]
Handles == DOMAIN objs

Init == /\ objs = <<>>
        /\ orders = [id \in Ids |-> 0]
        /\ buys = <<>> /\ sells = <<>>
        /\ fills = <<>>
        /\ incoming = 0
        /\ withdrawn = {}

---------------------------------------------------------------------------
(* Adding an order. *)

\* _sort_key, with the handle for ts.
SortKey(side, price, handle) ==
  <<IF side = "buy" THEN -price ELSE price, handle>>

\* Nothing keeps a caller from using an order_id again.
FreshId(id) == \A h \in Handles : objs[h].id # id
IdsUsedOnce == \A g, h \in Handles : objs[g].id = objs[h].id => g = h

Add(id, side, price, qty) ==
  /\ incoming = 0
  /\ Len(objs) < MaxOrders
  /\ Len(objs) < MaxReused \/ (FreshId(id) /\ IdsUsedOnce)
  /\ objs' = Append(objs, [id |-> id, side |-> side, price |-> price,
                           qty |-> qty, asked |-> qty])
  /\ orders' = [orders EXCEPT ![id] = Len(objs) + 1]
  /\ incoming' = Len(objs) + 1
  /\ UNCHANGED <<buys, sells, fills, withdrawn>>

AddLimit == \E id \in Ids, side \in Sides, price \in Prices, qty \in Quantities :
              Add(id, side, price, qty)

AddMarket == \E id \in Ids, side \in Sides, qty \in Quantities :
               Add(id, side, MarketPrice(side), qty)

---------------------------------------------------------------------------
(* The loop of _match. *)

Taker == objs[incoming]
Book == IF Taker.side = "buy" THEN sells ELSE buys
Best == Book[1][2]

\* Variants for mutation runs: equal prices do not cross; a sell looks at no price.
Crosses_Strict == IF Taker.side = "buy" THEN objs[Best].price < Taker.price
                                        ELSE objs[Best].price > Taker.price
Crosses_BuysOnly == Taker.side = "buy" => objs[Best].price <= Taker.price

\* The two price breaks are not taken.
Crosses == IF Taker.side = "buy" THEN objs[Best].price <= Taker.price
                                 ELSE objs[Best].price >= Taker.price

InLoop == incoming # 0 /\ Taker.qty > 0 /\ Book # <<>> /\ Crosses

\* Variant for mutation runs: the list goes to the taker's own side.
PutBook_OwnSide(book) == IF Taker.side = "buy" THEN buys' = book /\ UNCHANGED sells
                                               ELSE sells' = book /\ UNCHANGED buys

PutBook(book) == IF Taker.side = "buy" THEN sells' = book /\ UNCHANGED buys
                                       ELSE buys' = book /\ UNCHANGED sells

\* The best object is not in the dict any more: pop it, and continue.
DiscardStale ==
  /\ InLoop
  /\ orders[objs[Best].id] = 0
  /\ PutBook(HeapPop(Book))
  /\ UNCHANGED <<objs, orders, fills, incoming, withdrawn>>

\* Variant for mutation runs: the fill reports all the maker had.
FillOf_WholeMaker(maker, qty) ==
  [buy |-> IF Taker.side = "buy" THEN incoming ELSE maker,
   sell |-> IF Taker.side = "buy" THEN maker ELSE incoming,
   price |-> objs[maker].price, qty |-> objs[maker].qty]

FillOf(maker, qty) ==
  [buy |-> IF Taker.side = "buy" THEN incoming ELSE maker,
   sell |-> IF Taker.side = "buy" THEN maker ELSE incoming,
   price |-> objs[maker].price, qty |-> qty]

\* Trade with the best object at its price; put it back if it has quantity
\* left, and forget its order_id if it has not.
MatchBest ==
  /\ InLoop
  /\ orders[objs[Best].id] # 0
  /\ LET maker == Best
         left == objs[maker].qty
         qty == IF Taker.qty <= left THEN Taker.qty ELSE left
     IN /\ fills' = Append(fills, FillOf(maker, qty))
        /\ objs' = [objs EXCEPT ![incoming].qty = @ - qty, ![maker].qty = @ - qty]
        /\ IF left > qty
           THEN PutBook(HeapPush(HeapPop(Book), Book[1])) /\ UNCHANGED orders
           ELSE PutBook(HeapPop(Book)) /\ orders' = [orders EXCEPT ![objs[maker].id] = 0]
  /\ UNCHANGED <<incoming, withdrawn>>

---------------------------------------------------------------------------
(* After the loop. *)

LoopIsOver == incoming # 0 /\ ~InLoop

Entry(h) == SortKey(objs[h].side, objs[h].price, h)

\* Quantity is left, of a limit or of a market order: it rests in the book.
Rest ==
  /\ LoopIsOver
  /\ Taker.qty > 0
  /\ IF Taker.side = "buy"
     THEN buys' = HeapPush(buys, Entry(incoming)) /\ UNCHANGED sells
     ELSE sells' = HeapPush(sells, Entry(incoming)) /\ UNCHANGED buys
  /\ incoming' = 0
  /\ UNCHANGED <<objs, orders, fills, withdrawn>>

\* The order is filled: its order_id leaves the dict.
Done ==
  /\ LoopIsOver
  /\ Taker.qty = 0
  /\ orders' = [orders EXCEPT ![Taker.id] = 0]
  /\ incoming' = 0
  /\ UNCHANGED <<objs, buys, sells, fills, withdrawn>>

---------------------------------------------------------------------------
(* cancel. *)

\* Variant for mutation runs: the lists are left to the stale check of _match.
Without_Nothing(book, id) == {book}

(***************************************************************************)
(* [o for o in book if o.order_id != order_id]: the entries of the list    *)
(* that survive, in the order they stand in the list.  There is exactly    *)
(* one such list; f gives the places its entries come from.                *)
(***************************************************************************)
Without(book, id) ==
  LET Stay == {i \in DOMAIN book : objs[book[i][2]].id # id}
      Increasing(n) == {f \in [1..n -> Stay] :
                          /\ \A j, k \in 1..n : j < k => f[j] < f[k]
                          /\ \A i \in Stay : \E k \in 1..n : f[k] = i}
  IN UNION {{[k \in 1..n |-> book[f[k]]] : f \in Increasing(n)} : n \in 0..Len(book)}

Cancel(id) ==
  /\ incoming = 0
  /\ orders[id] # 0
  /\ orders' = [orders EXCEPT ![id] = 0]
  /\ buys' \in Without(buys, id)
  /\ sells' \in Without(sells, id)
  /\ withdrawn' = withdrawn \cup {h \in Handles : objs[h].id = id /\ objs[h].qty > 0}
  /\ UNCHANGED <<objs, fills, incoming>>

---------------------------------------------------------------------------
Step == DiscardStale \/ MatchBest \/ Rest \/ Done

Next == AddLimit \/ AddMarket \/ Step \/ \E id \in Ids : Cancel(id)

Spec == Init /\ [][Next]_vars

---------------------------------------------------------------------------
(* Properties. *)

InBook(book) == {book[i][2] : i \in DOMAIN book}
Resting == InBook(buys) \cup InBook(sells)

Entries(side) == {SortKey(side, objs[h].price, h) : h \in {k \in Handles : objs[k].side = side}}

TypeOK ==
  /\ objs \in Seq(Order) /\ Len(objs) <= MaxOrders
  /\ orders \in [Ids -> Handles \cup {0}]
  /\ buys \in Seq(Entries("buy"))
  /\ sells \in Seq(Entries("sell"))
  /\ fills \in Seq([buy : Handles, sell : Handles, price : Nat, qty : Nat])
  /\ incoming \in Handles \cup {0}
  /\ withdrawn \subseteq Handles

\* No fill is worse than the limit of either order, in whatever order the
\* books' lists stand (after a cancel they may be no heaps): the price checks
\* of _match look at the order they trade with.
NoTradeThrough ==
  \A i \in DOMAIN fills :
    /\ objs[fills[i].sell].side = "sell" /\ objs[fills[i].buy].side = "buy"
    /\ objs[fills[i].sell].price <= fills[i].price
    /\ fills[i].price <= objs[fills[i].buy].price

FilledQty(h) ==
  SumFunctionOnSet([i \in DOMAIN fills |-> fills[i].qty],
                   {i \in DOMAIN fills : h \in {fills[i].buy, fills[i].sell}})

\* What an order asked for is what it has left plus what its fills say:
\* partial fills put back in a book are neither lost nor filled twice.
QuantityConserved ==
  \A h \in Handles : objs[h].asked = objs[h].qty + FilledQty(h)

\* Once cancel has answered True, the order never trades again: the dict entry
\* is not all that goes, for a later order under the same order_id would bring
\* the old object back to life.
CancelledNeverTrade ==
  [][\A h \in withdrawn : objs'[h].qty = objs[h].qty]_vars

\* Every fill is with the resting order that has price-time priority.
PriceTimePriority ==
  [][fills' # fills =>
       \A h \in InBook(Book) : orders[objs[h].id] # 0 => ~KeyLess(Entry(h), Entry(Best))]_vars

\* Between calls, until the first cancel, no resting buy crosses a resting sell,
\* stale objects included: the loop never stops while an object of the other
\* side crosses.
NotCrossed ==
  incoming = 0 /\ withdrawn = {} =>
    \A b \in InBook(buys), s \in InBook(sells) : objs[b].price < objs[s].price

\* While an order_id is used once, the dict and the lists say the same between
\* calls: its keys are the orders that rest, each with quantity left, and no
\* order rests twice.
DictMatchesBooks ==
  incoming = 0 /\ IdsUsedOnce =>
    /\ {orders[id] : id \in Ids} \ {0} = Resting
    /\ \A h \in Resting : objs[h].qty > 0
    /\ Len(buys) = Cardinality(InBook(buys)) /\ Len(sells) = Cardinality(InBook(sells))

\* The engine is a price-time priority book.  A cancel ends that (see
\* PriceTimePriority), and leaves that orders only trade with orders they cross,
\* and that what is cancelled is gone; an order_id that is used again does not,
\* but may cost an order its place in the book.
Promise == INSTANCE OrderBook WITH
  Limits <- [side \in Sides |-> Prices \cup {MarketPrice(side)}],
  placed <- [h \in Handles |-> [side |-> objs[h].side, price |-> objs[h].price,
                                qty |-> objs[h].qty]],
  resting <- Resting,
  taker <- incoming,
  trades <- fills,
  disturbed <- withdrawn # {},
  reused <- ~IdsUsedOnce

ImplementsOrderBook == Promise!Spec
=============================================================================
