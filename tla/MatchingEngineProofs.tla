------------------------ MODULE MatchingEngineProofs ------------------------
(***************************************************************************)
(* Theorems about the reference engine, for any ids, prices, quantities    *)
(* and number of orders, with or without cancels and reused ids; and that  *)
(* the example contestant, served the same requests, does the same.        *)
(***************************************************************************)
EXTENDS EngineAgreement, OperatorProofs

\* A list of entries is a list of entries of any larger set.
LEMMA WidenSeq ==
  ASSUME NEW S, NEW T, S \subseteq T, NEW h \in Seq(S)
  PROVE  h \in Seq(T)
PROOF
<1>1. \A i \in 1..Len(h) : h[i] \in T
  OBVIOUS
<1>2. h = [i \in 1..Len(h) |-> h[i]] /\ Len(h) \in Nat
  OBVIOUS
<1> QED BY <1>1, <1>2

LEMMA EntryOfSeq ==
  ASSUME NEW S, NEW h \in Seq(S), NEW i \in DOMAIN h
  PROVE  h[i] \in S
OBVIOUS

\* What an entry of a book says of its object.
LEMMA EntryFacts ==
  ASSUME TypeOK, NEW side \in Sides, NEW e \in Entries(side)
  PROVE  /\ e[2] \in Handles
         /\ objs[e[2]].side = side
         /\ e = SortKey(side, objs[e[2]].price, e[2])
BY DEF Entries, SortKey

\* The entry of an object belongs to its side's entries.
LEMMA OwnEntry ==
  ASSUME TypeOK, NEW h \in Handles
  PROVE  Entry(h) \in Entries(objs[h].side)
BY DEF Entries, Entry

\* A step that keeps the side and price of every object keeps every entry.
LEMMA EntriesGrow ==
  ASSUME TypeOK, NEW side \in Sides, Handles \subseteq Handles',
         \A h \in Handles : objs'[h].side = objs[h].side /\ objs'[h].price = objs[h].price
  PROVE  Entries(side) \subseteq Entries(side)'
BY DEF Entries, SortKey, Handles

\* The filter of cancel keeps the entries of the list that carry another order_id,
\* all of them, and each once.
LEMMA WithoutKeeps ==
  ASSUME NEW S, NEW book \in Seq(S), NEW id \in Ids, NEW r \in Without(book, id)
  PROVE  /\ r \in Seq(S)
         /\ \A k \in DOMAIN r : \E i \in DOMAIN book :
              r[k] = book[i] /\ objs[book[i][2]].id # id
         /\ \A i \in DOMAIN book : objs[book[i][2]].id # id => \E k \in DOMAIN r : r[k] = book[i]
         /\ InBook(r) = {h \in InBook(book) : objs[h].id # id}
         /\ Distinct(book) => Distinct(r)
PROOF
<1> DEFINE Stay == {i \in DOMAIN book : objs[book[i][2]].id # id}
<1> DEFINE Increasing(n) == {f \in [1..n -> Stay] :
                               /\ \A j, k \in 1..n : j < k => f[j] < f[k]
                               /\ \A i \in Stay : \E k \in 1..n : f[k] = i}
           Lists(n) == {[k \in 1..n |-> book[f[k]]] : f \in Increasing(n)}
<1>a. r \in UNION {Lists(n) : n \in 0..Len(book)}
  BY DEF Without
<1>b. PICK n \in 0..Len(book) : r \in Lists(n)
  <2> HIDE DEF Lists
  <2> QED BY <1>a
<1>c. PICK f \in Increasing(n) : r = [k \in 1..n |-> book[f[k]]]
  <2> HIDE DEF Increasing
  <2> QED BY <1>b
<1>1. /\ f \in [1..n -> Stay] /\ r = [k \in 1..n |-> book[f[k]]]
      /\ \A j, k \in 1..n : j < k => f[j] < f[k]
      /\ \A i \in Stay : \E k \in 1..n : f[k] = i
  BY <1>c
<1>2. \A k \in 1..n : f[k] \in Stay
  OBVIOUS
<1>3. \A i \in Stay : i \in DOMAIN book /\ book[i] \in S /\ objs[book[i][2]].id # id
  OBVIOUS
<1>d. \A i \in DOMAIN book : objs[book[i][2]].id # id => i \in Stay
  OBVIOUS
<1>e. Stay \subseteq Nat
  OBVIOUS
<1> HIDE DEF Stay
<1>4. \A k \in 1..n : r[k] \in S
  BY <1>1, <1>2, <1>3
<1>5. n \in Nat
  OBVIOUS
<1>6. r \in Seq(S) /\ DOMAIN r = 1..n
  BY <1>1, <1>4, <1>5
<1>7. ASSUME Distinct(book) PROVE Distinct(r)
  <2>1. SUFFICES ASSUME NEW j \in 1..n, NEW k \in 1..n, r[j] = r[k], j # k PROVE FALSE
    BY <1>6 DEF Distinct
  <2>2. f[j] = f[k] /\ f[j] \in Nat
    BY <1>1, <1>2, <1>3, <1>7, <1>e, <2>1 DEF Distinct
  <2>3. j < k \/ k < j
    BY <1>5, <2>1
  <2> QED BY <1>1, <2>2, <2>3
<1>8. \A k \in DOMAIN r : \E i \in DOMAIN book : r[k] = book[i] /\ objs[book[i][2]].id # id
  BY <1>1, <1>2, <1>3, <1>6
<1>9. \A i \in DOMAIN book : objs[book[i][2]].id # id => \E k \in DOMAIN r : r[k] = book[i]
  BY <1>1, <1>6, <1>d
<1>10. InBook(r) = {h \in InBook(book) : objs[h].id # id}
  BY <1>8, <1>9 DEF InBook
<1> QED BY <1>6, <1>7, <1>8, <1>9, <1>10

---------------------------------------------------------------------------
(* Types. *)

LEMMA InitType == Init => TypeOK
PROOF
<1> SUFFICES ASSUME Init PROVE TypeOK
  OBVIOUS
<1> QED BY BoundsAssumption DEF Init, TypeOK, Handles

LEMMA AddType ==
  ASSUME TypeOK, NEW id \in Ids, NEW side \in Sides, NEW price \in Nat,
         NEW qty \in Quantities, Add(id, side, price, qty)
  PROVE  TypeOK'
PROOF
<1> DEFINE o == [id |-> id, side |-> side, price |-> price, qty |-> qty, asked |-> qty]
           n == Len(objs) + 1
<1>1. o \in Order
  BY QuantitiesAssumption DEF Order
<1>2. objs' = Append(objs, o) /\ objs \in Seq(Order)
  BY DEF Add, TypeOK
<1>3. objs' \in Seq(Order) /\ Len(objs') = n /\ Len(objs') <= MaxOrders
  BY <1>1, <1>2, BoundsAssumption DEF Add, TypeOK
<1>4. Handles \subseteq Handles' /\ n \in Handles' /\ \A h \in Handles : objs'[h] = objs[h]
  BY <1>1, <1>2 DEF Handles
<1>5. orders' \in [Ids -> Handles' \cup {0}] /\ incoming' \in Handles' \cup {0}
  BY <1>4 DEF Add, TypeOK
<1>6. buys' \in Seq(Entries("buy")') /\ sells' \in Seq(Entries("sell")')
  <2>1. Entries("buy") \subseteq Entries("buy")' /\ Entries("sell") \subseteq Entries("sell")'
    BY <1>4, EntriesGrow DEF Sides
  <2>2. buys' = buys /\ sells' = sells
    BY DEF Add
  <2> QED BY <2>1, <2>2, WidenSeq DEF TypeOK
<1>7. fills' \in Seq([buy : Handles', sell : Handles', price : Nat, qty : Nat])
  <2>1. [buy : Handles, sell : Handles, price : Nat, qty : Nat]
          \subseteq [buy : Handles', sell : Handles', price : Nat, qty : Nat]
    BY <1>4
  <2> QED BY <2>1, WidenSeq DEF TypeOK, Add
<1>8. withdrawn' \subseteq Handles'
  BY <1>4 DEF TypeOK, Add
<1> QED BY <1>3, <1>5, <1>6, <1>7, <1>8 DEF TypeOK

\* In the loop, the best entry is an object of the other side.
LEMMA InLoopFacts ==
  ASSUME TypeOK, InLoop
  PROVE  /\ incoming \in Handles /\ Taker \in Order /\ Taker.qty > 0
         /\ Best \in Handles /\ objs[Best] \in Order
         /\ objs[Best].side # Taker.side
         /\ Book # <<>>
         /\ Book \in Seq(Entries(IF Taker.side = "buy" THEN "sell" ELSE "buy"))
         /\ Book[1] \in Entries(IF Taker.side = "buy" THEN "sell" ELSE "buy")
         /\ 1 \in DOMAIN Book
PROOF
<1>1. incoming \in Handles /\ Taker \in Order /\ Taker.qty > 0 /\ Book # <<>>
  BY DEF InLoop, TypeOK, Handles, Taker
<1>2. Taker.side \in Sides
  BY <1>1 DEF Order
<1> DEFINE other == IF Taker.side = "buy" THEN "sell" ELSE "buy"
<1>3. other \in Sides /\ other # Taker.side
  BY <1>2 DEF Sides
<1>4. Book \in Seq(Entries(other))
  BY DEF TypeOK, Book
<1>5. 1 \in DOMAIN Book /\ Book[1] \in Entries(other)
  BY <1>1, <1>4
<1> HIDE DEF other
<1>6. Book[1][2] \in Handles /\ objs[Book[1][2]].side = other
  BY <1>3, <1>5, EntryFacts
<1>7. objs[Best] \in Order
  BY <1>6 DEF Best, Handles, TypeOK
<1> QED BY <1>1, <1>3, <1>4, <1>5, <1>6, <1>7 DEF Best, other

\* Putting a list of the right entries in the place of the book keeps both
\* books well typed.
LEMMA PutBookType ==
  ASSUME TypeOK, InLoop,
         NEW r \in Seq(Entries(IF Taker.side = "buy" THEN "sell" ELSE "buy")),
         PutBook(r),
         Entries("buy") \subseteq Entries("buy")', Entries("sell") \subseteq Entries("sell")'
  PROVE  buys' \in Seq(Entries("buy")') /\ sells' \in Seq(Entries("sell")')
PROOF
<1>1. CASE Taker.side = "buy"
  <2>1. sells' = r /\ buys' = buys /\ r \in Seq(Entries("sell"))
    BY <1>1 DEF PutBook
  <2> QED BY <2>1, WidenSeq DEF TypeOK
<1>2. CASE Taker.side # "buy"
  <2>1. buys' = r /\ sells' = sells /\ r \in Seq(Entries("buy"))
    BY <1>2 DEF PutBook
  <2> QED BY <2>1, WidenSeq DEF TypeOK
<1> QED BY <1>1, <1>2

LEMMA DiscardType == TypeOK /\ DiscardStale => TypeOK'
PROOF
<1> SUFFICES ASSUME TypeOK, DiscardStale PROVE TypeOK'
  OBVIOUS
<1>1. InLoop /\ PutBook(HeapPop(Book))
      /\ UNCHANGED <<objs, orders, fills, incoming, withdrawn>>
  BY DEF DiscardStale
<1>2. Handles' = Handles /\ Entries("buy")' = Entries("buy") /\ Entries("sell")' = Entries("sell")
  BY <1>1 DEF Handles, Entries
<1>3. HeapPop(Book) \in Seq(Entries(IF Taker.side = "buy" THEN "sell" ELSE "buy"))
  BY <1>1, InLoopFacts, PopKeepsEntries
<1>4. buys' \in Seq(Entries("buy")') /\ sells' \in Seq(Entries("sell")')
  BY <1>1, <1>2, <1>3, PutBookType
<1> QED BY <1>1, <1>2, <1>4 DEF TypeOK

\* A trade of qty: one fill, and both orders are left with that much less.
Trade(qty) ==
  /\ fills' = Append(fills, FillOf(Best, qty))
  /\ qty \in {Taker.qty, objs[Best].qty} /\ qty <= Taker.qty /\ qty <= objs[Best].qty
  /\ \A h \in {incoming, Best} : objs'[h].qty = objs[h].qty - qty

\* What a trade does to the objects and to the fills.
LEMMA TradeFacts ==
  ASSUME TypeOK, MatchBest
  PROVE  /\ objs' \in Seq(Order) /\ Len(objs') = Len(objs) /\ Handles' = Handles
         /\ \A h \in Handles : /\ objs'[h].side = objs[h].side
                               /\ objs'[h].price = objs[h].price
                               /\ objs'[h].id = objs[h].id
                               /\ objs'[h].asked = objs[h].asked
                               /\ h \notin {incoming, Best} => objs'[h].qty = objs[h].qty
         /\ \E qty \in Nat : Trade(qty)
PROOF
<1> DEFINE maker == Best
           left == objs[maker].qty
           qty == IF Taker.qty <= left THEN Taker.qty ELSE left
<1>1. InLoop
  BY DEF MatchBest
<1>2. /\ incoming \in Handles /\ maker \in Handles /\ maker # incoming
      /\ objs[incoming] \in Order /\ objs[maker] \in Order
  BY <1>1, InLoopFacts DEF Taker
<1>3. /\ objs' = [objs EXCEPT ![incoming].qty = @ - qty, ![maker].qty = @ - qty]
      /\ fills' = Append(fills, FillOf(maker, qty))
  BY DEF MatchBest
<1>4. /\ qty \in Nat /\ qty <= objs[incoming].qty /\ qty <= objs[maker].qty
  BY <1>2 DEF Order, Taker
<1> DEFINE t == [objs[incoming] EXCEPT !.qty = @ - qty]
           m == [objs[maker] EXCEPT !.qty = @ - qty]
<1>5. t \in Order /\ m \in Order
  BY <1>2, <1>4 DEF Order
<1>6. objs' = [[objs EXCEPT ![incoming] = t] EXCEPT ![maker] = m]
  BY <1>2, <1>3
<1>7. /\ t.side = objs[incoming].side /\ t.price = objs[incoming].price
      /\ t.id = objs[incoming].id /\ t.asked = objs[incoming].asked
      /\ t.qty = objs[incoming].qty - qty
      /\ m.side = objs[maker].side /\ m.price = objs[maker].price
      /\ m.id = objs[maker].id /\ m.asked = objs[maker].asked
      /\ m.qty = objs[maker].qty - qty
  BY <1>2 DEF Order
<1>a. qty \in {objs[incoming].qty, objs[maker].qty}
  BY DEF Taker
<1> HIDE DEF t, m, qty, maker
<1>8. objs \in Seq(Order)
  BY DEF TypeOK
<1>9. objs' \in Seq(Order) /\ Len(objs') = Len(objs) /\ Handles' = Handles
  BY <1>2, <1>5, <1>6, <1>8 DEF Handles
<1>10. \A h \in Handles :
         objs'[h] = IF h = maker THEN m ELSE IF h = incoming THEN t ELSE objs[h]
  BY <1>2, <1>6, <1>8 DEF Handles
<1>11. Trade(qty)
  BY <1>2, <1>3, <1>4, <1>7, <1>10, <1>a DEF Trade, Taker, maker
<1> QED BY <1>4, <1>7, <1>9, <1>10, <1>11 DEF maker

LEMMA MatchType == TypeOK /\ MatchBest => TypeOK'
PROOF
<1> SUFFICES ASSUME TypeOK, MatchBest PROVE TypeOK'
  OBVIOUS
<1> DEFINE other == IF Taker.side = "buy" THEN "sell" ELSE "buy"
<1>1. InLoop /\ UNCHANGED <<incoming, withdrawn>>
  BY DEF MatchBest
<1>2. /\ objs' \in Seq(Order) /\ Len(objs') = Len(objs) /\ Handles' = Handles
      /\ \A h \in Handles : objs'[h].side = objs[h].side /\ objs'[h].price = objs[h].price
  BY TradeFacts
<1>3. Entries("buy") \subseteq Entries("buy")' /\ Entries("sell") \subseteq Entries("sell")'
  BY <1>2, EntriesGrow DEF Sides
<1>4. /\ incoming \in Handles /\ Best \in Handles /\ Book # <<>>
      /\ Book \in Seq(Entries(other)) /\ Book[1] \in Entries(other)
      /\ objs[Best].id \in Ids /\ objs[Best].price \in Nat
  BY <1>1, InLoopFacts DEF Order
<1>5. HeapPop(Book) \in Seq(Entries(other))
  BY <1>4, PopKeepsEntries
<1>6. HeapPush(HeapPop(Book), Book[1]) \in Seq(Entries(other))
  BY <1>4, <1>5, PushKeepsEntries
<1>7. PutBook(HeapPop(Book)) \/ PutBook(HeapPush(HeapPop(Book), Book[1]))
  BY DEF MatchBest
<1>8. buys' \in Seq(Entries("buy")') /\ sells' \in Seq(Entries("sell")')
  BY <1>1, <1>3, <1>5, <1>6, <1>7, PutBookType
<1>9. orders' \in [Ids -> Handles' \cup {0}]
  <2>1. orders' = orders \/ orders' = [orders EXCEPT ![objs[Best].id] = 0]
    BY DEF MatchBest
  <2> QED BY <1>2, <2>1 DEF TypeOK
<1>10. fills' \in Seq([buy : Handles', sell : Handles', price : Nat, qty : Nat])
  <2>1. PICK qty \in Nat : fills' = Append(fills, FillOf(Best, qty))
    BY TradeFacts DEF Trade
  <2>2. FillOf(Best, qty) \in [buy : Handles, sell : Handles, price : Nat, qty : Nat]
    BY <1>4, <2>1 DEF FillOf
  <2> QED BY <1>2, <2>1, <2>2 DEF TypeOK
<1> QED BY <1>1, <1>2, <1>8, <1>9, <1>10 DEF TypeOK

LEMMA RestType == TypeOK /\ Rest => TypeOK'
PROOF
<1> SUFFICES ASSUME TypeOK, Rest PROVE TypeOK'
  OBVIOUS
<1>0. incoming \in Handles
  BY DEF Rest, LoopIsOver, TypeOK
<1>1. incoming \in Handles /\ Taker.side \in Sides
  <2>1. objs[incoming] \in Order
    BY <1>0 DEF TypeOK, Handles
  <2> QED BY <1>0, <2>1 DEF Taker, Order
<1>2. Entry(incoming) \in Entries(Taker.side)
  BY <1>1, OwnEntry DEF Taker
<1>3. /\ UNCHANGED <<objs, orders, fills, withdrawn>> /\ incoming' = 0
      /\ IF Taker.side = "buy"
         THEN buys' = HeapPush(buys, Entry(incoming)) /\ UNCHANGED sells
         ELSE sells' = HeapPush(sells, Entry(incoming)) /\ UNCHANGED buys
  BY DEF Rest
<1>4. Handles' = Handles /\ Entries("buy")' = Entries("buy") /\ Entries("sell")' = Entries("sell")
  BY <1>3 DEF Handles, Entries
<1>5. buys' \in Seq(Entries("buy")) /\ sells' \in Seq(Entries("sell"))
  BY <1>1, <1>2, <1>3, PushKeepsEntries DEF TypeOK, Sides
<1> QED BY <1>3, <1>4, <1>5 DEF TypeOK

LEMMA DoneType == TypeOK /\ Done => TypeOK'
PROOF
<1> SUFFICES ASSUME TypeOK, Done PROVE TypeOK'
  OBVIOUS
<1>1. /\ UNCHANGED <<objs, buys, sells, fills, withdrawn>> /\ incoming' = 0
      /\ orders' = [orders EXCEPT ![Taker.id] = 0]
  BY DEF Done
<1>2. Handles' = Handles /\ Entries("buy")' = Entries("buy") /\ Entries("sell")' = Entries("sell")
  BY <1>1 DEF Handles, Entries
<1> QED BY <1>1, <1>2 DEF TypeOK

LEMMA CancelType == ASSUME TypeOK, NEW id \in Ids, Cancel(id) PROVE TypeOK'
PROOF
<1>1. /\ UNCHANGED <<objs, fills, incoming>> /\ orders' = [orders EXCEPT ![id] = 0]
      /\ buys' \in Without(buys, id) /\ sells' \in Without(sells, id)
      /\ withdrawn' \subseteq withdrawn \cup Handles
  BY DEF Cancel
<1>2. Handles' = Handles /\ Entries("buy")' = Entries("buy") /\ Entries("sell")' = Entries("sell")
  BY <1>1 DEF Handles, Entries
<1>3. buys' \in Seq(Entries("buy")) /\ sells' \in Seq(Entries("sell"))
  BY <1>1, WithoutKeeps DEF TypeOK
<1> QED BY <1>1, <1>2, <1>3 DEF TypeOK

LEMMA AddIsTyped ==
  /\ AddLimit => \E id \in Ids, side \in Sides, price \in Nat, qty \in Quantities :
                   Add(id, side, price, qty)
  /\ AddMarket => \E id \in Ids, side \in Sides, price \in Nat, qty \in Quantities :
                    Add(id, side, price, qty)
BY PricesAssumption, InfinityAssumption DEF AddLimit, AddMarket, MarketPrice

LEMMA StepType == TypeOK /\ [Next]_vars => TypeOK'
PROOF
<1> SUFFICES ASSUME TypeOK, [Next]_vars PROVE TypeOK'
  OBVIOUS
<1>1. CASE AddLimit \/ AddMarket
  BY <1>1, AddIsTyped, AddType
<1>2. CASE DiscardStale
  BY <1>2, DiscardType
<1>3. CASE MatchBest
  BY <1>3, MatchType
<1>4. CASE Rest
  BY <1>4, RestType
<1>5. CASE Done
  BY <1>5, DoneType
<1>6. CASE \E id \in Ids : Cancel(id)
  BY <1>6, CancelType
<1>7. CASE UNCHANGED vars
  BY <1>7 DEF vars, TypeOK, Handles, Entries
<1> QED BY <1>1, <1>2, <1>3, <1>4, <1>5, <1>6, <1>7 DEF Next, Step

\* The engine's lists, dict and fills stay well formed: every entry of a book
\* is the sort key of an object of that side, and every fill names objects.
THEOREM TypeCorrect == Spec => []TypeOK
PROOF
<1>1. Init => TypeOK
  BY InitType
<1>2. TypeOK /\ [Next]_vars => TypeOK'
  BY StepType
<1> QED BY <1>1, <1>2, PTL DEF Spec

---------------------------------------------------------------------------
(* Fills. *)

\* A step keeps what an earlier fill says of its two orders.
LEMMA OldFillsKeep ==
  ASSUME TypeOK, NoTradeThrough,
         \A h \in Handles : objs'[h].side = objs[h].side /\ objs'[h].price = objs[h].price,
         NEW i \in DOMAIN fills, fills'[i] = fills[i]
  PROVE  /\ objs'[fills'[i].sell].side = "sell" /\ objs'[fills'[i].buy].side = "buy"
         /\ objs'[fills'[i].sell].price <= fills'[i].price
         /\ fills'[i].price <= objs'[fills'[i].buy].price
PROOF
<1>1. fills[i] \in [buy : Handles, sell : Handles, price : Nat, qty : Nat]
  BY EntryOfSeq DEF TypeOK
<1> QED BY <1>1 DEF NoTradeThrough

\* No fill is worse than the limit of either of its orders: the loop of _match
\* trades only after the price check on the very object it trades with,
\* whatever a cancel has done to the shape of the heaps.
THEOREM FillsRespectLimits == Spec => []NoTradeThrough
PROOF
<1>1. Init => NoTradeThrough
  BY DEF Init, NoTradeThrough
<1>2. TypeOK /\ NoTradeThrough /\ [Next]_vars => NoTradeThrough'
  <2> SUFFICES ASSUME TypeOK, NoTradeThrough, [Next]_vars PROVE NoTradeThrough'
    OBVIOUS
  <2>1. CASE MatchBest
    <3>1. PICK qty \in Nat : fills' = Append(fills, FillOf(Best, qty))
      BY <2>1, TradeFacts DEF Trade
    <3>2. \A h \in Handles : objs'[h].side = objs[h].side /\ objs'[h].price = objs[h].price
      BY <2>1, TradeFacts
    <3>3. /\ incoming \in Handles /\ Best \in Handles /\ Crosses
          /\ Taker \in Order /\ objs[Best] \in Order /\ objs[Best].side # Taker.side
      BY <2>1, InLoopFacts DEF MatchBest, InLoop
    <3> DEFINE f == FillOf(Best, qty)
               k == Len(fills) + 1
    <3>4. /\ objs[f.sell].side = "sell" /\ objs[f.buy].side = "buy"
          /\ objs[f.sell].price <= f.price /\ f.price <= objs[f.buy].price
          /\ f.sell \in Handles /\ f.buy \in Handles
      BY <3>3 DEF FillOf, Crosses, Taker, Order, Sides
    <3> HIDE DEF f
    <3>5. /\ DOMAIN fills' = DOMAIN fills \cup {k} /\ fills'[k] = f
          /\ \A i \in DOMAIN fills : fills'[i] = fills[i]
      BY <3>1, SMTT(30) DEF TypeOK, f
    <3>6. /\ objs'[f.sell].side = "sell" /\ objs'[f.buy].side = "buy"
          /\ objs'[f.sell].price <= f.price /\ f.price <= objs'[f.buy].price
      BY <3>2, <3>4
    <3> QED BY <3>2, <3>5, <3>6, OldFillsKeep DEF NoTradeThrough
  <2>2. CASE AddLimit \/ AddMarket
    <3>1. /\ fills' = fills /\ objs \in Seq(Order)
          /\ \E o : objs' = Append(objs, o)
      BY <2>2, AddIsTyped DEF Add, TypeOK
    <3>2. \A h \in Handles : objs'[h] = objs[h]
      BY <3>1 DEF Handles
    <3> QED BY <3>1, <3>2, OldFillsKeep DEF NoTradeThrough
  <2>3. CASE UNCHANGED <<objs, fills>>
    BY <2>3 DEF NoTradeThrough
  <2>4. (DiscardStale \/ Rest \/ Done \/ (\E id \in Ids : Cancel(id)) \/ UNCHANGED vars)
          => UNCHANGED <<objs, fills>>
    BY DEF DiscardStale, Rest, Done, Cancel, vars
  <2> QED BY <2>1, <2>2, <2>3, <2>4 DEF Next, Step
<1> QED BY <1>1, <1>2, TypeCorrect, PTL DEF Spec

LEMMA FillType ==
  ASSUME TypeOK, NEW i \in DOMAIN fills
  PROVE  fills[i] \in [buy : Handles, sell : Handles, price : Nat, qty : Nat]
BY EntryOfSeq DEF TypeOK

LEMMA ObjectType ==
  ASSUME TypeOK, NEW h \in Handles
  PROVE  objs[h] \in Order
BY EntryOfSeq DEF TypeOK, Handles

\* What the fills say of an order, with one fill more.
LEMMA FillSum ==
  ASSUME TypeOK, NEW f, f.qty \in Nat, fills' = Append(fills, f), NEW h
  PROVE  /\ FilledQty(h) \in Nat
         /\ FilledQty(h)' = FilledQty(h) + (IF h \in {f.buy, f.sell} THEN f.qty ELSE 0)
PROOF
<1> DEFINE S == {i \in DOMAIN fills : h \in {fills[i].buy, fills[i].sell}}
           q == [i \in DOMAIN fills |-> fills[i].qty]
           r == [i \in DOMAIN fills' |-> fills'[i].qty]
           n == Len(fills) + 1
<1>1. /\ n \in Nat /\ DOMAIN fills = 1..(n - 1) /\ DOMAIN fills' = 1..n /\ fills'[n] = f
      /\ \A i \in 1..(n - 1) : fills[i].qty \in Nat /\ fills'[i] = fills[i]
  <2>1. fills \in Seq([buy : Handles, sell : Handles, price : Nat, qty : Nat])
    BY DEF TypeOK
  <2>2. \A i \in DOMAIN fills : fills[i].qty \in Nat
    BY FillType
  <2> QED BY <2>1, <2>2
<1>2. S \subseteq 1..(n - 1) /\ IsFiniteSet(S) /\ n \notin S
  <2>1. S \subseteq 1..(n - 1)
    BY <1>1
  <2>2. IsFiniteSet(1..(n - 1))
    BY <1>1, FS_Interval
  <2>3. n \notin 1..(n - 1)
    BY <1>1
  <2> QED BY <2>1, <2>2, <2>3, FS_Subset
<1>3. {i \in DOMAIN fills' : h \in {fills'[i].buy, fills'[i].sell}}
        = IF h \in {f.buy, f.sell} THEN S \cup {n} ELSE S
  <2>1. DOMAIN fills' = DOMAIN fills \cup {n}
    BY <1>1
  <2>2. \A i \in DOMAIN fills : fills'[i] = fills[i]
    BY <1>1
  <2> QED BY <1>1, <2>1, <2>2
<1>4. /\ \A i \in S : q[i] \in Nat /\ r[i] = q[i]
      /\ r[n] = f.qty
  BY <1>1, <1>2
<1>5. FilledQty(h) = SumFunctionOnSet(q, S)
  BY DEF FilledQty
<1>6. FilledQty(h)' = SumFunctionOnSet(r, IF h \in {f.buy, f.sell} THEN S \cup {n} ELSE S)
  BY <1>3 DEF FilledQty
<1> HIDE DEF S, q, r, n
<1>7. SumFunctionOnSet(q, S) \in Nat /\ SumFunctionOnSet(r, S) = SumFunctionOnSet(q, S)
  <2>1. \A i \in S : q[i] \in Nat /\ q[i] \in Int /\ r[i] = q[i]
    BY <1>4
  <2>2. SumFunctionOnSet(q, S) \in Nat
    BY <1>2, <2>1, SumOfNaturals
  <2> QED BY <1>2, <2>1, <2>2, SumSame
<1>8. SumFunctionOnSet(r, S \cup {n}) = f.qty + SumFunctionOnSet(r, S)
  <2>1. \A i \in S \cup {n} : r[i] \in Int
    BY <1>4
  <2> QED BY <1>2, <1>4, <2>1, SumAdd
<1> QED BY <1>5, <1>6, <1>7, <1>8

\* A new object is in no fill.
LEMMA NoFillsYet ==
  ASSUME TypeOK, NEW h, h \notin Handles
  PROVE  FilledQty(h) = 0
PROOF
<1>1. \A i \in DOMAIN fills : fills[i].buy \in Handles /\ fills[i].sell \in Handles
  BY FillType
<1>2. {i \in DOMAIN fills : h \in {fills[i].buy, fills[i].sell}} = {}
  BY <1>1
<1> QED BY <1>2, SumEmpty DEF FilledQty

\* Of every order, what it asked for is what it has left and what its fills
\* say: the partial fills that the loop of _match puts back in a book are
\* neither lost nor filled twice, and both sides of a fill give the same.
THEOREM QuantityIsConserved == Spec => []QuantityConserved
PROOF
<1>1. Init => QuantityConserved
  BY DEF Init, QuantityConserved, Handles
<1>2. TypeOK /\ QuantityConserved /\ [Next]_vars => QuantityConserved'
  <2> SUFFICES ASSUME TypeOK, QuantityConserved, [Next]_vars PROVE QuantityConserved'
    OBVIOUS
  <2>1. CASE MatchBest
    <3>1. PICK qty \in Nat : Trade(qty)
      BY <2>1, TradeFacts
    <3>2. /\ Handles' = Handles
          /\ \A h \in Handles : objs'[h].asked = objs[h].asked
          /\ \A h \in Handles \ {incoming, Best} : objs'[h].qty = objs[h].qty
      BY <2>1, TradeFacts
    <3>3. \A h \in Handles : objs[h].qty \in Nat /\ objs[h].asked = objs[h].qty + FilledQty(h)
      BY ObjectType DEF QuantityConserved, Order
    <3> DEFINE f == FillOf(Best, qty)
    <3>4. f.qty = qty /\ {f.buy, f.sell} = {incoming, Best}
      BY DEF FillOf
    <3>5. fills' = Append(fills, f)
      BY <3>1 DEF Trade
    <3> HIDE DEF f
    <3>6. \A h \in Handles : /\ FilledQty(h) \in Nat
                            /\ FilledQty(h)' = FilledQty(h) + (IF h \in {incoming, Best} THEN qty ELSE 0)
      BY <3>4, <3>5, FillSum
    <3>7. \A h \in {incoming, Best} : objs'[h].qty = objs[h].qty - qty
      BY <3>1 DEF Trade
    <3>8. \A h \in Handles : objs'[h].asked = objs'[h].qty + FilledQty(h)'
      BY <3>2, <3>3, <3>6, <3>7
    <3> QED BY <3>2, <3>8 DEF QuantityConserved
  <2>2. CASE AddLimit \/ AddMarket
    <3>1. PICK id \in Ids, side \in Sides, price \in Nat, qty \in Quantities :
                Add(id, side, price, qty)
      BY <2>2, AddIsTyped
    <3>n. PICK n : n = Len(objs) + 1
      OBVIOUS
    <3>2. /\ objs' = Append(objs, [id |-> id, side |-> side, price |-> price,
                                   qty |-> qty, asked |-> qty])
          /\ fills' = fills /\ objs \in Seq(Order) /\ qty \in Nat
      BY <3>1, QuantitiesAssumption DEF Add, TypeOK
    <3>3. \A h : FilledQty(h)' = FilledQty(h)
      BY <3>2 DEF FilledQty
    <3>4. /\ Handles' = Handles \cup {n} /\ n \notin Handles
          /\ \A h \in Handles : objs'[h] = objs[h]
          /\ objs'[n].asked = qty /\ objs'[n].qty = qty
      BY <3>2, <3>n DEF Handles
    <3>5. FilledQty(n) = 0
      BY <3>4, NoFillsYet
    <3>6. FilledQty(n)' = 0
      BY <3>3, <3>5, Zenon
    <3>7. qty = qty + 0
      BY <3>2
    <3>8. objs'[n].asked = objs'[n].qty + FilledQty(n)'
      BY <3>4, <3>6, <3>7, Zenon
    <3> QED BY <3>3, <3>4, <3>8 DEF QuantityConserved
  <2>3. CASE UNCHANGED <<objs, fills>>
    BY <2>3 DEF QuantityConserved, FilledQty, Handles
  <2>4. (DiscardStale \/ Rest \/ Done \/ (\E id \in Ids : Cancel(id)) \/ UNCHANGED vars)
          => UNCHANGED <<objs, fills>>
    BY DEF DiscardStale, Rest, Done, Cancel, vars
  <2> QED BY <2>1, <2>2, <2>3, <2>4 DEF Next, Step
<1> QED BY <1>1, <1>2, TypeCorrect, PTL DEF Spec

---------------------------------------------------------------------------
(* Cancels. *)

\* What makes CancelledNeverTrade inductive: a withdrawn object is in no book
\* and is not being matched, and no step brings an object back to a book.
WithdrawnGone == withdrawn \cap (Resting \cup {incoming}) = {}

LEMMA PutBookRests ==
  ASSUME TypeOK, NEW r, PutBook(r), InBook(r) \subseteq InBook(Book)
  PROVE  Resting' \subseteq Resting
BY DEF PutBook, Resting, InBook, Book

LEMMA PoppedBook ==
  ASSUME TypeOK, InLoop
  PROVE  /\ InBook(HeapPop(Book)) \subseteq InBook(Book)
         /\ InBook(HeapPush(HeapPop(Book), Book[1])) \subseteq InBook(Book)
PROOF
<1> DEFINE S == Entries(IF Taker.side = "buy" THEN "sell" ELSE "buy")
<1>1. Book \in Seq(S) /\ Book # <<>> /\ Book[1] \in S /\ 1 \in DOMAIN Book
  BY InLoopFacts
<1> HIDE DEF S
<1>2. /\ HeapPop(Book) \in Seq(S)
      /\ \A i \in DOMAIN HeapPop(Book) : \E j \in DOMAIN Book : HeapPop(Book)[i] = Book[j]
  BY <1>1, PopKeepsEntries
<1> DEFINE p == HeapPop(Book)
           q == HeapPush(p, Book[1])
<1>3. \A i \in DOMAIN q : q[i] = Book[1] \/ \E j \in DOMAIN p : q[i] = p[j]
  BY <1>1, <1>2, PushKeepsEntries
<1>4. \A i \in DOMAIN q : \E j \in DOMAIN Book : q[i] = Book[j]
  BY <1>1, <1>2, <1>3
<1> HIDE DEF p, q
<1>5. InBook(q) \subseteq InBook(Book)
  BY <1>4 DEF InBook
<1>6. InBook(p) \subseteq InBook(Book)
  BY <1>2 DEF InBook, p
<1> QED BY <1>5, <1>6 DEF p, q

LEMMA WithdrawnStep == TypeOK /\ WithdrawnGone /\ [Next]_vars => WithdrawnGone'
PROOF
<1> SUFFICES ASSUME TypeOK, WithdrawnGone, [Next]_vars PROVE WithdrawnGone'
  OBVIOUS
<1>1. CASE AddLimit \/ AddMarket
  <2>1. /\ incoming' = Len(objs) + 1 /\ UNCHANGED <<buys, sells, withdrawn>>
        /\ Len(objs) + 1 \notin withdrawn
    <3>1. Len(objs) + 1 \notin Handles
      BY DEF TypeOK, Handles
    <3> QED BY <1>1, <3>1 DEF AddLimit, AddMarket, Add, TypeOK
  <2>2. Resting' = Resting
    BY <2>1 DEF Resting, InBook
  <2> QED BY <2>1, <2>2 DEF WithdrawnGone
<1>2. CASE DiscardStale \/ MatchBest
  <2>1. /\ InLoop /\ UNCHANGED <<incoming, withdrawn>>
        /\ PutBook(HeapPop(Book)) \/ PutBook(HeapPush(HeapPop(Book), Book[1]))
    BY <1>2 DEF DiscardStale, MatchBest
  <2>2. Resting' \subseteq Resting
    BY <2>1, PoppedBook, PutBookRests
  <2> QED BY <2>1, <2>2 DEF WithdrawnGone
<1>3. CASE Rest
  <2>1. /\ incoming' = 0 /\ UNCHANGED withdrawn /\ incoming \in Handles
        /\ \/ buys' = HeapPush(buys, Entry(incoming)) /\ sells' = sells
           \/ sells' = HeapPush(sells, Entry(incoming)) /\ buys' = buys
    BY <1>3 DEF Rest, LoopIsOver, TypeOK
  <2> DEFINE e == Entry(incoming)
             T == Entries("buy") \cup Entries("sell") \cup {e}
  <2>2. buys \in Seq(T) /\ sells \in Seq(T) /\ e \in T
    BY WidenSeq DEF TypeOK
  <2> HIDE DEF T
  <2>3. \A h \in Seq(T) : \A i \in DOMAIN HeapPush(h, e) :
          HeapPush(h, e)[i] = e \/ \E j \in DOMAIN h : HeapPush(h, e)[i] = h[j]
    BY <2>2, PushKeepsEntries
  <2>4. e[2] = incoming
    BY DEF Entry, SortKey
  <2> HIDE DEF e
  <2>5. \A h \in Seq(T) : InBook(HeapPush(h, e)) \subseteq InBook(h) \cup {incoming}
    BY <2>3, <2>4 DEF InBook
  <2>6. Resting' \subseteq Resting \cup {incoming}
    <3>1. CASE buys' = HeapPush(buys, e) /\ sells' = sells
      <4>1. InBook(buys') \subseteq InBook(buys) \cup {incoming} /\ InBook(sells') = InBook(sells)
        BY <2>2, <2>5, <3>1
      <4> QED BY <4>1 DEF Resting, InBook
    <3>2. CASE sells' = HeapPush(sells, e) /\ buys' = buys
      <4>1. InBook(sells') \subseteq InBook(sells) \cup {incoming} /\ InBook(buys') = InBook(buys)
        BY <2>2, <2>5, <3>2
      <4> QED BY <4>1 DEF Resting, InBook
    <3> QED BY <2>1, <3>1, <3>2 DEF e
  <2>7. 0 \notin withdrawn
    BY DEF TypeOK, Handles
  <2> QED BY <2>1, <2>6, <2>7 DEF WithdrawnGone
<1>4. CASE Done
  <2>1. incoming' = 0 /\ UNCHANGED <<buys, sells, withdrawn>> /\ 0 \notin withdrawn
    BY <1>4 DEF Done, TypeOK, Handles
  <2>2. Resting' = Resting
    BY <2>1 DEF Resting, InBook
  <2> QED BY <2>1, <2>2 DEF WithdrawnGone
<1>5. ASSUME NEW id \in Ids, Cancel(id) PROVE WithdrawnGone'
  <2>1. /\ buys' \in Without(buys, id) /\ sells' \in Without(sells, id)
        /\ incoming = 0 /\ incoming' = 0
        /\ \A h \in withdrawn' : h \in withdrawn \/ objs[h].id = id
    BY <1>5 DEF Cancel
  <2>2. \A h \in Resting' : h \in Resting /\ objs[h].id # id
    <3>1. \A h \in InBook(buys') : h \in InBook(buys) /\ objs[h].id # id
      BY <2>1, WithoutKeeps DEF TypeOK, InBook
    <3>2. \A h \in InBook(sells') : h \in InBook(sells) /\ objs[h].id # id
      BY <2>1, WithoutKeeps DEF TypeOK, InBook
    <3> QED BY <3>1, <3>2 DEF Resting, InBook
  <2>3. 0 \notin withdrawn'
    BY <1>5, CancelType DEF TypeOK, Handles
  <2> QED BY <2>1, <2>2, <2>3 DEF WithdrawnGone
<1>6. CASE UNCHANGED vars
  BY <1>6 DEF vars, WithdrawnGone, Resting, InBook
<1> QED BY <1>1, <1>2, <1>3, <1>4, <1>5, <1>6 DEF Next, Step

\* An order whose cancel returned True never trades again, whatever is added
\* later, under its own order_id too: cancel takes the object out of the lists,
\* and no path of the engine puts an old object back.
THEOREM CancelIsFinal == Spec => CancelledNeverTrade
PROOF
<1>1. Init => WithdrawnGone
  BY DEF Init, WithdrawnGone
<1>2. TypeOK /\ WithdrawnGone /\ [Next]_vars
        => [\A h \in withdrawn : objs'[h].qty = objs[h].qty]_vars
  <2> SUFFICES ASSUME TypeOK, WithdrawnGone, Next, NEW h \in withdrawn
               PROVE  objs'[h].qty = objs[h].qty
    OBVIOUS
  <2>1. h \in Handles
    BY DEF TypeOK
  <2>2. CASE MatchBest
    <3>1. Best \in Resting
      <4>1. 1 \in DOMAIN Book
        BY <2>2, InLoopFacts DEF MatchBest
      <4> QED BY <4>1 DEF Best, Resting, InBook, Book
    <3>2. h \notin {incoming, Best}
      BY <3>1 DEF WithdrawnGone
    <3> QED BY <2>1, <2>2, <3>2, TradeFacts
  <2>3. CASE AddLimit \/ AddMarket
    <3>1. objs \in Seq(Order) /\ \E o : objs' = Append(objs, o)
      BY <2>3, AddIsTyped DEF Add, TypeOK
    <3> QED BY <2>1, <3>1 DEF Handles
  <2>4. (DiscardStale \/ Rest \/ Done \/ (\E id \in Ids : Cancel(id))) => UNCHANGED objs
    BY DEF DiscardStale, Rest, Done, Cancel
  <2> QED BY <2>2, <2>3, <2>4 DEF Next, Step
<1> QED BY <1>1, <1>2, WithdrawnStep, TypeCorrect, PTL DEF Spec, CancelledNeverTrade
---------------------------------------------------------------------------
(* Books.  What the lists, the dict and the objects say of each other at every *)
(* turn of the loop: what holds between calls rests on it.                     *)

\* No object stands twice in a list, and the one that is being matched in none.
NoneTwice == Distinct(buys) /\ Distinct(sells)
TakerAside == incoming \notin Resting

RestingLive == \A h \in Resting : objs[h].qty > 0

\* A key of the dict leads to an object of that order_id, in a book or being matched;
\* while an order_id is used once, every such object is in the dict.
DictLeads ==
  \A id \in Ids : orders[id] # 0 => /\ orders[id] \in Resting \cup {incoming}
                                    /\ objs[orders[id]].id = id
OnceInDict ==
  IdsUsedOnce => \A h \in (Resting \cup {incoming}) \ {0} : orders[objs[h].id] = h

\* Until the first cancel both lists are heaps, and no object of one crosses one of
\* the other.
HeapsHold == withdrawn = {} => IsHeap(buys) /\ IsHeap(sells)
Uncrossed ==
  withdrawn = {} => \A b \in InBook(buys), s \in InBook(sells) : objs[b].price < objs[s].price

BookInv == /\ NoneTwice /\ TakerAside /\ RestingLive
           /\ DictLeads /\ OnceInDict
           /\ HeapsHold /\ Uncrossed

LEMMA BookFacts ==
  ASSUME TypeOK
  PROVE  /\ \A h \in InBook(buys) : h \in Handles /\ objs[h].side = "buy"
         /\ \A h \in InBook(sells) : h \in Handles /\ objs[h].side = "sell"
         /\ Resting \subseteq Handles /\ 0 \notin Handles
         /\ buys \in Seq(Key) /\ sells \in Seq(Key)
PROOF
<1>1. buys \in Seq(Entries("buy")) /\ sells \in Seq(Entries("sell"))
  BY DEF TypeOK
<1>2. \A side \in Sides : Entries(side) \subseteq Key
  <2> SUFFICES ASSUME NEW side \in Sides, NEW h \in Handles
               PROVE  SortKey(side, objs[h].price, h) \in Key
    BY DEF Entries
  <2>1. objs[h].price \in Nat /\ h \in Nat
    BY ObjectType, SMTT(30) DEF Order, Handles, TypeOK
  <2> QED BY <2>1 DEF SortKey, Key
<1>3. buys \in Seq(Key) /\ sells \in Seq(Key)
  BY <1>1, <1>2, WidenSeq DEF Sides
<1>4. \A h \in InBook(buys) : h \in Handles /\ objs[h].side = "buy"
  <2>1. \A i \in DOMAIN buys : buys[i] \in Entries("buy")
    BY <1>1, EntryOfSeq
  <2> QED BY <2>1, EntryFacts DEF InBook, Sides
<1>5. \A h \in InBook(sells) : h \in Handles /\ objs[h].side = "sell"
  <2>1. \A i \in DOMAIN sells : sells[i] \in Entries("sell")
    BY <1>1, EntryOfSeq
  <2> QED BY <2>1, EntryFacts DEF InBook, Sides
<1>6. 0 \notin Handles
  BY DEF Handles, TypeOK
<1> QED BY <1>3, <1>4, <1>5, <1>6 DEF Resting

LEMMA InBookIsRange == ASSUME NEW book PROVE InBook(book) = {e[2] : e \in Range(book)}
BY DEF InBook, Range

\* An entry of a list is known by its handle.
LEMMA EntryByHandle ==
  ASSUME TypeOK, NEW side \in Sides, NEW d \in Entries(side), NEW e \in Entries(side),
         d[2] = e[2]
  PROVE  d = e
BY EntryFacts

\* What the loop leaves of the book: all but the best, or all of it.
LEMMA BookAfter ==
  ASSUME TypeOK, InLoop, Distinct(Book)
  PROVE  LET popped == HeapPop(Book)
             back == HeapPush(popped, Book[1])
         IN /\ InBook(popped) = InBook(Book) \ {Best} /\ Distinct(popped)
            /\ InBook(back) = InBook(Book) /\ Distinct(back)
            /\ IsHeap(Book) => IsHeap(popped) /\ IsHeap(back)
            /\ Best \in InBook(Book)
PROOF
<1> DEFINE other == IF Taker.side = "buy" THEN "sell" ELSE "buy"
           S == Entries(other)
           popped == HeapPop(Book)
           back == HeapPush(popped, Book[1])
<1>1. Book \in Seq(S) /\ Book # <<>> /\ Book[1] \in S /\ 1 \in DOMAIN Book /\ other \in Sides
  BY InLoopFacts DEF Sides
<1>2. Book \in Seq(Key) /\ Book[1] \in Key
  <2>1. Book \in Seq(Key)
    BY BookFacts DEF Book
  <2> QED BY <1>1, <2>1
<1> HIDE DEF S, other
<1>3. Range(popped) = Range(Book) \ {Book[1]} /\ Distinct(popped) /\ popped \in Seq(S)
  BY <1>1, PopTakesFirst, PopKeepsEntries
<1>4. Range(back) = Range(Book) /\ Distinct(back)
  <2>1. Book[1] \in Range(Book)
    BY <1>1 DEF Range
  <2> HIDE DEF popped
  <2>2. Range(back) = Range(popped) \cup {Book[1]}
    BY <1>1, <1>3, PushAddsOne
  <2>3. Distinct(back)
    BY <1>1, <1>3, PushAddsOne
  <2> QED BY <1>3, <2>1, <2>2, <2>3
<1>5. IsHeap(Book) => IsHeap(popped) /\ IsHeap(back)
  <2>1. popped \in Seq(Key)
    BY <1>1, <1>2, PopKeepsEntries
  <2>2. IsHeap(Book) => IsHeap(popped)
    BY <1>1, <1>2, PopKeepsHeap
  <2> HIDE DEF popped
  <2>3. IsHeap(popped) => IsHeap(back)
    BY <1>2, <2>1, PushKeepsHeap
  <2> QED BY <2>2, <2>3
<1>6. InBook(popped) = InBook(Book) \ {Best}
  <2>1. \A e \in Range(Book) : e \in S
    BY <1>1, EntryOfSeq DEF Range
  <2>2. \A e \in Range(Book) : e[2] = Best => e = Book[1]
    BY <1>1, <2>1, EntryByHandle DEF S, Best
  <2>3. Book[1][2] = Best
    BY DEF Best
  <2> HIDE DEF popped
  <2> QED BY <1>3, <2>2, <2>3, InBookIsRange
<1>7. InBook(back) = InBook(Book)
  <2> HIDE DEF back
  <2> QED BY <1>4, InBookIsRange
<1>8. Best \in InBook(Book)
  BY <1>1 DEF Best, InBook
<1> QED BY <1>3, <1>4, <1>5, <1>6, <1>7, <1>8

\* The books when a list is put in the place of the taker's opposite book.
LEMMA PutBookBooks ==
  ASSUME TypeOK, NoneTwice, InLoop, NEW r, PutBook(r), Distinct(r),
         InBook(r) \subseteq InBook(Book), IsHeap(Book) => IsHeap(r)
  PROVE  /\ Resting' = (Resting \ InBook(Book)) \cup InBook(r)
         /\ InBook(buys)' \subseteq InBook(buys) /\ InBook(sells)' \subseteq InBook(sells)
         /\ NoneTwice'
         /\ IsHeap(buys) /\ IsHeap(sells) => IsHeap(buys') /\ IsHeap(sells')
PROOF
<1>1. InBook(buys) \cap InBook(sells) = {}
  BY BookFacts
<1>2. CASE Taker.side = "buy"
  <2>1. sells' = r /\ buys' = buys /\ Book = sells
    BY <1>2 DEF PutBook, Book
  <2>2. InBook(sells)' = InBook(r) /\ InBook(buys)' = InBook(buys)
    BY <2>1 DEF InBook
  <2>3. /\ Distinct(sells)' /\ Distinct(buys)'
        /\ IsHeap(sells) => IsHeap(sells')
        /\ IsHeap(buys) => IsHeap(buys')
    BY <2>1 DEF NoneTwice, Distinct
  <2> QED BY <1>1, <2>1, <2>2, <2>3 DEF Resting, NoneTwice
<1>3. CASE Taker.side # "buy"
  <2>1. buys' = r /\ sells' = sells /\ Book = buys
    BY <1>3 DEF PutBook, Book
  <2>2. InBook(buys)' = InBook(r) /\ InBook(sells)' = InBook(sells)
    BY <2>1 DEF InBook
  <2>3. /\ Distinct(buys)' /\ Distinct(sells)'
        /\ IsHeap(buys) => IsHeap(buys')
        /\ IsHeap(sells) => IsHeap(sells')
    BY <2>1 DEF NoneTwice, Distinct
  <2> QED BY <1>1, <2>1, <2>2, <2>3 DEF Resting, NoneTwice
<1> QED BY <1>2, <1>3

\* In a list that is a heap the best is best: no object of the list has a better
\* price, or came earlier at the same price.
LEMMA BestIsBest ==
  ASSUME TypeOK, incoming \in Handles, IsHeap(Book), NEW h \in InBook(Book)
  PROVE  /\ Best \in InBook(Book)
         /\ \/ objs[Best].price = objs[h].price /\ Best <= h
            \/ Taker.side = "buy" /\ objs[Best].price < objs[h].price
            \/ Taker.side = "sell" /\ objs[Best].price > objs[h].price
PROOF
<1> DEFINE other == IF Taker.side = "buy" THEN "sell" ELSE "buy"
<1>1. PICK i \in DOMAIN Book : h = Book[i][2]
  BY DEF InBook
<1>2. Book \in Seq(Entries(other)) /\ Book \in Seq(Key) /\ other \in Sides
  BY BookFacts DEF TypeOK, Book, Sides
<1>3. 1 \in DOMAIN Book
  BY <1>1, <1>2
<1>4. ~KeyLess(Book[i], Book[1])
  BY <1>1, <1>2, HeadIsLeast
<1>5. /\ Book[i] = SortKey(other, objs[h].price, h)
      /\ Book[1] = SortKey(other, objs[Best].price, Best)
      /\ h \in Handles /\ Best \in Handles
  BY <1>1, <1>2, <1>3, EntryOfSeq, EntryFacts DEF Best
<1>6. objs[h].price \in Nat /\ objs[Best].price \in Nat /\ h \in Nat /\ Best \in Nat
  <2>1. objs[h] \in Order /\ objs[Best] \in Order
    BY <1>5, ObjectType
  <2>2. Handles \subseteq Nat
    BY DEF Handles, TypeOK
  <2> QED BY <1>5, <2>1, <2>2 DEF Order
<1>7. Taker.side \in Sides
  BY ObjectType DEF Taker, Order
<1>8. Best \in InBook(Book)
  BY <1>3 DEF Best, InBook
<1>9. CASE Taker.side = "buy"
  <2>1. ~KeyLess(<<objs[h].price, h>>, <<objs[Best].price, Best>>)
    BY <1>4, <1>5, <1>9 DEF SortKey
  <2> HIDE DEF other
  <2> QED BY <1>6, <1>8, <1>9, <2>1 DEF KeyLess
<1>10. CASE Taker.side = "sell"
  <2>1. ~KeyLess(<<-objs[h].price, h>>, <<-objs[Best].price, Best>>)
    BY <1>4, <1>5, <1>10 DEF SortKey
  <2> HIDE DEF other
  <2> QED BY <1>6, <1>8, <1>10, <2>1 DEF KeyLess
<1> QED BY <1>7, <1>9, <1>10 DEF Sides

LEMMA InitBook == Init => BookInv
PROOF
<1> SUFFICES ASSUME Init PROVE BookInv
  OBVIOUS
<1>1. /\ objs = <<>> /\ buys = <<>> /\ sells = <<>> /\ incoming = 0
      /\ orders = [id \in Ids |-> 0]
  BY DEF Init
<1>2. DOMAIN buys = {} /\ DOMAIN sells = {} /\ 2..Len(buys) = {} /\ 2..Len(sells) = {}
  BY <1>1
<1>3. InBook(buys) = {} /\ InBook(sells) = {} /\ Resting = {}
  BY <1>2 DEF InBook, Resting
<1> QED BY <1>1, <1>2, <1>3 DEF BookInv, NoneTwice, Distinct, TakerAside, RestingLive, DictLeads,
           OnceInDict, HeapsHold, IsHeap, Uncrossed

LEMMA AddBook ==
  ASSUME TypeOK, BookInv, NEW id \in Ids, NEW side \in Sides, NEW price \in Nat,
         NEW qty \in Quantities, Add(id, side, price, qty)
  PROVE  BookInv'
PROOF
<1> DEFINE o == [id |-> id, side |-> side, price |-> price, qty |-> qty, asked |-> qty]
<1>n. PICK n : n = Len(objs) + 1
  OBVIOUS
<1>1. /\ objs' = Append(objs, o) /\ objs \in Seq(Order)
      /\ orders' = [orders EXCEPT ![id] = n] /\ orders \in [Ids -> Handles \cup {0}]
      /\ incoming = 0 /\ incoming' = n
      /\ UNCHANGED <<buys, sells, fills, withdrawn>>
  BY <1>n DEF Add, TypeOK
<1>2. /\ Handles' = Handles \cup {n} /\ n \notin Handles /\ n # 0
      /\ \A h \in Handles : objs'[h] = objs[h]
      /\ objs'[n] = o
  BY <1>1, <1>n DEF Handles
<1>3. /\ Resting' = Resting /\ InBook(buys)' = InBook(buys) /\ InBook(sells)' = InBook(sells)
  BY <1>1 DEF Resting, InBook
<1>4. /\ Resting \subseteq Handles /\ 0 \notin Handles
      /\ InBook(buys) \subseteq Handles /\ InBook(sells) \subseteq Handles
  BY BookFacts
<1>5. objs'[n].id = id
  BY <1>2
<1> HIDE DEF o
<1>6. NoneTwice' /\ TakerAside' /\ RestingLive' /\ HeapsHold' /\ Uncrossed'
  BY <1>1, <1>2, <1>3, <1>4 DEF BookInv, NoneTwice, Distinct, TakerAside, RestingLive, HeapsHold,
     IsHeap, Uncrossed
<1>7. DictLeads'
  <2> SUFFICES ASSUME NEW k \in Ids, orders'[k] # 0
               PROVE  orders'[k] \in Resting \cup {n} /\ objs'[orders'[k]].id = k
    BY <1>1, <1>3 DEF DictLeads
  <2>1. CASE k = id
    BY <1>1, <1>5, <2>1
  <2>2. CASE k # id
    <3>1. orders'[k] = orders[k] /\ orders[k] \in Resting /\ objs[orders[k]].id = k
      BY <1>1, <2>2 DEF BookInv, DictLeads
    <3> QED BY <1>2, <1>4, <3>1
  <2> QED BY <2>1, <2>2
<1>8. OnceInDict'
  <2> SUFFICES ASSUME IdsUsedOnce', NEW h \in Resting \cup {n} PROVE orders'[objs'[h].id] = h
    BY <1>1, <1>3 DEF OnceInDict
  <2>1. IdsUsedOnce
    BY <1>2 DEF IdsUsedOnce
  <2>2. CASE h = n
    BY <1>1, <1>5, <2>2
  <2>3. CASE h # n
    <3>1. h \in Handles /\ h \in Resting /\ h # 0
      BY <1>4, <2>3
    <3>2. objs[h].id # id /\ objs[h].id \in Ids /\ objs'[h] = objs[h]
      <4>1. objs[h].id \in Ids
        BY <3>1, ObjectType DEF Order
      <4> QED BY <1>2, <1>5, <2>3, <3>1, <4>1 DEF IdsUsedOnce
    <3>3. orders[objs[h].id] = h
      BY <2>1, <3>1 DEF BookInv, OnceInDict
    <3> QED BY <1>1, <3>2, <3>3
  <2> QED BY <2>2, <2>3
<1> QED BY <1>6, <1>7, <1>8 DEF BookInv

LEMMA DiscardBook == TypeOK /\ BookInv /\ DiscardStale => BookInv' /\ Resting' = Resting \ {Best}
PROOF
<1> SUFFICES ASSUME TypeOK, BookInv, DiscardStale PROVE BookInv' /\ Resting' = Resting \ {Best}
  OBVIOUS
<1>1. /\ InLoop /\ orders[objs[Best].id] = 0 /\ PutBook(HeapPop(Book))
      /\ UNCHANGED <<objs, orders, fills, incoming, withdrawn>>
  BY DEF DiscardStale
<1>2. Distinct(Book) /\ InBook(Book) \subseteq Resting
  BY DEF BookInv, NoneTwice, Book, Resting
<1>3. /\ InBook(HeapPop(Book)) = InBook(Book) \ {Best} /\ Distinct(HeapPop(Book))
      /\ IsHeap(Book) => IsHeap(HeapPop(Book))
      /\ Best \in InBook(Book)
  BY <1>1, <1>2, BookAfter
<1>4. /\ Resting' = (Resting \ InBook(Book)) \cup InBook(HeapPop(Book))
      /\ InBook(buys)' \subseteq InBook(buys) /\ InBook(sells)' \subseteq InBook(sells)
      /\ NoneTwice'
      /\ IsHeap(buys) /\ IsHeap(sells) => IsHeap(buys') /\ IsHeap(sells')
  BY <1>1, <1>3, PutBookBooks DEF BookInv
<1>5. Resting' = Resting \ {Best}
  BY <1>2, <1>3, <1>4
<1>6. TakerAside' /\ RestingLive' /\ Uncrossed'
  BY <1>1, <1>4, <1>5 DEF BookInv, TakerAside, RestingLive, Uncrossed
<1>7. HeapsHold'
  BY <1>1, <1>4 DEF BookInv, HeapsHold
<1>8. DictLeads'
  BY <1>1, <1>5 DEF BookInv, DictLeads
<1>9. OnceInDict'
  BY <1>1, <1>5 DEF BookInv, OnceInDict, IdsUsedOnce, Handles
<1> QED BY <1>4, <1>5, <1>6, <1>7, <1>8, <1>9 DEF BookInv

LEMMA MatchBook ==
  ASSUME TypeOK, BookInv, MatchBest
  PROVE  /\ BookInv'
         /\ Resting' = IF objs[Best].qty <= Taker.qty THEN Resting \ {Best} ELSE Resting
PROOF
<1> DEFINE left == objs[Best].qty
           stays == left > Taker.qty
<1>1. /\ InLoop /\ UNCHANGED <<incoming, withdrawn>>
      /\ Taker.qty \in Nat /\ left \in Nat /\ incoming \in Handles /\ Best \in Handles
      /\ objs[Best].id \in Ids /\ orders \in [Ids -> Handles \cup {0}]
  BY InLoopFacts DEF MatchBest, Order, TypeOK
<1>2. IF stays THEN PutBook(HeapPush(HeapPop(Book), Book[1])) /\ UNCHANGED orders
               ELSE PutBook(HeapPop(Book)) /\ orders' = [orders EXCEPT ![objs[Best].id] = 0]
  BY <1>1 DEF MatchBest
<1>3. Distinct(Book) /\ InBook(Book) \subseteq Resting
  BY DEF BookInv, NoneTwice, Book, Resting
<1>4. /\ InBook(HeapPop(Book)) = InBook(Book) \ {Best} /\ Distinct(HeapPop(Book))
      /\ InBook(HeapPush(HeapPop(Book), Book[1])) = InBook(Book)
      /\ Distinct(HeapPush(HeapPop(Book), Book[1]))
      /\ IsHeap(Book) => IsHeap(HeapPop(Book)) /\ IsHeap(HeapPush(HeapPop(Book), Book[1]))
      /\ Best \in InBook(Book)
  BY <1>1, <1>3, BookAfter
<1>5. PICK r : /\ PutBook(r) /\ Distinct(r) /\ (IsHeap(Book) => IsHeap(r))
               /\ InBook(r) = IF stays THEN InBook(Book) ELSE InBook(Book) \ {Best}
  BY <1>2, <1>4
<1>6. /\ Resting' = (Resting \ InBook(Book)) \cup InBook(r)
      /\ InBook(buys)' \subseteq InBook(buys) /\ InBook(sells)' \subseteq InBook(sells)
      /\ NoneTwice'
      /\ IsHeap(buys) /\ IsHeap(sells) => IsHeap(buys') /\ IsHeap(sells')
  BY <1>1, <1>5, PutBookBooks DEF BookInv
<1>7. Resting' = IF stays THEN Resting ELSE Resting \ {Best}
  BY <1>3, <1>4, <1>5, <1>6
<1>8. /\ Handles' = Handles
      /\ \A h \in Handles : /\ objs'[h].price = objs[h].price /\ objs'[h].id = objs[h].id
                            /\ h \notin {incoming, Best} => objs'[h].qty = objs[h].qty
  BY TradeFacts
<1>9. objs'[Best].qty >= left - Taker.qty
  <2>1. PICK qty \in Nat : Trade(qty)
    BY TradeFacts
  <2> QED BY <1>1, <2>1 DEF Trade
<1>10. Resting \subseteq Handles /\ InBook(buys) \subseteq Handles /\ InBook(sells) \subseteq Handles
       /\ 0 \notin Handles
  BY BookFacts
<1>11. TakerAside'
  BY <1>1, <1>7 DEF BookInv, TakerAside
<1>12. RestingLive'
  <2> SUFFICES ASSUME NEW h \in Resting' PROVE objs'[h].qty > 0
    BY DEF RestingLive
  <2>1. h \in Resting /\ h # incoming /\ h \in Handles
    BY <1>7, <1>10 DEF BookInv, TakerAside
  <2>2. CASE h = Best
    <3>1. stays /\ objs'[Best] \in Order
      <4>1. objs' \in Seq(Order)
        BY TradeFacts
      <4> QED BY <1>1, <1>7, <1>8, <2>2, <4>1 DEF Handles
    <3>2. objs'[Best].qty \in Nat
      BY <3>1 DEF Order
    <3> QED BY <1>1, <1>9, <2>2, <3>1, <3>2
  <2>3. CASE h # Best
    BY <1>8, <2>1, <2>3 DEF BookInv, RestingLive
  <2> QED BY <2>2, <2>3
<1>13. HeapsHold'
  BY <1>1, <1>6 DEF BookInv, HeapsHold
<1>14. Uncrossed'
  BY <1>1, <1>6, <1>8, <1>10 DEF BookInv, Uncrossed
<1> HIDE DEF stays
<1>15. DictLeads'
  <2> SUFFICES ASSUME NEW k \in Ids, orders'[k] # 0
               PROVE  orders'[k] \in Resting' \cup {incoming} /\ objs'[orders'[k]].id = k
    BY <1>1 DEF DictLeads
  <2>1. /\ orders'[k] = orders[k]
        /\ ~stays => k # objs[Best].id
    BY <1>1, <1>2
  <2>2. orders[k] \in Resting \cup {incoming} /\ objs[orders[k]].id = k
    BY <2>1 DEF BookInv, DictLeads
  <2>3. ~stays => orders[k] # Best
    BY <2>1, <2>2
  <2> QED BY <1>1, <1>7, <1>8, <1>10, <2>1, <2>2, <2>3
<1>16. OnceInDict'
  <2> SUFFICES ASSUME IdsUsedOnce', NEW h \in (Resting' \cup {incoming}) \ {0}
               PROVE  orders'[objs'[h].id] = h
    BY <1>1 DEF OnceInDict
  <2>1. IdsUsedOnce
    BY <1>8 DEF IdsUsedOnce
  <2>2. h \in Handles /\ orders[objs[h].id] = h
    BY <1>1, <1>7, <1>10, <2>1 DEF BookInv, OnceInDict
  <2>3. objs'[h].id = objs[h].id
    BY <1>8, <2>2
  <2>4. CASE stays
    BY <1>2, <2>2, <2>3, <2>4
  <2>5. CASE ~stays
    <3>1. h # Best
      BY <1>3, <1>4, <1>7, <2>5 DEF BookInv, TakerAside
    <3>2. objs[h].id # objs[Best].id
      BY <1>1, <2>1, <2>2, <3>1 DEF IdsUsedOnce
    <3>3. objs[h].id \in Ids
      BY <2>2, ObjectType DEF Order
    <3> QED BY <1>1, <1>2, <2>2, <2>3, <2>5, <3>2, <3>3
  <2> QED BY <2>4, <2>5
<1> QED BY <1>1, <1>6, <1>7, <1>11, <1>12, <1>13, <1>14, <1>15, <1>16 DEF BookInv, stays

\* A list with one object more.
LEMMA OneMore ==
  ASSUME TypeOK, NEW book \in Seq(Key), Distinct(book), NEW h \in Handles, h \notin InBook(book)
  PROVE  LET b == HeapPush(book, Entry(h))
         IN InBook(b) = InBook(book) \cup {h} /\ Distinct(b) /\ (IsHeap(book) => IsHeap(b))
PROOF
<1>1. Entry(h) \in Key /\ Entry(h)[2] = h
  <2>1. objs[h].price \in Nat /\ h \in Nat
    BY ObjectType, SMTT(30) DEF Order, Handles, TypeOK
  <2> QED BY <2>1 DEF Entry, SortKey, Key
<1> DEFINE b == HeapPush(book, Entry(h))
<1>2. Entry(h) \notin Range(book)
  BY <1>1, InBookIsRange
<1>3. Range(b) = Range(book) \cup {Entry(h)} /\ Distinct(b)
  BY <1>1, <1>2, PushAddsOne
<1>4. IsHeap(book) => IsHeap(b)
  BY <1>1, PushKeepsHeap
<1> HIDE DEF b
<1>5. InBook(b) = InBook(book) \cup {h}
  BY <1>1, <1>3, InBookIsRange
<1> QED BY <1>3, <1>4, <1>5 DEF b

\* When the loop of _match stops with quantity left, and the lists are heaps, no
\* object of the other side crosses the taker.
LEMMA NothingCrosses ==
  ASSUME TypeOK, LoopIsOver, Taker.qty > 0, IsHeap(buys), IsHeap(sells), NEW h \in InBook(Book)
  PROVE  IF Taker.side = "buy" THEN objs[h].price > Taker.price ELSE objs[h].price < Taker.price
PROOF
<1>1. incoming \in Handles /\ IsHeap(Book)
  BY DEF LoopIsOver, TypeOK, Book
<1>2. /\ Best \in InBook(Book)
      /\ \/ objs[Best].price = objs[h].price
         \/ Taker.side = "buy" /\ objs[Best].price < objs[h].price
         \/ Taker.side = "sell" /\ objs[Best].price > objs[h].price
  BY <1>1, BestIsBest
<1>3. Book # <<>>
  BY DEF InBook
<1>4. ~Crosses
  BY <1>3 DEF LoopIsOver, InLoop
<1>5. /\ objs[h].price \in Nat /\ objs[Best].price \in Nat /\ Taker.price \in Nat
      /\ Taker.side \in Sides
  <2>1. h \in Handles /\ Best \in Handles
    BY <1>2, BookFacts DEF Book
  <2> QED BY <1>1, <2>1, ObjectType DEF Taker, Order
<1> QED BY <1>2, <1>4, <1>5 DEF Crosses, Sides

LEMMA RestBook ==
  ASSUME TypeOK, BookInv, Rest
  PROVE  BookInv' /\ Resting' = Resting \cup {incoming}
PROOF
<1>1. /\ LoopIsOver /\ Taker.qty > 0 /\ incoming' = 0
      /\ UNCHANGED <<objs, orders, fills, withdrawn>>
      /\ IF Taker.side = "buy"
         THEN buys' = HeapPush(buys, Entry(incoming)) /\ UNCHANGED sells
         ELSE sells' = HeapPush(sells, Entry(incoming)) /\ UNCHANGED buys
  BY DEF Rest
<1>2. incoming \in Handles /\ incoming \notin Resting /\ Taker = objs[incoming]
  BY <1>1 DEF LoopIsOver, TypeOK, BookInv, TakerAside, Taker
<1>3. /\ buys \in Seq(Key) /\ sells \in Seq(Key) /\ Resting \subseteq Handles /\ 0 \notin Handles
      /\ InBook(buys) \subseteq Resting /\ InBook(sells) \subseteq Resting
      /\ Distinct(buys) /\ Distinct(sells)
  BY BookFacts DEF Resting, BookInv, NoneTwice
<1>4. /\ Resting' = Resting \cup {incoming} /\ NoneTwice'
      /\ IsHeap(buys) /\ IsHeap(sells) => IsHeap(buys') /\ IsHeap(sells')
      /\ InBook(buys)' = IF Taker.side = "buy" THEN InBook(buys) \cup {incoming} ELSE InBook(buys)
      /\ InBook(sells)' = IF Taker.side = "buy" THEN InBook(sells) ELSE InBook(sells) \cup {incoming}
  <2>1. CASE Taker.side = "buy"
    <3>1. /\ InBook(buys') = InBook(buys) \cup {incoming} /\ Distinct(buys')
          /\ IsHeap(buys) => IsHeap(buys')
      BY <1>1, <1>2, <1>3, <2>1, OneMore
    <3>2. InBook(buys)' = InBook(buys') /\ InBook(sells)' = InBook(sells) /\ sells' = sells
      BY <1>1, <2>1 DEF InBook
    <3>3. Distinct(buys)' /\ Distinct(sells)'
      BY <1>3, <3>1, <3>2 DEF Distinct
    <3> QED BY <2>1, <3>1, <3>2, <3>3 DEF Resting, NoneTwice
  <2>2. CASE Taker.side # "buy"
    <3>1. /\ InBook(sells') = InBook(sells) \cup {incoming} /\ Distinct(sells')
          /\ IsHeap(sells) => IsHeap(sells')
      BY <1>1, <1>2, <1>3, <2>2, OneMore
    <3>2. InBook(sells)' = InBook(sells') /\ InBook(buys)' = InBook(buys) /\ buys' = buys
      BY <1>1, <2>2 DEF InBook
    <3>3. Distinct(sells)' /\ Distinct(buys)'
      BY <1>3, <3>1, <3>2 DEF Distinct
    <3> QED BY <2>2, <3>1, <3>2, <3>3 DEF Resting, NoneTwice
  <2> QED BY <2>1, <2>2
<1>5. TakerAside' /\ RestingLive'
  BY <1>1, <1>2, <1>3, <1>4 DEF BookInv, TakerAside, RestingLive
<1>6. DictLeads'
  BY <1>1, <1>4 DEF BookInv, DictLeads
<1>7. OnceInDict'
  BY <1>1, <1>4 DEF BookInv, OnceInDict, IdsUsedOnce, Handles
<1>8. HeapsHold'
  BY <1>1, <1>4 DEF BookInv, HeapsHold
<1>9. Uncrossed'
  <2>1. SUFFICES ASSUME withdrawn = {}, NEW b \in InBook(buys)', NEW s \in InBook(sells)'
                 PROVE  objs[b].price < objs[s].price
    BY <1>1 DEF Uncrossed
  <2>2. IsHeap(buys) /\ IsHeap(sells)
    BY <2>1 DEF BookInv, HeapsHold
  <2>3. CASE b \in InBook(buys) /\ s \in InBook(sells)
    BY <2>1, <2>3 DEF BookInv, Uncrossed
  <2>4. CASE b \notin InBook(buys)
    <3>1. Taker.side = "buy" /\ b = incoming /\ s \in InBook(Book)
      BY <1>4, <2>4 DEF Book
    <3>2. objs[s].price > objs[incoming].price
      BY <1>1, <1>2, <2>2, <3>1, NothingCrosses
    <3>3. objs[s].price \in Nat /\ objs[b].price \in Nat
      BY <1>2, <1>3, <1>4, <3>1, ObjectType DEF Order, Book
    <3> QED BY <3>1, <3>2, <3>3
  <2>5. CASE s \notin InBook(sells)
    <3>1. Taker.side # "buy" /\ s = incoming /\ b \in InBook(Book)
      BY <1>4, <2>5 DEF Book
    <3>2. objs[b].price < objs[incoming].price
      BY <1>1, <1>2, <2>2, <3>1, NothingCrosses
    <3> QED BY <3>1, <3>2
  <2> QED BY <2>3, <2>4, <2>5
<1> QED BY <1>4, <1>5, <1>6, <1>7, <1>8, <1>9 DEF BookInv

LEMMA DoneBook == TypeOK /\ BookInv /\ Done => BookInv' /\ Resting' = Resting
PROOF
<1> SUFFICES ASSUME TypeOK, BookInv, Done PROVE BookInv' /\ Resting' = Resting
  OBVIOUS
<1>1. /\ incoming' = 0 /\ orders' = [orders EXCEPT ![objs[incoming].id] = 0]
      /\ orders \in [Ids -> Handles \cup {0}] /\ incoming \in Handles
      /\ UNCHANGED <<objs, buys, sells, fills, withdrawn>>
  BY DEF Done, LoopIsOver, TypeOK, Taker
<1>2. Resting' = Resting /\ InBook(buys)' = InBook(buys) /\ InBook(sells)' = InBook(sells)
  BY <1>1 DEF Resting, InBook
<1>3. Resting \subseteq Handles /\ 0 \notin Handles /\ incoming \notin Resting
  BY BookFacts DEF BookInv, TakerAside
<1>4. NoneTwice' /\ TakerAside' /\ RestingLive' /\ HeapsHold' /\ Uncrossed'
  BY <1>1, <1>2, <1>3 DEF BookInv, NoneTwice, Distinct, TakerAside, RestingLive, HeapsHold, IsHeap,
     Uncrossed
<1>5. DictLeads'
  BY <1>1, <1>2 DEF BookInv, DictLeads
<1>6. OnceInDict'
  <2> SUFFICES ASSUME IdsUsedOnce, NEW h \in Resting PROVE orders'[objs[h].id] = h
    BY <1>1, <1>2, <1>3 DEF OnceInDict, IdsUsedOnce, Handles
  <2>1. h \in Handles /\ h # incoming /\ orders[objs[h].id] = h /\ objs[h].id \in Ids
    BY <1>3, ObjectType DEF BookInv, OnceInDict, Order
  <2>2. objs[h].id # objs[incoming].id
    BY <1>1, <2>1 DEF IdsUsedOnce
  <2> QED BY <1>1, <2>1, <2>2
<1> QED BY <1>2, <1>4, <1>5, <1>6 DEF BookInv

LEMMA CancelBook ==
  ASSUME TypeOK, BookInv, NEW id \in Ids, Cancel(id)
  PROVE  /\ BookInv'
         /\ Resting' = {h \in Resting : objs[h].id # id}
         /\ withdrawn' # {}
         /\ orders[id] \in Resting /\ objs[orders[id]].id = id
PROOF
<1>1. /\ incoming = 0 /\ orders[id] # 0 /\ orders' = [orders EXCEPT ![id] = 0]
      /\ orders \in [Ids -> Handles \cup {0}]
      /\ buys' \in Without(buys, id) /\ sells' \in Without(sells, id)
      /\ withdrawn' = withdrawn \cup {h \in Handles : objs[h].id = id /\ objs[h].qty > 0}
      /\ UNCHANGED <<objs, fills, incoming>>
  BY DEF Cancel, TypeOK
<1>2. Resting \subseteq Handles /\ 0 \notin Handles /\ buys \in Seq(Key) /\ sells \in Seq(Key)
  BY BookFacts
<1>3. orders[id] \in Resting /\ objs[orders[id]].id = id
  BY <1>1, <1>2 DEF BookInv, DictLeads
<1>4. withdrawn' # {}
  BY <1>1, <1>2, <1>3 DEF BookInv, RestingLive
<1>5. ASSUME NEW book \in Seq(Key), NEW r \in Without(book, id)
      PROVE  /\ InBook(r) = {h \in InBook(book) : objs[h].id # id}
             /\ Distinct(book) => Distinct(r)
  <2>1. /\ \A k \in DOMAIN r : \E i \in DOMAIN book : r[k] = book[i] /\ objs[book[i][2]].id # id
        /\ \A i \in DOMAIN book : objs[book[i][2]].id # id => \E k \in DOMAIN r : r[k] = book[i]
        /\ Distinct(book) => Distinct(r)
    BY WithoutKeeps
  <2> QED BY <2>1 DEF InBook
<1>6. /\ InBook(buys') = {h \in InBook(buys) : objs[h].id # id} /\ Distinct(buys')
      /\ InBook(sells') = {h \in InBook(sells) : objs[h].id # id} /\ Distinct(sells')
  BY <1>1, <1>2, <1>5 DEF BookInv, NoneTwice
<1>7. Resting' = {h \in Resting : objs[h].id # id} /\ NoneTwice'
  BY <1>6 DEF Resting, InBook, NoneTwice, Distinct
<1>8. TakerAside' /\ RestingLive' /\ HeapsHold' /\ Uncrossed'
  BY <1>1, <1>4, <1>7 DEF BookInv, TakerAside, RestingLive, HeapsHold, Uncrossed
<1>9. DictLeads'
  BY <1>1, <1>7 DEF BookInv, DictLeads
<1>10. OnceInDict'
  <2> SUFFICES ASSUME IdsUsedOnce, NEW h \in Resting' PROVE orders'[objs[h].id] = h
    BY <1>1 DEF OnceInDict, IdsUsedOnce, Handles
  <2>1. h \in Resting /\ objs[h].id # id /\ h # 0 /\ objs[h].id \in Ids
    BY <1>2, <1>7, ObjectType DEF Order
  <2> QED BY <1>1, <2>1 DEF BookInv, OnceInDict
<1> QED BY <1>3, <1>4, <1>7, <1>8, <1>9, <1>10 DEF BookInv

LEMMA BookStep == TypeOK /\ BookInv /\ [Next]_vars => BookInv'
PROOF
<1> SUFFICES ASSUME TypeOK, BookInv, [Next]_vars PROVE BookInv'
  OBVIOUS
<1>1. CASE AddLimit \/ AddMarket
  BY <1>1, AddIsTyped, AddBook
<1>2. CASE Step
  BY <1>2, DiscardBook, MatchBook, RestBook, DoneBook DEF Step
<1>3. CASE \E id \in Ids : Cancel(id)
  BY <1>3, CancelBook
<1>4. CASE UNCHANGED vars
  <2>1. Resting' = Resting /\ InBook(buys)' = InBook(buys) /\ InBook(sells)' = InBook(sells)
    BY <1>4 DEF vars, Resting, InBook
  <2> QED BY <1>4, <2>1 DEF vars, BookInv, NoneTwice, Distinct, TakerAside, RestingLive, DictLeads,
             OnceInDict, IdsUsedOnce, Handles, HeapsHold, IsHeap, Uncrossed
<1> QED BY <1>1, <1>2, <1>3, <1>4 DEF Next

\* Lists, dict and objects agree at every turn of the loop: no object stands twice, what
\* rests has quantity left, a key leads to an object of its order_id, and until the
\* first cancel the lists are heaps that do not cross.
THEOREM BooksAgree == Spec => []BookInv
BY InitBook, BookStep, TypeCorrect, PTL DEF Spec

\* Between calls, until the first cancel, no resting buy crosses a resting sell: the
\* lists stay heaps as long as nothing but heappush and heappop has touched them, so
\* the loop of _match sees the best object, and stops only when no other crosses.
THEOREM BooksDoNotCross == Spec => []NotCrossed
PROOF
<1>1. BookInv => NotCrossed
  BY DEF BookInv, Uncrossed, NotCrossed
<1> QED BY <1>1, BooksAgree, PTL

LEMMA ListLength ==
  ASSUME TypeOK, NEW side \in Sides, NEW book \in Seq(Entries(side)), Distinct(book)
  PROVE  Len(book) = Cardinality(InBook(book))
PROOF
<1> DEFINE f == [i \in 1..Len(book) |-> book[i][2]]
<1>1. Len(book) \in Nat /\ DOMAIN book = 1..Len(book)
  OBVIOUS
<1>2. \A i \in 1..Len(book) : book[i] \in Entries(side)
  BY <1>1, EntryOfSeq
<1>3. \A i, j \in 1..Len(book) : f[i] = f[j] => i = j
  BY <1>1, <1>2, EntryByHandle DEF Distinct
<1>4. f \in Bijection(1..Len(book), InBook(book))
  <2>1. f \in [1..Len(book) -> InBook(book)]
    BY <1>1 DEF InBook
  <2>2. \A h \in InBook(book) : \E i \in 1..Len(book) : f[i] = h
    BY <1>1 DEF InBook
  <2> HIDE DEF f
  <2> QED BY <1>3, <2>1, <2>2 DEF Bijection, Injection, Surjection, IsInjective
<1>5. ExistsBijection(1..Len(book), InBook(book))
  BY <1>4 DEF ExistsBijection
<1>6. IsFiniteSet(1..Len(book)) /\ Cardinality(1..Len(book)) = Len(book)
  BY <1>1, FS_Interval
<1> QED BY <1>5, <1>6, FS_Bijection

\* While every order_id is used once, dict and lists agree between calls, cancels or
\* not: the keys are the resting orders, each with quantity left and in one place.
THEOREM DictAndBooksAgree == Spec => []DictMatchesBooks
PROOF
<1>1. TypeOK /\ BookInv => DictMatchesBooks
  <2>1. SUFFICES ASSUME TypeOK, BookInv, incoming = 0, IdsUsedOnce
                 PROVE  /\ {orders[id] : id \in Ids} \ {0} = Resting
                        /\ \A h \in Resting : objs[h].qty > 0
                        /\ Len(buys) = Cardinality(InBook(buys))
                        /\ Len(sells) = Cardinality(InBook(sells))
    BY DEF DictMatchesBooks
  <2>2. {orders[id] : id \in Ids} \ {0} \subseteq Resting
    BY <2>1 DEF BookInv, DictLeads
  <2>3. Resting \subseteq {orders[id] : id \in Ids} \ {0}
    <3>1. \A h \in Resting : h # 0 /\ objs[h].id \in Ids
      BY <2>1, BookFacts, ObjectType DEF Order
    <3>2. \A h \in Resting : orders[objs[h].id] = h
      BY <2>1, <3>1 DEF BookInv, OnceInDict
    <3> QED BY <3>1, <3>2
  <2>4. \A h \in Resting : objs[h].qty > 0
    BY <2>1 DEF BookInv, RestingLive
  <2>5. Len(buys) = Cardinality(InBook(buys)) /\ Len(sells) = Cardinality(InBook(sells))
    BY <2>1, ListLength DEF TypeOK, BookInv, NoneTwice, Sides
  <2> QED BY <2>2, <2>3, <2>4, <2>5
<1> QED BY <1>1, TypeCorrect, BooksAgree, PTL

---------------------------------------------------------------------------
(* The loop: it ends, every fill of it is of something, and until the first cancel *)
(* it takes the orders of the book in their order.                                 *)

\* How many turns of the loop are left at most.
TurnsLeft == Len(Book) + (IF Taker.qty = 0 THEN 0 ELSE 1)

LoopRunsDown == [][DiscardStale \/ MatchBest => /\ TurnsLeft' \in Nat /\ TurnsLeft' < TurnsLeft
                                                /\ Taker'.qty <= Taker.qty]_vars

NoEmptyFill == \A i \in DOMAIN fills : fills[i].qty > 0 /\ fills[i].buy # fills[i].sell

PriorityUntilCancel ==
  [][fills' # fills /\ withdrawn = {} =>
       \A h \in InBook(Book) : ~KeyLess(Entry(h), Entry(Best))]_vars

\* A turn leaves a list that is one shorter, or as long as before with nothing left to
\* match.
LEMMA TurnCounts ==
  ASSUME TypeOK, DiscardStale \/ MatchBest
  PROVE  /\ Taker.qty \in Nat /\ Taker'.qty \in Nat /\ Taker.qty > 0 /\ Taker'.qty <= Taker.qty
         /\ Taker'.side = Taker.side
         /\ Len(Book) \in Nat \ {0}
         /\ \/ Len(Book') = Len(Book) - 1
            \/ Len(Book') = Len(Book) /\ Taker'.qty = 0
PROOF
<1> DEFINE other == IF Taker.side = "buy" THEN "sell" ELSE "buy"
           popped == HeapPop(Book)
           back == HeapPush(popped, Book[1])
<1>1. InLoop /\ incoming' = incoming
  BY DEF DiscardStale, MatchBest
<1>2. /\ incoming \in Handles /\ Taker \in Order /\ Taker.qty > 0 /\ Taker = objs[incoming]
      /\ Best \in Handles /\ Best # incoming
      /\ Book \in Seq(Entries(other)) /\ Book # <<>> /\ Book[1] \in Entries(other)
  BY <1>1, InLoopFacts DEF Taker
<1>3. Len(Book) \in Nat \ {0} /\ Len(popped) = Len(Book) - 1 /\ popped \in Seq(Entries(other))
  <2>1. Len(Book) \in Nat \ {0}
    BY <1>2
  <2>2. Len(popped) = Len(Book) - 1 /\ popped \in Seq(Entries(other))
    BY <1>2, PopKeepsEntries
  <2> QED BY <2>1, <2>2
<1>4. Len(back) = Len(Book)
  <2> HIDE DEF popped
  <2>1. Len(back) = Len(popped) + 1
    BY <1>2, <1>3, PushKeepsEntries
  <2> QED BY <1>3, <2>1
<1> HIDE DEF popped, back
<1>5. Taker' = objs'[incoming]
  BY <1>1 DEF Taker
<1>6. ASSUME NEW r, PutBook(r), Taker'.side = Taker.side PROVE Book' = r
  BY <1>6 DEF PutBook, Book
<1>7. CASE DiscardStale
  <2>1. objs' = objs /\ PutBook(popped)
    BY <1>7 DEF DiscardStale, popped
  <2>2. Taker' = Taker
    BY <1>2, <1>5, <2>1
  <2> QED BY <1>2, <1>3, <1>6, <2>1, <2>2 DEF Order
<1>8. CASE MatchBest
  <2> DEFINE left == objs[Best].qty
             qty == IF Taker.qty <= left THEN Taker.qty ELSE left
  <2>1. Taker'.side = Taker.side
    BY <1>2, <1>5, <1>8, TradeFacts
  <2>2. Taker'.qty = Taker.qty - qty /\ qty \in Nat /\ qty <= Taker.qty
    <3>1. left \in Nat /\ Taker.qty \in Nat /\ objs[Best] \in Order
      BY <1>2, ObjectType DEF Order
    <3>2. objs' = [objs EXCEPT ![incoming].qty = @ - qty, ![Best].qty = @ - qty]
      BY <1>8 DEF MatchBest
    <3> DEFINE t == [objs[incoming] EXCEPT !.qty = @ - qty]
    <3>3. objs'[incoming] = t
      <4> HIDE DEF qty
      <4>1. objs \in Seq(Order) /\ incoming \in DOMAIN objs
        BY <1>2 DEF TypeOK, Handles
      <4> QED BY <1>2, <3>2, <4>1
    <3>4. t.qty = objs[incoming].qty - qty
      BY <1>2 DEF Order
    <3> QED BY <1>2, <1>5, <3>1, <3>3, <3>4
  <2>3. CASE left > qty
    <3>1. qty = Taker.qty
      BY <2>3, <1>2, ObjectType DEF Order
    <3>2. PutBook(back)
      BY <1>8, <2>3 DEF MatchBest, popped, back
    <3> HIDE DEF qty
    <3>3. Book' = back /\ Taker'.qty = 0 /\ Taker.qty \in Nat
      BY <1>2, <1>6, <2>1, <2>2, <3>1, <3>2 DEF Order
    <3> QED BY <1>2, <1>3, <1>4, <2>1, <3>3
  <2>4. CASE ~(left > qty)
    <3>1. PutBook(popped)
      BY <1>8, <2>4 DEF MatchBest, popped
    <3> HIDE DEF qty
    <3>2. Book' = popped /\ Taker.qty \in Nat
      BY <1>2, <1>6, <2>1, <3>1 DEF Order
    <3>3. Taker'.qty \in Nat /\ Taker'.qty <= Taker.qty
      BY <2>2, <3>2
    <3> QED BY <1>2, <1>3, <2>1, <3>2, <3>3
  <2> QED BY <2>3, <2>4
<1> QED BY <1>7, <1>8

\* _match ends: each turn of its loop takes an entry off the book for good, or leaves
\* nothing of the incoming order, so that there are no more turns than the book has
\* entries and one; no turn gives the order quantity back.
THEOREM MatchEnds == Spec => LoopRunsDown
PROOF
<1>1. TypeOK /\ [Next]_vars
        => [DiscardStale \/ MatchBest => /\ TurnsLeft' \in Nat /\ TurnsLeft' < TurnsLeft
                                         /\ Taker'.qty <= Taker.qty]_vars
  <2> SUFFICES ASSUME TypeOK, DiscardStale \/ MatchBest
               PROVE  /\ TurnsLeft' \in Nat /\ TurnsLeft' < TurnsLeft
                      /\ Taker'.qty <= Taker.qty
    OBVIOUS
  <2>1. /\ Taker.qty \in Nat /\ Taker'.qty \in Nat /\ Taker.qty > 0 /\ Taker'.qty <= Taker.qty
        /\ Len(Book) \in Nat \ {0}
        /\ \/ Len(Book') = Len(Book) - 1
           \/ Len(Book') = Len(Book) /\ Taker'.qty = 0
    BY TurnCounts
  <2>2. /\ TurnsLeft = Len(Book) + 1
        /\ TurnsLeft' = Len(Book') + (IF Taker'.qty = 0 THEN 0 ELSE 1)
    BY <2>1 DEF TurnsLeft
  <2> QED BY <2>1, <2>2
<1> QED BY <1>1, TypeCorrect, PTL DEF Spec, LoopRunsDown

\* No fill is of nothing, and no order is filled with itself: what rests always has
\* quantity left, stale objects and used order_ids included, and the loop goes on only
\* with quantity to match.
THEOREM FillsAreOfSomething == Spec => []NoEmptyFill
PROOF
<1>1. Init => NoEmptyFill
  BY DEF Init, NoEmptyFill
<1>2. TypeOK /\ BookInv /\ NoEmptyFill /\ [Next]_vars => NoEmptyFill'
  <2> SUFFICES ASSUME TypeOK, BookInv, NoEmptyFill, [Next]_vars PROVE NoEmptyFill'
    OBVIOUS
  <2>1. CASE MatchBest
    <3>1. PICK qty \in Nat : Trade(qty)
      BY <2>1, TradeFacts
    <3>2. /\ incoming \in Handles /\ Best \in Handles /\ objs[Best].side # Taker.side
          /\ Taker.qty > 0 /\ 1 \in DOMAIN Book
      BY <2>1, InLoopFacts DEF MatchBest
    <3>3. Best # incoming
      BY <3>2 DEF Taker
    <3>4. objs[Best].qty > 0
      <4>1. Best \in Resting
        BY <3>2 DEF Best, Resting, InBook, Book
      <4> QED BY <4>1 DEF BookInv, RestingLive
    <3>5. qty > 0 /\ fills' = Append(fills, FillOf(Best, qty))
      BY <3>1, <3>2, <3>4 DEF Trade
    <3> DEFINE f == FillOf(Best, qty)
               k == Len(fills) + 1
    <3>6. f.qty > 0 /\ f.buy # f.sell
      BY <3>3, <3>5 DEF FillOf
    <3> HIDE DEF f
    <3>7. /\ DOMAIN fills' = DOMAIN fills \cup {k} /\ fills'[k] = f
          /\ \A i \in DOMAIN fills : fills'[i] = fills[i]
      BY <3>5, SMTT(30) DEF TypeOK, f
    <3> QED BY <3>6, <3>7 DEF NoEmptyFill
  <2>2. ~MatchBest => fills' = fills
    BY DEF Next, Step, AddLimit, AddMarket, Add, DiscardStale, Rest, Done, Cancel, vars
  <2> QED BY <2>1, <2>2 DEF NoEmptyFill
<1> QED BY <1>1, <1>2, TypeCorrect, BooksAgree, PTL DEF Spec

\* Until the first cancel every fill is with the order that has price-time priority over
\* all others of its book: what PriceTimePriority says, which a cancel ends.
THEOREM PriorityHoldsUntilCancel == Spec => PriorityUntilCancel
PROOF
<1>1. TypeOK /\ BookInv /\ [Next]_vars
        => [fills' # fills /\ withdrawn = {} =>
              \A h \in InBook(Book) : ~KeyLess(Entry(h), Entry(Best))]_vars
  <2> SUFFICES ASSUME TypeOK, BookInv, [Next]_vars, fills' # fills, withdrawn = {},
                      NEW h \in InBook(Book)
               PROVE  ~KeyLess(Entry(h), Entry(Best))
    OBVIOUS
  <2> DEFINE other == IF Taker.side = "buy" THEN "sell" ELSE "buy"
  <2>1. InLoop
    BY DEF MatchBest, Next, Step, AddLimit, AddMarket, Add, DiscardStale, Rest, Done,
           Cancel, vars
  <2>2. PICK i \in DOMAIN Book : h = Book[i][2]
    BY DEF InBook
  <2>3. /\ Book \in Seq(Entries(other)) /\ Book \in Seq(Key) /\ 1 \in DOMAIN Book
        /\ other \in Sides
    BY <2>1, InLoopFacts, BookFacts DEF Book, Sides
  <2>4. IsHeap(Book)
    BY DEF BookInv, HeapsHold, Book
  <2>5. ~KeyLess(Book[i], Book[1])
    BY <2>2, <2>3, <2>4, HeadIsLeast
  <2> HIDE DEF other
  <2>6. Entry(h) = Book[i] /\ Entry(Best) = Book[1]
    <3>1. Book[i] \in Entries(other) /\ Book[1] \in Entries(other)
      BY <2>2, <2>3, EntryOfSeq
    <3> QED BY <2>2, <2>3, <3>1, EntryFacts DEF Entry, Best
  <2> QED BY <2>5, <2>6
<1> QED BY <1>1, TypeCorrect, BooksAgree, PTL DEF Spec, PriorityUntilCancel

---------------------------------------------------------------------------
(* The promise.  Under the mapping of ImplementsOrderBook every step of the engine *)
(* is a step of OrderBook: a stale entry that is popped is an order lost, a turn   *)
(* of the loop a trade, what follows the loop settles the order.                   *)

Listed == [h \in Handles |-> [side |-> objs[h].side, price |-> objs[h].price,
                              qty |-> objs[h].qty]]
Limits == [side \in Sides |-> Prices \cup {MarketPrice(side)}]

LEMMA ListedFacts ==
  ASSUME TypeOK
  PROVE  /\ DOMAIN Listed = Handles
         /\ \A h \in Handles : /\ Listed[h].side = objs[h].side
                               /\ Listed[h].price = objs[h].price
                               /\ Listed[h].qty = objs[h].qty
         /\ Listed \in Seq([side : Sides, price : Nat, qty : Nat])
         /\ Len(Listed) = Len(objs)
PROOF
<1>1. \A h \in Handles : objs[h] \in Order
  BY ObjectType
<1>2. Handles = 1..Len(objs) /\ Len(objs) \in Nat
  BY DEF TypeOK, Handles
<1>3. \A h \in Handles : Listed[h] \in [side : Sides, price : Nat, qty : Nat]
  BY <1>1 DEF Listed, Order
<1>4. DOMAIN Listed = Handles /\ Listed = [h \in Handles |-> Listed[h]]
  BY DEF Listed
<1>5. Listed \in Seq([side : Sides, price : Nat, qty : Nat]) /\ Len(Listed) = Len(objs)
  BY <1>2, <1>3, <1>4
<1> QED BY <1>4, <1>5 DEF Listed

LEMMA InitPromise == Init => Promise!Init
PROOF
<1> SUFFICES ASSUME Init PROVE Promise!Init
  OBVIOUS
<1>1. Handles = {} /\ Resting = {} /\ IdsUsedOnce
  BY DEF Init, Handles, Resting, InBook, IdsUsedOnce
<1>2. Listed = <<>>
  BY <1>1 DEF Listed
<1> QED BY <1>1, <1>2 DEF Init, Promise!Init, Listed

LEMMA AddPromise ==
  ASSUME TypeOK, NEW id \in Ids, NEW side \in Sides, NEW price \in Limits[side],
         NEW qty \in Quantities, Add(id, side, price, qty)
  PROVE  Promise!Place(side, price, qty)
PROOF
<1> DEFINE o == [id |-> id, side |-> side, price |-> price, qty |-> qty, asked |-> qty]
           p == [side |-> side, price |-> price, qty |-> qty]
<1>1. /\ incoming = 0 /\ objs' = Append(objs, o) /\ incoming' = Len(objs) + 1
      /\ objs \in Seq(Order) /\ UNCHANGED <<buys, sells, fills, withdrawn>>
  BY DEF Add, TypeOK
<1>2. Resting' = Resting
  BY <1>1 DEF Resting, InBook
<1>3. /\ Handles' = Handles \cup {Len(objs) + 1} /\ Len(objs) + 1 \notin Handles
      /\ \A h \in Handles : objs'[h] = objs[h]
      /\ objs'[Len(objs) + 1] = o
  BY <1>1 DEF Handles
<1>4. Listed' = Append(Listed, p) /\ Len(Listed) = Len(objs)
  <2>1. /\ Listed \in Seq([side : Sides, price : Nat, qty : Nat]) /\ Len(Listed) = Len(objs)
        /\ Len(objs) \in Nat /\ DOMAIN Listed = Handles
    BY <1>1, ListedFacts
  <2>2. DOMAIN Append(Listed, p) = Handles'
    BY <1>3, <2>1 DEF Handles
  <2>3. \A h \in Handles' : Listed'[h] = Append(Listed, p)[h]
    <3>1. \A h \in Handles : Append(Listed, p)[h] = Listed[h]
      BY <2>1
    <3>2. Append(Listed, p)[Len(objs) + 1] = p
      BY <2>1
    <3>3. Listed'[Len(objs) + 1] = p
      BY <1>3 DEF Listed
    <3>4. \A h \in Handles : Listed'[h] = Listed[h]
      BY <1>3 DEF Listed
    <3> QED BY <1>3, <3>1, <3>2, <3>3, <3>4
  <2>4. Listed' = [h \in Handles' |-> Listed'[h]]
    BY DEF Listed
  <2>5. Append(Listed, p) = [h \in Handles' |-> Append(Listed, p)[h]]
    BY <2>1, <2>2
  <2> QED BY <2>1, <2>3, <2>4, <2>5
<1>5. IdsUsedOnce' => IdsUsedOnce
  BY <1>3 DEF IdsUsedOnce
<1>6. (~IdsUsedOnce)' \in {~IdsUsedOnce, TRUE}
  BY <1>5
<1> QED BY <1>1, <1>2, <1>4, <1>6 DEF Promise!Place, Listed

\* A step that leaves the objects alone.
LEMMA SameListed ==
  ASSUME UNCHANGED objs
  PROVE  Listed' = Listed /\ IdsUsedOnce' = IdsUsedOnce
BY DEF Listed, Handles, IdsUsedOnce

LEMMA DiscardPromise ==
  ASSUME TypeOK, BookInv, DiscardStale
  PROVE  Best \in Resting /\ Promise!Lose(Best)
PROOF
<1>1. /\ InLoop /\ orders[objs[Best].id] = 0 /\ UNCHANGED <<objs, fills, incoming, withdrawn>>
  BY DEF DiscardStale
<1>2. Best \in Resting /\ Best \in Handles /\ 0 \notin Handles
  <2>1. Best \in InBook(Book) /\ Best \in Handles
    BY <1>1, InLoopFacts DEF Best, InBook
  <2> QED BY <2>1, BookFacts DEF Resting, Book
<1>3. ~IdsUsedOnce
  BY <1>1, <1>2 DEF BookInv, OnceInDict
<1>4. Resting' = Resting \ {Best}
  BY DiscardBook
<1>5. Listed' = Listed /\ IdsUsedOnce' = IdsUsedOnce
  BY <1>1, SameListed
<1> QED BY <1>1, <1>2, <1>3, <1>4, <1>5 DEF Promise!Lose, Listed

\* The other side of the abstract book is the list that the loop looks at.
LEMMA OppositeIsBook ==
  ASSUME TypeOK, incoming \in Handles
  PROVE  {m \in Resting : Listed[m].side # Listed[incoming].side} = InBook(Book)
PROOF
<1>1. /\ \A h \in InBook(buys) : Listed[h].side = "buy"
      /\ \A h \in InBook(sells) : Listed[h].side = "sell"
  BY BookFacts, ListedFacts
<1>2. Listed[incoming].side = Taker.side /\ Taker.side \in Sides
  BY ListedFacts, ObjectType DEF Taker, Order
<1>3. CASE Taker.side = "buy"
  BY <1>1, <1>2, <1>3 DEF Resting, Book
<1>4. CASE Taker.side = "sell"
  BY <1>1, <1>2, <1>4 DEF Resting, Book
<1> QED BY <1>2, <1>3, <1>4 DEF Sides

LEMMA MatchPromise ==
  ASSUME TypeOK, BookInv, MatchBest
  PROVE  \E maker \in Resting : Promise!Trade(maker)
PROOF
<1>1. /\ InLoop /\ UNCHANGED <<incoming, withdrawn>>
      /\ incoming \in Handles /\ Best \in Handles /\ Best # incoming /\ Taker = objs[incoming]
      /\ Taker.qty > 0 /\ 0 \notin Handles
      /\ Taker.qty \in Nat /\ objs[Best].qty \in Nat /\ Taker.side \in Sides
  BY InLoopFacts, BookFacts DEF MatchBest, Order, Taker
<1>2. /\ \A h \in Handles : /\ Listed[h].side = objs[h].side /\ Listed[h].price = objs[h].price
                            /\ Listed[h].qty = objs[h].qty
      /\ DOMAIN Listed = Handles
  BY ListedFacts
<1>3. Best \in InBook(Book) /\ Best \in Resting /\ Resting \subseteq Handles
  <2>1. Best \in InBook(Book)
    BY <1>1, InLoopFacts DEF Best, InBook
  <2> QED BY <2>1, BookFacts DEF Resting, Book
<1>4. {m \in Resting : Listed[m].side # Listed[incoming].side} = InBook(Book)
  BY <1>1, OppositeIsBook
<1>5. IF Listed[incoming].side = "buy" THEN Listed[Best].price <= Listed[incoming].price
                                       ELSE Listed[Best].price >= Listed[incoming].price
  BY <1>1, <1>2 DEF InLoop, Crosses
<1>6. ASSUME withdrawn = {}, NEW h \in InBook(Book)
      PROVE  \/ Listed[Best].price = Listed[h].price /\ Best <= h
             \/ Listed[incoming].side = "buy" /\ Listed[Best].price < Listed[h].price
             \/ Listed[incoming].side = "sell" /\ Listed[Best].price > Listed[h].price
  <2>1. IsHeap(Book) /\ h \in Handles
    BY <1>6, BookFacts DEF BookInv, HeapsHold, Book
  <2> QED BY <1>1, <1>2, <2>1, BestIsBest
<1>7. PICK qty \in Nat : Trade(qty)
  BY TradeFacts
<1>8. qty \in {Listed[incoming].qty, Listed[Best].qty} /\ qty <= Listed[incoming].qty
      /\ qty <= Listed[Best].qty
  BY <1>1, <1>2, <1>7 DEF Trade
<1>9. Listed' = [Listed EXCEPT ![incoming].qty = @ - qty, ![Best].qty = @ - qty]
  <2> DEFINE new == [Listed EXCEPT ![incoming].qty = @ - qty, ![Best].qty = @ - qty]
  <2>1. /\ Handles' = Handles
        /\ \A h \in Handles : /\ objs'[h].side = objs[h].side /\ objs'[h].price = objs[h].price
                              /\ h \notin {incoming, Best} => objs'[h].qty = objs[h].qty
        /\ objs'[incoming].qty = objs[incoming].qty - qty
        /\ objs'[Best].qty = objs[Best].qty - qty
    BY <1>7, TradeFacts DEF Trade
  <2>2. Listed' = [h \in Handles |-> [side |-> objs[h].side, price |-> objs[h].price,
                                      qty |-> objs'[h].qty]]
    BY <2>1 DEF Listed
  <2>3. ASSUME NEW h \in Handles
        PROVE  new[h] = [side |-> objs[h].side, price |-> objs[h].price, qty |-> objs'[h].qty]
    <3>1. CASE h = Best
      BY <1>1, <2>1, <3>1 DEF Listed
    <3>2. CASE h = incoming
      BY <1>1, <2>1, <3>2 DEF Listed
    <3>3. CASE h \notin {incoming, Best}
      BY <1>1, <2>1, <3>3 DEF Listed
    <3> QED BY <3>1, <3>2, <3>3
  <2>4. new = [h \in Handles |-> new[h]]
    BY <1>2
  <2> HIDE DEF new
  <2>5. Listed' = new
    BY <2>2, <2>3, <2>4
  <2> QED BY <2>5 DEF new
<1>10. fills' = Append(fills,
         IF Listed[incoming].side = "buy"
         THEN [buy |-> incoming, sell |-> Best, price |-> Listed[Best].price, qty |-> qty]
         ELSE [buy |-> Best, sell |-> incoming, price |-> Listed[Best].price, qty |-> qty])
  BY <1>1, <1>2, <1>7 DEF Trade, FillOf
<1>11. Resting' = IF Listed[Best].qty = qty THEN Resting \ {Best} ELSE Resting
  <2>1. Resting' = IF objs[Best].qty <= Taker.qty THEN Resting \ {Best} ELSE Resting
    BY MatchBook
  <2> QED BY <1>1, <1>2, <1>8, <2>1
<1>12. IdsUsedOnce' = IdsUsedOnce
  <2>1. Handles' = Handles /\ \A h \in Handles : objs'[h].id = objs[h].id
    BY TradeFacts
  <2> QED BY <2>1 DEF IdsUsedOnce
<1>13. Promise!Crossing(incoming) = {m \in InBook(Book) :
         IF Listed[incoming].side = "buy" THEN Listed[m].price <= Listed[incoming].price
                                          ELSE Listed[m].price >= Listed[incoming].price}
  BY <1>4 DEF Promise!Crossing, Promise!Opposite, Listed
<1>14. Best \in Promise!Crossing(incoming)
  BY <1>3, <1>5, <1>13
<1>15. withdrawn = {} => \A other \in Promise!Opposite(incoming) :
                           Promise!HasPriority(incoming, Best, other)
  BY <1>4, <1>6 DEF Promise!Opposite, Promise!HasPriority, Listed
<1>16. incoming # 0 /\ Listed[incoming].qty > 0
  BY <1>1, <1>2
<1>17. PICK maker \in Resting : maker = Best
  BY <1>3
<1>18. Promise!Trade(maker)
  BY <1>1, <1>8, <1>9, <1>10, <1>11, <1>12, <1>14, <1>15, <1>16, <1>17 DEF Promise!Trade, Listed
<1> QED BY <1>18

LEMMA SettlePromise ==
  ASSUME TypeOK, BookInv, Rest \/ Done
  PROVE  Promise!Settle
PROOF
<1>1. /\ LoopIsOver /\ incoming # 0 /\ incoming' = 0 /\ UNCHANGED <<objs, fills, withdrawn>>
      /\ incoming \in Handles /\ Taker = objs[incoming] /\ Taker.qty \in Nat
  BY ObjectType DEF Rest, Done, LoopIsOver, TypeOK, Taker, Order
<1>2. Listed' = Listed /\ IdsUsedOnce' = IdsUsedOnce
  BY <1>1, SameListed
<1>3. /\ \A h \in Handles : /\ Listed[h].side = objs[h].side /\ Listed[h].price = objs[h].price
                            /\ Listed[h].qty = objs[h].qty
  BY ListedFacts
<1>4. Resting' = IF Listed[incoming].qty > 0 THEN Resting \cup {incoming} ELSE Resting
  <2>1. CASE Rest
    BY <1>1, <1>3, <2>1, RestBook DEF Rest
  <2>2. CASE Done
    BY <1>1, <1>3, <2>2, DoneBook DEF Done
  <2> QED BY <2>1, <2>2
<1>5. Listed[incoming].qty = 0 \/ Promise!Crossing(incoming) = {} \/ withdrawn # {}
  <2>1. SUFFICES ASSUME Taker.qty > 0, withdrawn = {}, NEW h \in Promise!Crossing(incoming)
                 PROVE  FALSE
    BY <1>1, <1>3
  <2>2. IsHeap(buys) /\ IsHeap(sells)
    BY <2>1 DEF BookInv, HeapsHold
  <2>3. /\ h \in InBook(Book)
        /\ IF Listed[incoming].side = "buy" THEN Listed[h].price <= Listed[incoming].price
                                            ELSE Listed[h].price >= Listed[incoming].price
    BY <1>1, <2>1, OppositeIsBook DEF Promise!Crossing, Promise!Opposite, Listed
  <2>4. IF Taker.side = "buy" THEN objs[h].price > Taker.price ELSE objs[h].price < Taker.price
    BY <1>1, <2>1, <2>2, <2>3, NothingCrosses
  <2>5. h \in Handles
    BY <2>3, BookFacts DEF Book
  <2>6. objs[h].price \in Nat /\ Taker.price \in Nat
    BY <1>1, <2>5, ObjectType DEF Order
  <2> QED BY <1>1, <1>3, <2>3, <2>4, <2>5, <2>6
<1> QED BY <1>1, <1>2, <1>4, <1>5 DEF Promise!Settle, Listed

LEMMA CancelPromise ==
  ASSUME TypeOK, BookInv, NEW id \in Ids, Cancel(id)
  PROVE  Promise!Cancel({h \in Resting : objs[h].id = id})
PROOF
<1> DEFINE gone == {h \in Resting : objs[h].id = id}
<1>1. /\ Resting' = Resting \ gone /\ withdrawn' # {}
      /\ orders[id] \in gone
  BY CancelBook
<1>2. incoming = 0 /\ UNCHANGED <<objs, fills, incoming>>
  BY DEF Cancel
<1>3. Listed' = Listed /\ IdsUsedOnce' = IdsUsedOnce
  BY <1>2, SameListed
<1>4. IdsUsedOnce => gone = {orders[id]}
  BY <1>1, BookFacts DEF IdsUsedOnce
<1> HIDE DEF gone
<1>5. ~IdsUsedOnce \/ \E h \in Resting : gone = {h}
  BY <1>1, <1>4 DEF gone
<1>6. Promise!Cancel(gone)
  BY <1>1, <1>2, <1>3, <1>5 DEF Promise!Cancel, Listed
<1> QED BY <1>6 DEF gone

LEMMA StepPromise == TypeOK /\ BookInv /\ [Next]_vars => [Promise!Next]_(Promise!bookVars)
PROOF
<1> SUFFICES ASSUME TypeOK, BookInv, [Next]_vars PROVE [Promise!Next]_(Promise!bookVars)
  OBVIOUS
<1>1. CASE AddLimit \/ AddMarket
  <2>1. PICK id \in Ids, side \in Sides, qty \in Quantities :
          \E price \in Limits[side] : Add(id, side, price, qty)
    BY <1>1 DEF AddLimit, AddMarket, Limits
  <2>2. PICK price \in Limits[side] : Promise!Place(side, price, qty)
    BY <2>1, AddPromise
  <2> QED BY <2>2 DEF Promise!Next, Limits, Sides
<1>2. CASE DiscardStale
  BY <1>2, DiscardPromise DEF Promise!Next
<1>3. CASE MatchBest
  BY <1>3, MatchPromise DEF Promise!Next
<1>4. CASE Rest \/ Done
  BY <1>4, SettlePromise DEF Promise!Next
<1>5. CASE \E id \in Ids : Cancel(id)
  <2>1. PICK id \in Ids : Promise!Cancel({h \in Resting : objs[h].id = id})
    BY <1>5, CancelPromise
  <2> QED BY <2>1 DEF Promise!Next
<1>6. CASE UNCHANGED vars
  <2>1. Resting' = Resting /\ Listed' = Listed /\ IdsUsedOnce' = IdsUsedOnce
    BY <1>6, SameListed DEF vars, Resting, InBook
  <2> QED BY <1>6, <2>1 DEF vars, Promise!bookVars, Listed
<1> QED BY <1>1, <1>2, <1>3, <1>4, <1>5, <1>6 DEF Next, Step

\* The engine keeps the promise of a price-time priority book, with any number of
\* orders: every fill is with the best order of the other side as long as no order has
\* been cancelled, every order rests or trades on, and none is lost unless an order_id
\* is used again.
THEOREM EngineKeepsPromise == Spec => ImplementsOrderBook
PROOF
<1>1. Init => Promise!Init
  BY InitPromise
<1>2. TypeOK /\ BookInv /\ [Next]_vars => [Promise!Next]_(Promise!bookVars)
  BY StepPromise
<1> QED BY <1>1, <1>2, TypeCorrect, BooksAgree, PTL DEF Spec, ImplementsOrderBook, Promise!Spec

---------------------------------------------------------------------------
(* The two engines agree (EngineAgreement). *)

\* The reference engine's orders, books and dict, as the example has them.
Shown(h) == [id |-> objs[h].id, side |-> objs[h].side, price |-> objs[h].price,
             qty |-> objs[h].qty, ts |-> h]
ShownBook(book) == {Shown(h) : h \in InBook(book)}
ShownDict == {[id |-> objs[h].id, side |-> objs[h].side] : h \in (Resting \cup {incoming}) \ {0}}
ShownEngine == [buys |-> ShownBook(buys), sells |-> ShownBook(sells), live |-> ShownDict,
                fills |-> fills]
ShownState == [engine |-> ShownEngine, order |-> Shown(incoming)]

\* Between calls the engines are the same.  Within one, the example has done all
\* turns of its loop and the reference some: those it has left lead to where the
\* example is.
Ahead(s) == \E n \in Nat : \E t \in After(s)[n] : ~GoesOn(t) /\ contestant = Finish(t)

AgreeInv ==
  /\ intact \in BOOLEAN
  /\ intact => IsHeap(buys) /\ IsHeap(sells)
  /\ intact /\ IdsUsedOnce => IF incoming = 0 THEN contestant = ShownEngine
                                              ELSE Ahead(ShownState)

LEMMA ShownTyped ==
  ASSUME TypeOK, NEW h \in Handles
  PROVE  Shown(h) \in ArrivedOrders(Ids, Len(objs)) /\ Shown(h).ts = h
PROOF
<1>1. objs[h] \in Order
  BY ObjectType
<1>2. h \in 1..Len(objs)
  BY DEF TypeOK, Handles
<1> QED BY <1>1, <1>2 DEF Shown, ArrivedOrders, Order, Sides

LEMMA ShownBookTyped ==
  ASSUME TypeOK, NEW book \in Seq(Key), InBook(book) \subseteq Handles
  PROVE  ShownBook(book) \in BooksOf(Ids, Len(objs))
PROOF
<1>1. ShownBook(book) \subseteq ArrivedOrders(Ids, Len(objs))
  BY ShownTyped DEF ShownBook
<1>2. NoneTogether(ShownBook(book))
  BY ShownTyped DEF ShownBook, NoneTogether
<1>3. IsFiniteSet(ShownBook(book))
  <2> DEFINE D == DOMAIN book
             f == [i \in D |-> Shown(book[i][2])]
  <2>1. IsFiniteSet(D)
    BY FS_Interval
  <2>2. ShownBook(book) = {Shown(book[i][2]) : i \in D}
    BY DEF ShownBook, InBook
  <2>3. f \in Surjection(D, ShownBook(book))
    BY <2>2 DEF Surjection
  <2> HIDE DEF f, D
  <2> QED BY <2>1, <2>3, FS_Surjection
<1> QED BY <1>1, <1>2, <1>3 DEF BooksOf

\* Within a call the engine is where the example's loop may be.
LEMMA StateTyped ==
  ASSUME TypeOK, BookInv, incoming \in Handles
  PROVE  ShownState \in LoopStates(Ids, Len(objs)) /\ Len(objs) \in Nat
PROOF
<1>1. /\ ShownBook(buys) \in BooksOf(Ids, Len(objs)) /\ ShownBook(sells) \in BooksOf(Ids, Len(objs))
      /\ Resting \subseteq Handles /\ 0 \notin Handles
  BY BookFacts, ShownBookTyped DEF Resting
<1>2. Len(objs) \in Nat /\ fills \in Seq(ArrivedFills(Len(objs)))
  <2>1. Handles = 1..Len(objs) /\ Len(objs) \in Nat
    BY DEF TypeOK, Handles
  <2> QED BY <2>1 DEF TypeOK, ArrivedFills
<1>3. ShownDict \subseteq [id : Ids, side : {"buy", "sell"}]
  <2>1. \A h \in (Resting \cup {incoming}) \ {0} : objs[h] \in Order
    BY <1>1, ObjectType
  <2> QED BY <2>1 DEF ShownDict, Order, Sides
<1>4. ShownEngine \in EnginesOf(Ids, Len(objs))
  BY <1>1, <1>2, <1>3 DEF ShownEngine, EnginesOf
<1>5. \A o \in ShownBook(buys) \cup ShownBook(sells) : o.ts # incoming
  BY <1>1, ShownTyped DEF ShownBook, BookInv, TakerAside, Resting
<1>6. Shown(incoming) \in ArrivedOrders(Ids, Len(objs)) /\ Shown(incoming).ts = incoming
  BY ShownTyped
<1>7. ShownEngine.buys = ShownBook(buys) /\ ShownEngine.sells = ShownBook(sells)
  BY DEF ShownEngine
<1> QED BY <1>2, <1>4, <1>5, <1>6, <1>7 DEF ShownState, LoopStates

LEMMA StateTypedNext ==
  TypeOK' /\ BookInv' /\ incoming' \in Handles'
    => ShownState' \in LoopStates(Ids, Len(objs')) /\ Len(objs') \in Nat
PROOF
<1> DEFINE Called == TypeOK /\ BookInv /\ incoming \in Handles
           Typed == ShownState \in LoopStates(Ids, Len(objs)) /\ Len(objs) \in Nat
<1>1. Called => Typed
  BY StateTyped
<1> HIDE DEF Called, Typed
<1>2. Called' => Typed'
  BY <1>1, PTL
<1> QED BY <1>2 DEF Called, Typed

LEMMA AgainstIsBook ==
  ASSUME TypeOK, incoming \in Handles
  PROVE  /\ Against(ShownState) = ShownBook(Book)
         /\ ShownState.order.side = Taker.side /\ ShownState.order.price = Taker.price
         /\ ShownState.order.qty = Taker.qty /\ ShownState.order.id = Taker.id
         /\ ShownState.order.ts = incoming
PROOF
<1>1. /\ ShownState.order = Shown(incoming) /\ ShownState.engine = ShownEngine
      /\ ShownEngine.buys = ShownBook(buys) /\ ShownEngine.sells = ShownBook(sells)
  BY DEF ShownState, ShownEngine
<1>2. /\ Shown(incoming).side = Taker.side /\ Shown(incoming).price = Taker.price
      /\ Shown(incoming).qty = Taker.qty /\ Shown(incoming).id = Taker.id
      /\ Shown(incoming).ts = incoming
  BY DEF Shown, Taker
<1> QED BY <1>1, <1>2 DEF Against, Book

\* The head of the heap is the head of the sorted list.
LEMMA BestAgrees ==
  ASSUME TypeOK, BookInv, incoming \in Handles, IsHeap(Book), InBook(Book) # {}
  PROVE  BestAgainst(ShownState) = Shown(Best) /\ Best \in InBook(Book)
PROOF
<1>1. /\ InBook(Book) \subseteq Handles /\ Book \in Seq(Key)
      /\ Taker.side \in Sides
  BY BookFacts, ObjectType DEF Book, Resting, Taker, Order
<1> DEFINE book == ShownBook(Book)
           head == BestOf(book, Taker.side)
<1>2. book \in BooksOf(Ids, Len(objs)) /\ book # {}
  BY <1>1, ShownBookTyped DEF ShownBook
<1>3. head \in book /\ \A p \in book \ {head} : Better(Taker.side, head, p)
  <2> HIDE DEF book
  <2> QED BY <1>2, BestIsInBook
<1>4. PICK h \in InBook(Book) : head = Shown(h)
  BY <1>3 DEF ShownBook
<1> HIDE DEF head
<1>5. /\ Best \in InBook(Book)
      /\ \/ objs[Best].price = objs[h].price /\ Best <= h
         \/ Taker.side = "buy" /\ objs[Best].price < objs[h].price
         \/ Taker.side = "sell" /\ objs[Best].price > objs[h].price
  BY <1>4, BestIsBest
<1>6. ASSUME Shown(Best) # head PROVE FALSE
  <2>1. Better(Taker.side, Shown(h), Shown(Best))
    BY <1>3, <1>4, <1>5, <1>6 DEF ShownBook
  <2>2. /\ objs[h].price \in Nat /\ objs[Best].price \in Nat /\ h \in Nat /\ Best \in Nat
    <3>1. h \in Handles /\ Best \in Handles
      BY <1>1, <1>4, <1>5
    <3>2. objs[h] \in Order /\ objs[Best] \in Order
      BY <3>1, ObjectType
    <3>3. Handles \subseteq Nat
      BY DEF TypeOK, Handles
    <3> QED BY <3>1, <3>2, <3>3 DEF Order
  <2>3. /\ Shown(h).price = objs[h].price /\ Shown(h).ts = h
        /\ Shown(Best).price = objs[Best].price /\ Shown(Best).ts = Best
    BY DEF Shown
  <2> QED BY <1>1, <1>5, <2>1, <2>2, <2>3 DEF Better, Sides
<1>7. BestAgainst(ShownState) = head
  BY AgainstIsBook DEF BestAgainst, head
<1> QED BY <1>5, <1>6, <1>7

\* The loops go on together.
LEMMA GoesOnAgrees ==
  ASSUME TypeOK, BookInv, incoming \in Handles, IsHeap(Book)
  PROVE  GoesOn(ShownState) <=> InLoop
PROOF
<1>1. (Book # <<>> <=> InBook(Book) # {}) /\ (InBook(Book) # {} <=> Against(ShownState) # {})
  <2>1. Book \in Seq(Key)
    BY BookFacts DEF Book
  <2>2. Book # <<>> <=> InBook(Book) # {}
    BY <2>1 DEF InBook
  <2> QED BY <2>2, AgainstIsBook DEF ShownBook
<1>2. CASE InBook(Book) = {}
  BY <1>1, <1>2 DEF GoesOn, InLoop
<1>3. CASE InBook(Book) # {}
  <2>1. BestAgainst(ShownState).price = objs[Best].price
    BY <1>3, BestAgrees DEF Shown
  <2>2. incoming # 0
    BY BookFacts
  <2> QED BY <1>1, <1>3, <2>1, <2>2, AgainstIsBook DEF GoesOn, InLoop, Crosses
<1> QED BY <1>2, <1>3

---------------------------------------------------------------------------
(* The steps. *)

\* The lists are heaps as long as they have been.
LEMMA IntactStep ==
  ASSUME AgreeInv, BothNext
  PROVE  /\ intact' \in BOOLEAN /\ (intact' => intact /\ IsHeap(buys') /\ IsHeap(sells'))
         /\ intact => IsHeap(buys) /\ IsHeap(sells)
PROOF BY DEF AgreeInv, BothNext

\* A turn of _match is a turn of the example's loop.
LEMMA TurnAgrees ==
  ASSUME TypeOK, BookInv, MatchBest, IsHeap(Book), IdsUsedOnce
  PROVE  GoesOn(ShownState) /\ ShownState' = Turn(ShownState)
PROOF
<1>1. /\ InLoop /\ UNCHANGED <<incoming, withdrawn>>
      /\ incoming \in Handles /\ Best \in Handles /\ Best # incoming /\ Taker = objs[incoming]
      /\ Taker.qty \in Nat /\ objs[Best].qty \in Nat /\ Taker.side \in Sides
      /\ Taker.side # objs[Best].side /\ 0 \notin Handles
  BY InLoopFacts, BookFacts DEF MatchBest, Order, Taker
<1>2. GoesOn(ShownState) /\ BestAgainst(ShownState) = Shown(Best) /\ Best \in InBook(Book)
  <2>1. GoesOn(ShownState)
    BY <1>1, GoesOnAgrees
  <2>2. InBook(Book) # {}
    BY <2>1, AgainstIsBook, <1>1 DEF GoesOn, ShownBook
  <2> QED BY <1>1, <2>1, <2>2, BestAgrees
<1>3. PICK qty \in Nat : Trade(qty)
  BY TradeFacts
<1>4. qty = Min({Taker.qty, objs[Best].qty})
  <2>1. qty \in {Taker.qty, objs[Best].qty} /\ qty <= Taker.qty /\ qty <= objs[Best].qty
    BY <1>3 DEF Trade
  <2>2. PICK a \in Nat, b \in Nat : a = Taker.qty /\ b = objs[Best].qty
    BY <1>1
  <2>3. Min({a, b}) = IF a <= b THEN a ELSE b
    BY MinOfTwo
  <2> QED BY <2>1, <2>2, <2>3
<1>5. /\ Handles' = Handles
      /\ \A h \in Handles : /\ objs'[h].side = objs[h].side /\ objs'[h].price = objs[h].price
                            /\ objs'[h].id = objs[h].id
                            /\ h \notin {incoming, Best} => objs'[h].qty = objs[h].qty
      /\ objs'[incoming].qty = objs[incoming].qty - qty
      /\ objs'[Best].qty = objs[Best].qty - qty
  BY <1>3, TradeFacts DEF Trade
<1>6. /\ \A h \in Handles \ {incoming, Best} : Shown(h)' = Shown(h)
      /\ Shown(incoming)' = [Shown(incoming) EXCEPT !.qty = @ - qty]
  BY <1>1, <1>5 DEF Shown
<1> DEFINE Later(h) == [id |-> objs'[h].id, side |-> objs'[h].side, price |-> objs'[h].price,
                        qty |-> objs'[h].qty, ts |-> h]
           less == [Shown(Best) EXCEPT !.qty = @ - qty]
           usedUp == objs[Best].qty = qty
           Mine == IF Taker.side = "buy" THEN buys ELSE sells
<1>7. /\ Later(Best) = less /\ \A h \in Handles \ {incoming, Best} : Later(h) = Shown(h)
      /\ \A h : Shown(h)' = Later(h)
  BY <1>1, <1>5 DEF Shown
<1>8. PICK r : PutBook(r) /\ InBook(r) = IF usedUp THEN InBook(Book) \ {Best} ELSE InBook(Book)
  <2>1. IF usedUp THEN PutBook(HeapPop(Book)) ELSE PutBook(HeapPush(HeapPop(Book), Book[1]))
    BY <1>1, <1>3 DEF MatchBest, Trade
  <2>2. Distinct(Book)
    BY DEF BookInv, NoneTwice, Book
  <2>3. /\ InBook(HeapPop(Book)) = InBook(Book) \ {Best}
        /\ InBook(HeapPush(HeapPop(Book), Book[1])) = InBook(Book)
    BY <1>1, <2>2, BookAfter
  <2> QED BY <2>1, <2>3
<1>9. /\ InBook(Book) \subseteq Handles /\ incoming \notin InBook(Book)
      /\ InBook(Mine) \subseteq Handles \ {incoming, Best}
  BY <1>1, BookFacts DEF BookInv, TakerAside, Resting, Book, Sides
<1> DEFINE left == (Against(ShownState) \ {Shown(Best)}) \cup (IF usedUp THEN {} ELSE {less})
<1>10. {Later(h) : h \in InBook(r)} = left
  <2>1. Against(ShownState) = {Shown(h) : h \in InBook(Book)}
    BY <1>1, AgainstIsBook DEF ShownBook
  <2>2. \A h : Shown(h) = Shown(Best) => h = Best
    BY DEF Shown
  <2>3. left = {Shown(h) : h \in InBook(Book) \ {Best}} \cup (IF usedUp THEN {} ELSE {less})
    BY <2>1, <2>2
  <2>4. {Later(h) : h \in InBook(Book) \ {Best}} = {Shown(h) : h \in InBook(Book) \ {Best}}
    BY <1>7, <1>9
  <2>5. InBook(r) = (InBook(Book) \ {Best}) \cup (IF usedUp THEN {} ELSE {Best})
    BY <1>2, <1>8
  <2>6. {Later(h) : h \in InBook(r)}
          = {Later(h) : h \in InBook(Book) \ {Best}} \cup (IF usedUp THEN {} ELSE {Later(Best)})
    BY <2>5
  <2> QED BY <1>7, <2>3, <2>4, <2>6
<1>11. {Later(h) : h \in InBook(Mine)} = ShownBook(Mine)
  BY <1>7, <1>9 DEF ShownBook
<1> HIDE DEF left
<1>12. /\ ShownBook(buys)' = IF Taker.side = "buy" THEN ShownBook(buys) ELSE left
       /\ ShownBook(sells)' = IF Taker.side = "buy" THEN left ELSE ShownBook(sells)
  <2>1. ShownBook(buys)' = {Later(h) : h \in InBook(buys')}
        /\ ShownBook(sells)' = {Later(h) : h \in InBook(sells')}
    BY DEF ShownBook, Shown, InBook
  <2> HIDE DEF Later
  <2>2. CASE Taker.side = "buy"
    BY <1>8, <1>10, <1>11, <2>1, <2>2 DEF PutBook
  <2>3. CASE Taker.side # "buy"
    BY <1>8, <1>10, <1>11, <2>1, <2>3 DEF PutBook
  <2> QED BY <2>2, <2>3
<1>13. ShownDict' = IF usedUp THEN {x \in ShownDict : x.id # Shown(Best).id} ELSE ShownDict
  <2> DEFINE Pair(h) == [id |-> objs[h].id, side |-> objs[h].side]
             All == (Resting \cup {incoming}) \ {0}
  <2>1. All \subseteq Handles /\ Best \in All
    BY <1>1, <1>2, BookFacts DEF Resting, Book
  <2>2. (Resting' \cup {incoming'}) \ {0} = IF usedUp THEN All \ {Best} ELSE All
    <3>1. Resting' = IF objs[Best].qty <= Taker.qty THEN Resting \ {Best} ELSE Resting
      BY MatchBook
    <3>2. objs[Best].qty <= Taker.qty <=> usedUp
      BY <1>1, <1>3 DEF Trade
    <3> QED BY <1>1, <3>1, <3>2
  <2>3. ShownDict' = {[id |-> objs'[h].id, side |-> objs'[h].side] :
                        h \in (Resting' \cup {incoming'}) \ {0}}
    BY DEF ShownDict
  <2> HIDE DEF All
  <2>4. \A h \in All : [id |-> objs'[h].id, side |-> objs'[h].side] = Pair(h)
    BY <1>5, <2>1
  <2>5. ShownDict' = {Pair(h) : h \in IF usedUp THEN All \ {Best} ELSE All}
    BY <2>2, <2>3, <2>4
  <2>6. ShownDict = {Pair(h) : h \in All}
    BY DEF ShownDict, All
  <2>7. \A h \in All : Pair(h).id # Shown(Best).id <=> h # Best
    BY <1>1, <2>1 DEF IdsUsedOnce, Shown
  <2>8. {x \in ShownDict : x.id # Shown(Best).id} = {Pair(h) : h \in All \ {Best}}
    BY <2>6, <2>7
  <2> QED BY <2>5, <2>6, <2>8
<1>14. fills' = Append(fills, FillBetween(Shown(incoming), Shown(Best), qty))
  BY <1>1, <1>3 DEF Trade, FillOf, FillBetween, Shown
<1>15. ShownState' = [engine |-> [buys |-> ShownBook(buys)', sells |-> ShownBook(sells)',
                                  live |-> ShownDict', fills |-> fills'],
                      order |-> [Shown(incoming) EXCEPT !.qty = @ - qty]]
  <2>1. Shown(incoming)' = Later(incoming)
    BY <1>1 DEF Shown
  <2>2. Later(incoming) = [Shown(incoming) EXCEPT !.qty = @ - qty]
    BY <1>1, <1>5 DEF Shown
  <2> QED BY <2>1, <2>2 DEF ShownState, ShownEngine
<1>16. Turn(ShownState)
         = [order |-> [Shown(incoming) EXCEPT !.qty = @ - qty],
            engine |-> [buys |-> IF Taker.side = "buy" THEN ShownBook(buys) ELSE left,
                        sells |-> IF Taker.side = "buy" THEN left ELSE ShownBook(sells),
                        live |-> IF usedUp THEN {x \in ShownDict : x.id # Shown(Best).id}
                                           ELSE ShownDict,
                        fills |-> Append(fills, FillBetween(Shown(incoming), Shown(Best), qty))]]
  <2>1. PICK s, best : s = ShownState /\ best = Shown(Best)
    OBVIOUS
  <2>2. /\ BestAgainst(s) = best /\ best.qty = objs[Best].qty
        /\ s.order = Shown(incoming) /\ s.order.qty = Taker.qty /\ s.order.side = Taker.side
        /\ s.engine = ShownEngine
    BY <1>1, <1>2, <2>1, AgainstIsBook DEF Shown, ShownState
  <2>3. /\ s.engine.buys = ShownBook(buys) /\ s.engine.sells = ShownBook(sells)
        /\ s.engine.live = ShownDict /\ s.engine.fills = fills
    BY <2>2 DEF ShownEngine
  <2>4. left = (Against(s) \ {best}) \cup (IF usedUp THEN {} ELSE {[best EXCEPT !.qty = @ - qty]})
    BY <2>1 DEF left
  <2>5. qty = Min({s.order.qty, best.qty}) /\ (usedUp <=> best.qty = qty)
    BY <1>4, <2>2
  <2> DEFINE LeftAt(q) == (Against(s) \ {best})
                            \cup (IF best.qty = q THEN {} ELSE {[best EXCEPT !.qty = @ - q]})
             TurnAt(q) == [order |-> [s.order EXCEPT !.qty = @ - q],
                           engine |->
                             [buys |-> IF s.order.side = "buy" THEN s.engine.buys ELSE LeftAt(q),
                              sells |-> IF s.order.side = "buy" THEN LeftAt(q) ELSE s.engine.sells,
                              live |-> IF best.qty = q THEN {x \in s.engine.live : x.id # best.id}
                                                       ELSE s.engine.live,
                              fills |-> Append(s.engine.fills, FillBetween(s.order, best, q))]]
  <2>6. Turn(s) = TurnAt(Min({s.order.qty, best.qty}))
    BY <2>2 DEF Turn
  <2>7. left = LeftAt(qty)
    BY <2>4, <2>5
  <2>8. TurnAt(Min({s.order.qty, best.qty})) = TurnAt(qty)
    BY <2>5
  <2> HIDE DEF LeftAt, left
  <2> QED BY <2>1, <2>2, <2>3, <2>5, <2>6, <2>7, <2>8
<1> QED BY <1>2, <1>12, <1>13, <1>14, <1>15, <1>16

\* What is ahead of the reference is one turn less after a turn of its own.
LEMMA AheadAfterTurn ==
  ASSUME TypeOK, BookInv, incoming \in Handles, Ahead(ShownState), GoesOn(ShownState)
  PROVE  Ahead(Turn(ShownState))
PROOF
<1>1. PICK s : s = ShownState
  OBVIOUS
<1>2. s \in LoopStates(Ids, Len(objs)) /\ Len(objs) \in Nat
  <2>1. ShownState \in LoopStates(Ids, Len(objs)) /\ Len(objs) \in Nat
    BY StateTyped
  <2> QED BY <1>1, <2>1
<1>3. PICK n \in Nat : \E u \in After(s)[n] : ~GoesOn(u) /\ contestant = Finish(u)
  BY <1>1 DEF Ahead
<1> PICK t \in After(s)[n] : ~GoesOn(t) /\ contestant = Finish(t)
  BY <1>3
<1>4. n # 0
  <2>1. After(s)[0] = {s}
    BY <1>2, AfterUnfold
  <2> QED BY <1>1, <1>3, <2>1
<1>5. n - 1 \in Nat /\ (n - 1) + 1 = n
  BY <1>4
<1>6. After(s)[(n - 1) + 1] = After(Turn(s))[n - 1]
  BY <1>1, <1>2, <1>5, AfterFirst
<1>7. t \in After(Turn(s))[n - 1]
  BY <1>3, <1>5, <1>6
<1> QED BY <1>1, <1>3, <1>5, <1>7 DEF Ahead

\* Nothing is ahead once the loop is over: the example is where it ends.
LEMMA AheadAtEnd ==
  ASSUME TypeOK, BookInv, incoming \in Handles, Ahead(ShownState), ~GoesOn(ShownState)
  PROVE  contestant = Finish(ShownState)
PROOF
<1>1. PICK s : s = ShownState
  OBVIOUS
<1>2. s \in LoopStates(Ids, Len(objs)) /\ Len(objs) \in Nat
  <2>1. ShownState \in LoopStates(Ids, Len(objs)) /\ Len(objs) \in Nat
    BY StateTyped
  <2> QED BY <1>1, <2>1
<1>3. PICK n \in Nat : \E u \in After(s)[n] : ~GoesOn(u) /\ contestant = Finish(u)
  BY <1>1 DEF Ahead
<1> PICK t \in After(s)[n] : ~GoesOn(t) /\ contestant = Finish(t)
  BY <1>3
<1>4. n = 0
  <2>1. SUFFICES ASSUME n # 0 PROVE FALSE
    OBVIOUS
  <2>2. n - 1 \in Nat /\ (n - 1) + 1 = n
    BY <2>1
  <2>3. After(s)[(n - 1) + 1] = {}
    BY <1>1, <1>2, <2>2, AfterFirst
  <2> QED BY <1>3, <2>2, <2>3
<1>5. After(s)[0] = {s}
  BY <1>2, AfterUnfold
<1> QED BY <1>1, <1>3, <1>4, <1>5

LEMMA MatchAgrees ==
  ASSUME TypeOK, BookInv, AgreeInv, BothNext, MatchBest, UNCHANGED contestant
  PROVE  AgreeInv'
PROOF
<1>1. /\ InLoop /\ UNCHANGED incoming /\ incoming \in Handles /\ 0 \notin Handles
  BY InLoopFacts, BookFacts DEF MatchBest
<1>2. SUFFICES ASSUME intact', IdsUsedOnce' PROVE Ahead(ShownState)'
  BY <1>1, IntactStep DEF AgreeInv
<1>3. IdsUsedOnce
  <2>1. Handles' = Handles /\ \A h \in Handles : objs'[h].id = objs[h].id
    BY TradeFacts
  <2> QED BY <1>2, <2>1 DEF IdsUsedOnce
<1>4. IsHeap(Book) /\ Ahead(ShownState)
  BY <1>1, <1>2, <1>3, IntactStep DEF AgreeInv, Book
<1>5. GoesOn(ShownState) /\ ShownState' = Turn(ShownState)
  BY <1>3, <1>4, TurnAgrees
<1>6. Ahead(Turn(ShownState))
  BY <1>1, <1>4, <1>5, AheadAfterTurn
<1>7. PICK s : s = ShownState'
  OBVIOUS
<1>8. \E n \in Nat : \E t \in After(s)[n] : ~GoesOn(t) /\ contestant = Finish(t)
  BY <1>5, <1>6, <1>7 DEF Ahead
<1> QED BY <1>7, <1>8 DEF Ahead

\* The stale check of _match finds nothing while ids are used once.
LEMMA DiscardAgrees ==
  ASSUME TypeOK, BookInv, AgreeInv, BothNext, DiscardStale
  PROVE  AgreeInv'
PROOF
<1>1. /\ InLoop /\ UNCHANGED <<objs, incoming>> /\ incoming \in Handles /\ 0 \notin Handles
      /\ Best \in Handles /\ orders[objs[Best].id] = 0
  BY InLoopFacts, BookFacts DEF DiscardStale
<1>2. Best \in Resting
  <2>1. Best \in InBook(Book)
    BY <1>1, InLoopFacts DEF Best, InBook
  <2> QED BY <2>1 DEF Resting, Book
<1>3. ~IdsUsedOnce
  BY <1>1, <1>2 DEF BookInv, OnceInDict
<1>4. ~IdsUsedOnce'
  BY <1>1, <1>3, SameListed
<1> QED BY <1>4, IntactStep DEF AgreeInv

\* What follows the loops is the same.
LEMMA SettleAgrees ==
  ASSUME TypeOK, BookInv, AgreeInv, BothNext, Rest \/ Done, UNCHANGED contestant
  PROVE  AgreeInv'
PROOF
<1>1. /\ LoopIsOver /\ UNCHANGED <<objs, fills>> /\ incoming' = 0 /\ incoming # 0
      /\ incoming \in Handles /\ 0 \notin Handles /\ Resting \subseteq Handles
      /\ Taker = objs[incoming] /\ Taker \in Order /\ Taker.qty \in Nat
  BY BookFacts, ObjectType DEF Rest, Done, LoopIsOver, TypeOK, Taker, Order
<1>2. SUFFICES ASSUME intact', IdsUsedOnce' PROVE contestant' = ShownEngine'
  BY <1>1, IntactStep DEF AgreeInv
<1>3. IdsUsedOnce
  BY <1>1, <1>2, SameListed
<1>4. IsHeap(Book) /\ Ahead(ShownState)
  BY <1>1, <1>2, <1>3, IntactStep DEF AgreeInv, Book
<1>5. ~GoesOn(ShownState)
  BY <1>1, <1>4, GoesOnAgrees DEF LoopIsOver
<1>6. contestant' = Finish(ShownState)
  BY <1>1, <1>4, <1>5, AheadAtEnd
<1>7. \A h : Shown(h)' = Shown(h)
  BY <1>1 DEF Shown
<1>8. ShownEngine' = [buys |-> ShownBook(buys)', sells |-> ShownBook(sells)',
                      live |-> ShownDict', fills |-> fills]
  BY <1>1 DEF ShownEngine
<1>9. ShownDict' = {[id |-> objs[h].id, side |-> objs[h].side] : h \in Resting'}
  <2>1. Resting' \subseteq Resting \cup {incoming}
    BY RestBook, DoneBook
  <2>2. (Resting' \cup {incoming'}) \ {0} = Resting'
    BY <1>1, <2>1
  <2>3. ShownDict' = {[id |-> objs[h].id, side |-> objs[h].side] :
                        h \in (Resting' \cup {incoming'}) \ {0}}
    BY <1>1 DEF ShownDict
  <2> QED BY <2>2, <2>3
<1>10. PICK s : s = ShownState
  OBVIOUS
<1>11. /\ s.order = Shown(incoming) /\ s.order.qty = Taker.qty /\ s.order.side = Taker.side
       /\ s.order.id = Taker.id /\ s.engine = ShownEngine
       /\ s.engine.buys = ShownBook(buys) /\ s.engine.sells = ShownBook(sells)
       /\ s.engine.live = ShownDict /\ s.engine.fills = fills
       /\ ShownEngine = [buys |-> s.engine.buys, sells |-> s.engine.sells,
                         live |-> s.engine.live, fills |-> s.engine.fills]
  BY <1>1, <1>10 DEF ShownState, ShownEngine, Shown
<1> DEFINE Pair(h) == [id |-> objs[h].id, side |-> objs[h].side]
<1>12. ShownDict = {Pair(h) : h \in Resting \cup {incoming}}
  BY <1>1 DEF ShownDict
<1>13. CASE Done
  <2>1. UNCHANGED <<objs, buys, sells>> /\ Taker.qty = 0
    BY <1>13 DEF Done
  <2>2. ShownBook(buys)' = ShownBook(buys) /\ ShownBook(sells)' = ShownBook(sells)
    BY <2>1 DEF ShownBook, Shown, InBook
  <2>3. Resting' = Resting /\ incoming \notin Resting
    BY <1>13, DoneBook DEF BookInv, TakerAside
  <2>4. \A h \in Resting \cup {incoming} : Pair(h).id # Taker.id <=> h \in Resting
    BY <1>1, <1>3, <2>3 DEF IdsUsedOnce
  <2>5. {x \in ShownDict : x.id # Taker.id} = {Pair(h) : h \in Resting}
    BY <1>12, <2>4
  <2>6. Finish(s) = [s.engine EXCEPT !.live = {x \in @ : x.id # s.order.id}]
    BY <1>11, <2>1 DEF Finish
  <2>7. Finish(s) = [buys |-> ShownBook(buys), sells |-> ShownBook(sells),
                     live |-> {x \in ShownDict : x.id # Taker.id}, fills |-> fills]
    BY <1>11, <2>6
  <2> QED BY <1>6, <1>8, <1>9, <1>10, <2>2, <2>3, <2>5, <2>7
<1>14. CASE Rest
  <2>1. /\ UNCHANGED objs /\ Taker.qty > 0
        /\ IF Taker.side = "buy" THEN buys' = HeapPush(buys, Entry(incoming)) /\ UNCHANGED sells
                                 ELSE sells' = HeapPush(sells, Entry(incoming)) /\ UNCHANGED buys
    BY <1>14 DEF Rest
  <2>2. /\ InBook(HeapPush(buys, Entry(incoming))) = InBook(buys) \cup {incoming}
        /\ InBook(HeapPush(sells, Entry(incoming))) = InBook(sells) \cup {incoming}
    BY <1>1, OneMore, BookFacts DEF BookInv, NoneTwice, TakerAside, Resting
  <2>3. ShownBook(buys)' = {Shown(h) : h \in InBook(buys')}
        /\ ShownBook(sells)' = {Shown(h) : h \in InBook(sells')}
    BY <2>1 DEF ShownBook, Shown, InBook
  <2>4. /\ ShownBook(buys)' = IF Taker.side = "buy" THEN ShownBook(buys) \cup {Shown(incoming)}
                                                    ELSE ShownBook(buys)
        /\ ShownBook(sells)' = IF Taker.side = "buy" THEN ShownBook(sells)
                                                     ELSE ShownBook(sells) \cup {Shown(incoming)}
    BY <2>1, <2>2, <2>3 DEF ShownBook
  <2>5. ShownDict' = ShownDict
    <3>1. Resting' = Resting \cup {incoming}
      BY <1>14, RestBook
    <3> QED BY <1>9, <1>12, <3>1
  <2>6. ~(s.order.qty = 0)
    BY <1>1, <1>11, <2>1
  <2>7. Finish(s) = [buys |-> IF Taker.side = "buy" THEN ShownBook(buys) \cup {Shown(incoming)}
                                                    ELSE ShownBook(buys),
                     sells |-> IF Taker.side = "buy" THEN ShownBook(sells)
                                                     ELSE ShownBook(sells) \cup {Shown(incoming)},
                     live |-> ShownDict, fills |-> fills]
    BY <1>11, <2>6 DEF Finish
  <2> QED BY <1>6, <1>8, <1>10, <2>4, <2>5, <2>7
<1> QED BY <1>13, <1>14

\* A new order brings the example to the end of a loop that is all ahead of _match.
LEMMA AddAgrees ==
  ASSUME TypeOK, BookInv, AgreeInv, BothNext, NEW id \in Ids, NEW side \in Sides, NEW price \in Nat,
         NEW qty \in Quantities, Add(id, side, price, qty), SameOrder
  PROVE  AgreeInv'
PROOF
<1> DEFINE n == Len(objs) + 1
           new == [id |-> id, side |-> side, price |-> price, qty |-> qty, asked |-> qty]
<1>1. /\ incoming = 0 /\ incoming' = n /\ objs' = Append(objs, new)
      /\ UNCHANGED <<buys, sells, fills>>
      /\ objs \in Seq(Order) /\ Handles = 1..Len(objs) /\ Len(objs) \in Nat
      /\ Resting \subseteq Handles
  BY BookFacts DEF Add, TypeOK, Handles
<1>2. /\ n # 0 /\ n \notin Handles /\ Handles' = Handles \cup {n} /\ objs'[n] = new
      /\ \A h \in Handles : objs'[h] = objs[h]
  BY <1>1 DEF Handles
<1> HIDE DEF n, new
<1>3. SUFFICES ASSUME intact', IdsUsedOnce' PROVE Ahead(ShownState)'
  BY <1>1, <1>2, IntactStep DEF AgreeInv
<1>4. IdsUsedOnce
  BY <1>2, <1>3 DEF IdsUsedOnce
<1>5. contestant = ShownEngine
  BY <1>1, <1>3, <1>4, IntactStep DEF AgreeInv
<1>6. TypeOK' /\ BookInv' /\ incoming' \in Handles'
  BY <1>1, <1>2, AddType, AddBook
<1>7. PICK s : s = ShownState'
  OBVIOUS
<1> DEFINE o == [id |-> id, side |-> side, price |-> price, qty |-> qty, ts |-> n]
<1>8a. o = [id |-> objs'[incoming'].id, side |-> objs'[incoming'].side,
           price |-> objs'[incoming'].price, qty |-> objs'[incoming'].qty, ts |-> incoming']
  <2>1. /\ objs'[n].id = id /\ objs'[n].side = side
        /\ objs'[n].price = price /\ objs'[n].qty = qty
    BY <1>2 DEF new
  <2> QED BY <1>1, <2>1
<1>8. contestant' = ServeOrder(ShownEngine, o)
  <2>1. contestant' = ServeOrder(contestant,
          [id |-> objs'[incoming'].id, side |-> objs'[incoming'].side,
           price |-> objs'[incoming'].price, qty |-> objs'[incoming'].qty, ts |-> incoming'])
    BY DEF SameOrder
  <2> QED BY <1>1, <1>5, <1>8a, <2>1
<1>9. s = [engine |-> [ShownEngine EXCEPT !.live = {x \in @ : x.id # o.id}
                                                      \cup {[id |-> o.id, side |-> o.side]}],
           order |-> o]
  <2>1. Shown(incoming)' = o
    BY <1>8a DEF Shown
  <2>2. /\ ShownBook(buys)' = {Shown(h)' : h \in InBook(buys)}
        /\ ShownBook(sells)' = {Shown(h)' : h \in InBook(sells)}
    BY <1>1 DEF ShownBook, Shown, InBook
  <2>3. \A h \in Handles : Shown(h)' = Shown(h)
    BY <1>2 DEF Shown
  <2>4. ShownBook(buys)' = ShownBook(buys) /\ ShownBook(sells)' = ShownBook(sells)
    <3>1. InBook(buys) \subseteq Handles /\ InBook(sells) \subseteq Handles
      BY <1>1 DEF Resting
    <3> QED BY <2>2, <2>3, <3>1 DEF ShownBook
  <2> DEFINE Pair(h) == [id |-> objs[h].id, side |-> objs[h].side]
  <2>5. ShownDict = {Pair(h) : h \in Resting}
    BY <1>1 DEF ShownDict
  <2>6. ShownDict' = {Pair(h) : h \in Resting} \cup {[id |-> o.id, side |-> o.side]}
    <3>1. (Resting' \cup {incoming'}) \ {0} = Resting \cup {n}
      BY <1>1, <1>2 DEF Resting, InBook
    <3>2. ShownDict' = {[id |-> objs'[h].id, side |-> objs'[h].side] : h \in Resting \cup {n}}
      BY <3>1 DEF ShownDict
    <3>3. \A h \in Resting : [id |-> objs'[h].id, side |-> objs'[h].side] = Pair(h)
      BY <1>1, <1>2
    <3>4. [id |-> objs'[n].id, side |-> objs'[n].side] = [id |-> o.id, side |-> o.side]
      BY <1>2 DEF new
    <3> HIDE DEF Pair, o
    <3> QED BY <3>2, <3>3, <3>4
  <2>7. {x \in ShownDict : x.id # o.id} = ShownDict
    <3>1. \A h \in Resting : objs[h].id # id
      <4>1. \A h \in Resting : h \in Handles' /\ n \in Handles' /\ h # n /\ objs'[h] = objs[h]
        BY <1>1, <1>2
      <4>2. objs'[n].id = id
        BY <1>2 DEF new
      <4> QED BY <1>3, <4>1, <4>2 DEF IdsUsedOnce
    <3> QED BY <2>5, <3>1
  <2>8. ShownState' = [engine |-> [buys |-> ShownBook(buys), sells |-> ShownBook(sells),
                                   live |-> ShownDict', fills |-> fills],
                       order |-> o]
    BY <1>1, <2>1, <2>4 DEF ShownState, ShownEngine
  <2> HIDE DEF o
  <2>9. ShownDict' = {x \in ShownDict : x.id # o.id} \cup {[id |-> o.id, side |-> o.side]}
    BY <2>5, <2>6, <2>7
  <2>10. ShownEngine = [buys |-> ShownBook(buys), sells |-> ShownBook(sells),
                        live |-> ShownDict, fills |-> fills]
    BY DEF ShownEngine
  <2>11. PICK e, l : e = ShownEngine /\ l = ShownDict'
    OBVIOUS
  <2>12. [e EXCEPT !.live = {x \in @ : x.id # o.id} \cup {[id |-> o.id, side |-> o.side]}]
           = [buys |-> ShownBook(buys), sells |-> ShownBook(sells), live |-> l, fills |-> fills]
    BY <2>9, <2>10, <2>11
  <2> QED BY <1>7, <2>8, <2>11, <2>12
<1>10. contestant' = Finish(End(s))
  BY <1>8, <1>9 DEF ServeOrder
<1>11. PICK c : c = Len(objs')
  OBVIOUS
<1>12. s \in LoopStates(Ids, c) /\ c \in Nat
  <2>1. ShownState' \in LoopStates(Ids, Len(objs')) /\ Len(objs') \in Nat
    BY <1>6, StateTypedNext
  <2> QED BY <1>7, <1>11, <2>1
<1>13. \E k \in Nat : End(s) \in After(s)[k] /\ ~GoesOn(End(s))
  BY <1>12, LoopEnds
<1>14. \E k \in Nat : \E t \in After(s)[k] : ~GoesOn(t) /\ contestant' = Finish(t)
  BY <1>10, <1>13
<1> QED BY <1>7, <1>14 DEF Ahead

\* An example engine with all but its fills replaced.
Changed(e, l, b, a) == [e EXCEPT !.live = l, !.buys = b, !.sells = a]

LEMMA EngineChanged ==
  ASSUME NEW b, NEW a, NEW l, NEW f, NEW l2, NEW b2, NEW a2, NEW e,
         e = [buys |-> b, sells |-> a, live |-> l, fills |-> f]
  PROVE  Changed(e, l2, b2, a2) = [buys |-> b2, sells |-> a2, live |-> l2, fills |-> f]
PROOF
<1>1. PICK e1, e2 : /\ e1 = [buys |-> b, sells |-> a, live |-> l2, fills |-> f]
                    /\ e2 = [buys |-> b2, sells |-> a, live |-> l2, fills |-> f]
  OBVIOUS
<1>2. [e EXCEPT !.live = l2] = e1
  BY <1>1
<1>3. [e1 EXCEPT !.buys = b2] = e2
  BY <1>1
<1>4. [e2 EXCEPT !.sells = a2] = [buys |-> b2, sells |-> a2, live |-> l2, fills |-> f]
  BY <1>1
<1>5. [e EXCEPT !.live = l2, !.buys = b2, !.sells = a2]
        = [[[e EXCEPT !.live = l2] EXCEPT !.buys = b2] EXCEPT !.sells = a2]
  OBVIOUS
<1> QED BY <1>2, <1>3, <1>4, <1>5 DEF Changed

\* A cancel takes the same orders out of both.
LEMMA CancelAgrees ==
  ASSUME TypeOK, BookInv, AgreeInv, BothNext, NEW id \in Ids, Cancel(id),
         contestant' = ServeCancel(contestant, id)
  PROVE  AgreeInv'
PROOF
<1>1. /\ incoming = 0 /\ incoming' = 0 /\ UNCHANGED <<objs, fills>>
      /\ Resting \subseteq Handles /\ 0 \notin Handles
      /\ buys \in Seq(Key) /\ sells \in Seq(Key)
  BY BookFacts DEF Cancel
<1>2. SUFFICES ASSUME intact', IdsUsedOnce' PROVE contestant' = ShownEngine'
  BY <1>1, IntactStep DEF AgreeInv
<1>3. IdsUsedOnce
  BY <1>1, <1>2, SameListed
<1>4. contestant = ShownEngine
  BY <1>1, <1>2, <1>3, IntactStep DEF AgreeInv
<1>5. PICK mine \in Resting : objs[mine].id = id
  BY CancelBook
<1>6. /\ \A h \in InBook(buys) : h \in Handles /\ objs[h].side = "buy"
      /\ \A h \in InBook(sells) : h \in Handles /\ objs[h].side = "sell"
      /\ \A h \in Handles : objs[h].id = id => h = mine
  BY <1>1, <1>3, <1>5, BookFacts DEF IdsUsedOnce
<1>7. /\ InBook(buys') = {h \in InBook(buys) : objs[h].id # id}
      /\ InBook(sells') = {h \in InBook(sells) : objs[h].id # id}
  BY <1>1, WithoutKeeps DEF Cancel
<1> DEFINE Pair(h) == [id |-> objs[h].id, side |-> objs[h].side]
           own == {x.side : x \in {y \in ShownDict : y.id = id}}
<1>8. ShownDict = {Pair(h) : h \in Resting}
  BY <1>1 DEF ShownDict
<1>9. own = {objs[mine].side}
  <2>1. {y \in ShownDict : y.id = id} = {Pair(mine)}
    BY <1>1, <1>5, <1>6, <1>8
  <2>2. Pair(mine).side = objs[mine].side
    OBVIOUS
  <2>3. own = {x.side : x \in {Pair(mine)}}
    BY <2>1
  <2> HIDE DEF Pair, own
  <2> QED BY <2>2, <2>3
<1>10. {o \in ShownBook(buys) : o.id # id} = {Shown(h) : h \in InBook(buys')}
       /\ {o \in ShownBook(sells) : o.id # id} = {Shown(h) : h \in InBook(sells')}
  BY <1>7 DEF ShownBook, Shown
<1>11. /\ ShownBook(buys)' = {Shown(h) : h \in InBook(buys')}
       /\ ShownBook(sells)' = {Shown(h) : h \in InBook(sells')}
  BY <1>1 DEF ShownBook, Shown, InBook
<1>12. /\ "buy" \notin own => {o \in ShownBook(buys) : o.id # id} = ShownBook(buys)
       /\ "sell" \notin own => {o \in ShownBook(sells) : o.id # id} = ShownBook(sells)
  <2>1. /\ \A o \in ShownBook(buys) : o.id = id => objs[mine].side = "buy"
        /\ \A o \in ShownBook(sells) : o.id = id => objs[mine].side = "sell"
    BY <1>6 DEF ShownBook, Shown
  <2> QED BY <1>9, <2>1
<1>13. ShownDict' = {x \in ShownDict : x.id # id}
  <2>1. Resting' = {h \in Resting : objs[h].id # id}
    BY CancelBook
  <2>2. (Resting' \cup {incoming'}) \ {0} = {h \in Resting : objs[h].id # id}
    BY <1>1, <2>1
  <2>3. ShownDict' = {Pair(h) : h \in {k \in Resting : objs[k].id # id}}
    BY <1>1, <2>2 DEF ShownDict
  <2> QED BY <1>8, <2>3
<1>14. PICK e, l : /\ e = ShownEngine /\ l = ShownDict
                   /\ e = [buys |-> ShownBook(buys), sells |-> ShownBook(sells), live |-> l,
                           fills |-> fills]
  BY DEF ShownEngine
<1>15. ServeCancel(e, id)
         = [buys |-> IF "buy" \in own THEN {o \in ShownBook(buys) : o.id # id} ELSE ShownBook(buys),
            sells |-> IF "sell" \in own THEN {o \in ShownBook(sells) : o.id # id}
                                        ELSE ShownBook(sells),
            live |-> {x \in l : x.id # id}, fills |-> fills]
  <2>1. e.live = ShownDict /\ e.buys = ShownBook(buys) /\ e.sells = ShownBook(sells)
    BY <1>14
  <2>2. ServeCancel(e, id)
          = [e EXCEPT !.live = {x \in @ : x.id # id},
                      !.buys = IF "buy" \in own THEN {o \in @ : o.id # id} ELSE @,
                      !.sells = IF "sell" \in own THEN {o \in @ : o.id # id} ELSE @]
    BY <2>1 DEF ServeCancel
  <2> HIDE DEF own
  <2>3. PICK l2, b2, s2 :
          /\ l2 = {x \in l : x.id # id}
          /\ b2 = IF "buy" \in own THEN {o \in ShownBook(buys) : o.id # id} ELSE ShownBook(buys)
          /\ s2 = IF "sell" \in own THEN {o \in ShownBook(sells) : o.id # id}
                                    ELSE ShownBook(sells)
    OBVIOUS
  <2>4. ServeCancel(e, id) = Changed(e, l2, b2, s2)
    <3>1. e.live = l
      BY <1>14
    <3> QED BY <2>1, <2>2, <2>3, <3>1 DEF Changed
  <2>5. Changed(e, l2, b2, s2)
          = [buys |-> b2, sells |-> s2, live |-> l2, fills |-> fills]
    BY <1>14, EngineChanged
  <2> QED BY <2>3, <2>4, <2>5
<1> HIDE DEF own
<1>16. ServeCancel(e, id) = [buys |-> ShownBook(buys)', sells |-> ShownBook(sells)',
                             live |-> ShownDict', fills |-> fills]
  BY <1>10, <1>11, <1>12, <1>13, <1>14, <1>15
<1>17. ShownEngine' = [buys |-> ShownBook(buys)', sells |-> ShownBook(sells)',
                       live |-> ShownDict', fills |-> fills]
  BY <1>1 DEF ShownEngine
<1> QED BY <1>4, <1>14, <1>16, <1>17

LEMMA InitAgrees == BothInit => AgreeInv
PROOF
<1> SUFFICES ASSUME BothInit PROVE AgreeInv
  OBVIOUS
<1>1. /\ buys = <<>> /\ sells = <<>> /\ fills = <<>> /\ incoming = 0
      /\ contestant = EmptyEngine /\ intact = TRUE
  BY DEF BothInit, Init
<1>2. IsHeap(<<>>) /\ InBook(<<>>) = {}
  BY DEF IsHeap, InBook
<1>3. ShownBook(buys) = {} /\ ShownBook(sells) = {} /\ ShownDict = {}
  BY <1>1, <1>2 DEF ShownBook, ShownDict, Resting
<1>4. ShownEngine = EmptyEngine
  BY <1>1, <1>3 DEF ShownEngine, EmptyEngine
<1> QED BY <1>1, <1>2, <1>4 DEF AgreeInv

LEMMA AgreeStutter ==
  ASSUME AgreeInv, UNCHANGED bothVars
  PROVE  AgreeInv'
PROOF
<1>1. UNCHANGED <<objs, orders, buys, sells, fills, incoming, withdrawn, contestant, intact>>
  BY DEF bothVars, vars
<1>2. ShownEngine' = ShownEngine /\ ShownState' = ShownState
  BY <1>1 DEF ShownState, ShownEngine, ShownBook, ShownDict, Shown, Resting, InBook
<1>3. Ahead(ShownState)' = Ahead(ShownState)
  BY <1>1, <1>2 DEF Ahead
<1>4. IdsUsedOnce' = IdsUsedOnce
  BY <1>1, SameListed
<1> QED BY <1>1, <1>2, <1>3, <1>4 DEF AgreeInv

LEMMA AgreeStep == TypeOK /\ BookInv /\ AgreeInv /\ [BothNext]_bothVars => AgreeInv'
PROOF
<1> SUFFICES ASSUME TypeOK, BookInv, AgreeInv, [BothNext]_bothVars PROVE AgreeInv'
  OBVIOUS
<1>1. CASE BothNext /\ (AddLimit \/ AddMarket) /\ SameOrder
  <2>1. PICK id \in Ids, side \in Sides, price \in Nat, qty \in Quantities :
          Add(id, side, price, qty)
    BY <1>1, AddIsTyped
  <2> QED BY <1>1, <2>1, AddAgrees
<1>2. CASE BothNext /\ Step /\ UNCHANGED contestant
  BY <1>2, DiscardAgrees, MatchAgrees, SettleAgrees DEF Step
<1>3. CASE BothNext /\ \E id \in Ids : Cancel(id) /\ contestant' = ServeCancel(contestant, id)
  BY <1>3, CancelAgrees
<1>4. CASE UNCHANGED bothVars
  BY <1>4, AgreeStutter
<1> QED BY <1>1, <1>2, <1>3, <1>4 DEF BothNext

LEMMA AgreeMeans == TypeOK /\ BookInv /\ AgreeInv => SameOutcome
PROOF
<1>1. SUFFICES ASSUME TypeOK, BookInv, AgreeInv, incoming = 0, intact, IdsUsedOnce
               PROVE  /\ fills = contestant.fills
                      /\ {<<h, objs[h].qty>> : h \in Resting}
                           = {<<o.ts, o.qty>> : o \in contestant.buys \cup contestant.sells}
  BY DEF SameOutcome
<1>2. /\ contestant.buys = {Shown(h) : h \in InBook(buys)}
      /\ contestant.sells = {Shown(h) : h \in InBook(sells)}
      /\ contestant.fills = fills
  BY <1>1 DEF AgreeInv, ShownEngine, ShownBook
<1>3. contestant.buys \cup contestant.sells = {Shown(h) : h \in Resting}
  BY <1>2 DEF Resting
<1>4. {<<o.ts, o.qty>> : o \in {Shown(h) : h \in Resting}} = {<<h, objs[h].qty>> : h \in Resting}
  <2>1. \A h : Shown(h).ts = h /\ Shown(h).qty = objs[h].qty
    BY DEF Shown
  <2> QED BY <2>1
<1> QED BY <1>2, <1>3, <1>4

\* As long as the reference's lists are heaps and ids are used once, the two engines
\* end every call with the same fills in the same order and the same orders left, for
\* any number of orders, prices and quantities, and with cancels.
THEOREM EnginesAgree == BothSpec => []SameOutcome
PROOF
<1>1. BothInit => Init
  BY DEF BothInit
<1>2. [BothNext]_bothVars => [Next]_vars
  BY DEF BothNext, bothVars, Next
<1>3. BothSpec => Spec
  BY <1>1, <1>2, PTL DEF BothSpec, Spec
<1>4. BothSpec => []TypeOK /\ []BookInv
  BY <1>3, TypeCorrect, BooksAgree, PTL
<1>5. BothSpec => []AgreeInv
  BY <1>4, InitAgrees, AgreeStep, PTL DEF BothSpec
<1> QED BY <1>4, <1>5, AgreeMeans, PTL
=============================================================================
