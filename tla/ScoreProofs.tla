---------------------------- MODULE ScoreProofs ----------------------------
(***************************************************************************)
(* Theorems about the way to a score: what an honest contestant's fills    *)
(* are compared with (CorrectnessPipeline), and the formula (Scoring).     *)
(***************************************************************************)
EXTENDS LiveBoard, MCScoring, OperatorProofs

---------------------------------------------------------------------------
(* The engine that has served the bot's first n orders, for every n. *)

OrderOf(slots, n) ==
  LET slot == ((n - 1) % slots) + 1
  IN [id |-> n, side |-> IF slot % 2 = 0 THEN "buy" ELSE "sell",
      price |-> 100 + (slot % 10), qty |-> 1, ts |-> n]

\* Fills are only ever added.
Extends(longer, shorter) ==
  /\ DOMAIN shorter \subseteq DOMAIN longer
  /\ \A i \in DOMAIN shorter : longer[i] = shorter[i]

IsLog(log, slots) ==
  /\ log[0] = EmptyEngine
  /\ \A n \in Nat : /\ log[n] \in EnginesOf(Nat, n)
                    /\ log[n + 1] = ServeOrder(log[n], OrderOf(slots, n + 1))
                    /\ Extends(log[n + 1].fills, log[n].fills)

LEMMA OrderArrives ==
  ASSUME NEW slots \in Nat \ {0}, NEW n \in Nat
  PROVE  OrderOf(slots, n + 1) \in ArrivedOrders(Nat, n + 1) /\ OrderOf(slots, n + 1).ts = n + 1
PROOF
<1> DEFINE slot == (((n + 1) - 1) % slots) + 1
<1>1. slot \in Nat
  OBVIOUS
<1>2. OrderOf(slots, n + 1) = [id |-> n + 1, side |-> IF slot % 2 = 0 THEN "buy" ELSE "sell",
                               price |-> 100 + (slot % 10), qty |-> 1, ts |-> n + 1]
  BY DEF OrderOf
<1> HIDE DEF slot
<1>3. 100 + (slot % 10) \in Nat
  BY <1>1
<1> QED BY <1>2, <1>3 DEF ArrivedOrders

LEMMA EmptyIsAnEngine == EmptyEngine \in EnginesOf(Nat, 0)
PROOF
<1>1. {} \in BooksOf(Nat, 0)
  BY FS_EmptySet DEF BooksOf, NoneTogether
<1>2. <<>> \in Seq(ArrivedFills(0))
  OBVIOUS
<1>3. {} \in SUBSET [id : Nat, side : {"buy", "sell"}]
  OBVIOUS
<1>4. SUFFICES ASSUME NEW b \in BooksOf(Nat, 0), NEW f \in Seq(ArrivedFills(0)),
                      NEW l \in SUBSET [id : Nat, side : {"buy", "sell"}]
               PROVE  [buys |-> b, sells |-> b, live |-> l, fills |-> f] \in EnginesOf(Nat, 0)
  BY <1>1, <1>2, <1>3 DEF EmptyEngine
<1> QED BY DEF EnginesOf

LEMMA LogExists ==
  ASSUME NEW slots \in Nat \ {0}
  PROVE  \E log : IsLog(log, slots)
PROOF
<1> DEFINE W == UNION {EnginesOf(Nat, n) : n \in Nat}
           move == [n \in Nat |-> [e \in W |-> IF e \in EnginesOf(Nat, n)
                                               THEN ServeOrder(e, OrderOf(slots, n + 1))
                                               ELSE EmptyEngine]]
<1>1. EmptyEngine \in EnginesOf(Nat, 0)
  BY EmptyIsAnEngine
<1>2. \A n \in Nat : \A e \in EnginesOf(Nat, n) :
        /\ ServeOrder(e, OrderOf(slots, n + 1)) \in EnginesOf(Nat, n + 1)
        /\ Extends(ServeOrder(e, OrderOf(slots, n + 1)).fills, e.fills)
  BY OrderArrives, ServeFacts DEF Extends
<1>3. /\ EmptyEngine \in W /\ move \in [Nat -> [W -> W]]
      /\ \A n \in Nat : \A e \in EnginesOf(Nat, n) :
           move[n][e] = ServeOrder(e, OrderOf(slots, n + 1))
  <2>1. \A n \in Nat : EnginesOf(Nat, n) \subseteq W
    OBVIOUS
  <2>2. EmptyEngine \in W
    BY <1>1
  <2> HIDE DEF W
  <2>3. \A n \in Nat : n + 1 \in Nat
    OBVIOUS
  <2>4. \A n \in Nat : \A e \in EnginesOf(Nat, n) : ServeOrder(e, OrderOf(slots, n + 1)) \in W
    BY <1>2, <2>1, <2>3
  <2> QED BY <2>1, <2>2, <2>4
<1> HIDE DEF W, move
<1>4. PICK log : GoesBy(log, W, EmptyEngine, move)
  BY <1>3, NatRecursion
<1>5. log[0] = EmptyEngine /\ \A n \in Nat : log[n + 1] = move[n][log[n]]
  BY <1>4 DEF GoesBy
<1> DEFINE N == {n \in Nat : log[n] \in EnginesOf(Nat, n)}
<1>6. Nat \subseteq N
  <2>1. 0 \in N
    BY <1>1, <1>5
  <2>2. \A n \in Nat : n \in N => n + 1 \in N
    BY <1>2, <1>3, <1>5
  <2> HIDE DEF N
  <2> QED BY <2>1, <2>2, NatSetInduction
<1>7. \A n \in Nat : log[n] \in EnginesOf(Nat, n)
  BY <1>6
<1>8. \A n \in Nat : log[n + 1] = ServeOrder(log[n], OrderOf(slots, n + 1))
  BY <1>3, <1>5, <1>7
<1>9. \A n \in Nat : Extends(log[n + 1].fills, log[n].fills)
  BY <1>2, <1>7, <1>8
<1>10. IsLog(log, slots)
  BY <1>5, <1>7, <1>8, <1>9 DEF IsLog
<1> QED BY <1>10

\* What has been filled after j orders has been after k, if that is no fewer.
LEMMA LogGrows ==
  ASSUME NEW log, NEW slots, IsLog(log, slots), NEW j \in Nat, NEW k \in Nat
  PROVE  Extends(log[j + k].fills, log[j].fills)
PROOF
<1> DEFINE N == {n \in Nat : Extends(log[j + n].fills, log[j].fills)}
<1>1. 0 \in N
  <2>1. j + 0 = j
    OBVIOUS
  <2> QED BY <2>1 DEF Extends
<1>2. \A n \in Nat : n \in N => n + 1 \in N
  <2>1. SUFFICES ASSUME NEW n \in Nat, Extends(log[j + n].fills, log[j].fills)
                 PROVE  Extends(log[j + (n + 1)].fills, log[j].fills)
    OBVIOUS
  <2>2. j + n \in Nat /\ j + (n + 1) = (j + n) + 1
    OBVIOUS
  <2>3. Extends(log[(j + n) + 1].fills, log[j + n].fills)
    BY <2>2 DEF IsLog
  <2>4. Extends(log[j + (n + 1)].fills, log[j + n].fills)
    BY <2>2, <2>3
  <2> QED BY <2>1, <2>4 DEF Extends
<1>3. Nat \subseteq N
  <2> HIDE DEF N
  <2> QED BY <1>1, <1>2, NatSetInduction
<1> QED BY <1>3

\* So what has been filled after j orders and what after k agree.
LEMMA LogAgrees ==
  ASSUME NEW log, NEW slots, IsLog(log, slots), NEW j \in Nat, NEW k \in Nat,
         NEW i \in DOMAIN log[j].fills, i \in DOMAIN log[k].fills
  PROVE  log[j].fills[i] = log[k].fills[i]
PROOF
<1>1. CASE j <= k
  <2>1. k - j \in Nat /\ j + (k - j) = k
    BY <1>1
  <2> QED BY <2>1, LogGrows DEF Extends
<1>2. CASE k <= j
  <2>1. j - k \in Nat /\ k + (j - k) = j
    BY <1>2
  <2> QED BY <2>1, LogGrows DEF Extends
<1> QED BY <1>1, <1>2

---------------------------------------------------------------------------
(* What becomes of the orders that are sent, with and without losses. *)

\* The orders 1 to the last one, in this order.
Numbers(stream) == Len(stream) \in Nat /\ stream = [i \in 1..Len(stream) |-> i]

\* A test sends its orders and no others, and has nothing to wait for when it has ended.
SentInv ==
  /\ setup \in Setup /\ test \in Nat \ {0} /\ ended \in 0..test /\ sent \in Nat
  /\ waiting \in Nat /\ lossAt \in 0..test
  /\ sent + Slots >= LastOrder
  /\ ended = test => sent = LastOrder /\ waiting = 0 /\ unanswered = {}

\* Up to the first test with a loss, the contestant has served the first orders.  The
\* acks of the next ones are still to be read, those of the last ones never are.
DeliveryInv ==
  /\ Numbers(served)
  /\ \E last \in Len(served)..sent :
       /\ unanswered = Len(served) + 1 .. last
       /\ orphaned \subseteq last + 1 .. sent
       /\ connected /\ ended # test => last = sent
  /\ \A n \in unanswered \cup orphaned : n + Slots > LastOrder
  /\ lossAt = 0 => Len(served) + waiting = sent

LinkInv == SentInv /\ (Unbroken => DeliveryInv)

\* The variables it is about.
linkVars == <<testVars, sent, link, served, lossAt>>

LEMMA LinkInit == Init => LinkInv
PROOF
<1> SUFFICES ASSUME Init PROVE LinkInv
  OBVIOUS
<1>1. setup \in Setup /\ Slots \in Nat \ {0} /\ test = 1 /\ ended = 0 /\ sent = 0
  BY SetupsAssumption DEF Init, Setup, Slots
<1>2. LastOrder = Slots
  BY <1>1 DEF LastOrder
<1>3. SentInv
  BY <1>1, <1>2 DEF Init, SentInv
<1>4. Len(<<>>) = 0 /\ 1..0 = {} /\ <<>> = [i \in 1..0 |-> i]
  OBVIOUS
<1>5. 0 \in Len(served)..sent /\ unanswered = Len(served) + 1 .. 0 /\ orphaned = {}
      /\ Len(served) = 0 /\ Numbers(served) /\ waiting = 0
  BY <1>1, <1>4 DEF Init, Numbers
<1>6. DeliveryInv
  BY <1>1, <1>5 DEF DeliveryInv
<1> QED BY <1>3, <1>6 DEF LinkInv

LEMMA LinkStutters == LinkInv /\ UNCHANGED linkVars => LinkInv'
PROOF BY DEF LinkInv, SentInv, DeliveryInv, Unbroken, linkVars, testVars, link, Slots, LastOrder

LEMMA NumbersGrow ==
  ASSUME NEW stream, Numbers(stream)
  PROVE  /\ Numbers(Append(stream, Len(stream) + 1)) /\ stream \in Seq(Nat)
         /\ Len(Append(stream, Len(stream) + 1)) = Len(stream) + 1
PROOF
<1> DEFINE n == Len(stream)
<1>1. n \in Nat /\ stream = [i \in 1..n |-> i]
  BY DEF Numbers
<1>2. stream \in Seq(Nat)
  <2>1. \A i \in 1..n : i \in Nat
    OBVIOUS
  <2> HIDE DEF n
  <2> QED BY <1>1, <2>1
<1> DEFINE longer == Append(stream, n + 1)
<1>3. Len(longer) = n + 1 /\ longer \in Seq(Nat)
  BY <1>1, <1>2
<1>4. \A i \in 1..(n + 1) : longer[i] = i
  BY <1>1, <1>2
<1>5. longer = [i \in 1..(n + 1) |-> i]
  BY <1>3, <1>4
<1> QED BY <1>1, <1>2, <1>3, <1>5 DEF Numbers

\* The orders as numbers, for steps that leave the test alone.
LEMMA TestStays ==
  ASSUME LinkInv, UNCHANGED testVars
  PROVE  /\ Slots \in Nat \ {0} /\ LastOrder \in Nat /\ Slots' = Slots /\ LastOrder' = LastOrder
         /\ SentInv /\ (Unbroken => DeliveryInv)
PROOF
<1>1. setup \in Setup /\ test \in Nat
  BY DEF LinkInv, SentInv
<1>2. Slots \in Nat \ {0}
  BY <1>1 DEF Setup, Slots
<1>3. LastOrder \in Nat
  BY <1>1, <1>2 DEF LastOrder
<1> QED BY <1>2, <1>3 DEF LinkInv, testVars, Slots, LastOrder

\* A loss in the test that runs is none in an earlier one.
LEMMA LossIsNoted ==
  ASSUME LinkInv, UNCHANGED testVars, NoteLoss
  PROVE  lossAt' \in 0..test /\ lossAt' # 0 /\ (Unbroken' => Unbroken)
PROOF BY DEF LinkInv, SentInv, testVars, NoteLoss, Unbroken

LEMMA SendLinks == LinkInv /\ (SendOrder \/ SendFails) => LinkInv'
PROOF
<1> SUFFICES ASSUME LinkInv, SendOrder \/ SendFails PROVE LinkInv'
  OBVIOUS
<1>1. /\ UNCHANGED <<setup, test, ended, connected, orphaned, served>>
      /\ sent < LastOrder /\ sent' = sent + 1
  BY DEF SendOrder, SendFails, testVars, link, contestantVars
<1>2. /\ Slots \in Nat \ {0} /\ LastOrder \in Nat /\ Slots' = Slots /\ LastOrder' = LastOrder
      /\ SentInv /\ (Unbroken => DeliveryInv)
  BY <1>1, TestStays DEF testVars
<1>3. ended # test /\ sent \in Nat /\ sent + Slots >= LastOrder
  BY <1>1, <1>2 DEF SentInv
<1>4. CASE SendOrder
  <2>1. /\ connected /\ waiting' = waiting + 1 /\ unanswered' = unanswered \cup {sent + 1}
        /\ lossAt' = lossAt
    BY <1>4 DEF SendOrder
  <2>2. SentInv'
    BY <1>1, <1>2, <1>3, <2>1 DEF SentInv
  <2>3. ASSUME Unbroken' PROVE DeliveryInv'
    <3>1. DeliveryInv
      BY <1>1, <1>2, <2>1, <2>3 DEF Unbroken
    <3>2. /\ Len(served) \in Nat /\ sent \in Len(served)..sent
          /\ unanswered = Len(served) + 1 .. sent /\ orphaned \subseteq sent + 1 .. sent
      BY <1>3, <2>1, <3>1 DEF DeliveryInv, Numbers
    <3>3. orphaned = {} /\ unanswered' = Len(served) + 1 .. sent + 1
      BY <1>3, <2>1, <3>2
    <3>4. sent + 1 \in Len(served)..(sent + 1)
      BY <1>3, <3>2
    <3>5. \A n \in unanswered' \cup orphaned' : n + Slots > LastOrder
      BY <1>1, <1>2, <1>3, <2>1, <3>1, <3>3 DEF DeliveryInv
    <3>6. lossAt = 0 => Len(served) + waiting' = sent + 1
      BY <1>2, <1>3, <2>1, <3>1, <3>2 DEF DeliveryInv, SentInv
    <3> QED BY <1>1, <1>2, <2>1, <3>1, <3>3, <3>4, <3>5, <3>6 DEF DeliveryInv
  <2> QED BY <2>2, <2>3 DEF LinkInv
<1>5. CASE SendFails
  <2>1. UNCHANGED <<waiting, unanswered>> /\ ~connected /\ NoteLoss
    BY <1>5 DEF SendFails, link
  <2>2. lossAt' \in 0..test /\ lossAt' # 0 /\ (Unbroken' => Unbroken)
    BY <1>1, <2>1, LossIsNoted DEF testVars
  <2>3. SentInv'
    BY <1>1, <1>2, <1>3, <2>1, <2>2 DEF SentInv
  <2>4. ASSUME Unbroken' PROVE DeliveryInv'
    <3>1. DeliveryInv /\ Len(served) \in Nat
      BY <1>2, <2>2, <2>4 DEF DeliveryInv, Numbers
    <3>2. PICK last \in Len(served)..sent : /\ unanswered = Len(served) + 1 .. last
                                            /\ orphaned \subseteq last + 1 .. sent
      BY <3>1 DEF DeliveryInv
    <3>3. last \in Len(served)..(sent + 1) /\ orphaned \subseteq last + 1 .. (sent + 1)
      BY <1>3, <3>1, <3>2
    <3> QED BY <1>1, <1>2, <2>1, <2>2, <3>1, <3>2, <3>3 DEF DeliveryInv
  <2> QED BY <2>3, <2>4 DEF LinkInv
<1> QED BY <1>4, <1>5

\* The oldest order whose ack is to be read is the one after those served.
LEMMA OldestIsNext ==
  ASSUME LinkInv, Unbroken, NEW n \in unanswered, \A o \in unanswered : n <= o
  PROVE  Numbers(served) /\ Len(served) \in Nat /\ n = Len(served) + 1
PROOF
<1>1. DeliveryInv /\ sent \in Nat
  BY DEF LinkInv, SentInv
<1>2. Numbers(served) /\ Len(served) \in Nat
  BY <1>1 DEF DeliveryInv, Numbers
<1>3. PICK last \in Len(served)..sent : unanswered = Len(served) + 1 .. last
  BY <1>1 DEF DeliveryInv
<1> QED BY <1>1, <1>2, <1>3

LEMMA RespondLinks == LinkInv /\ RecordResponse => LinkInv'
PROOF
<1> SUFFICES ASSUME LinkInv, RecordResponse PROVE LinkInv'
  OBVIOUS
<1>1. /\ UNCHANGED <<setup, test, ended, sent, connected, orphaned, lossAt>>
      /\ waiting > 0 /\ waiting' = waiting - 1
  BY DEF RecordResponse, testVars
<1>2. /\ Slots \in Nat \ {0} /\ LastOrder \in Nat /\ Slots' = Slots /\ LastOrder' = LastOrder
      /\ SentInv /\ (Unbroken => DeliveryInv)
  BY <1>1, TestStays DEF testVars
<1>3. PICK n \in unanswered : /\ \A o \in unanswered : n <= o
                              /\ served' = Append(served, n) /\ unanswered' = unanswered \ {n}
  BY DEF RecordResponse, Serve
<1>4. SentInv'
  <2>1. waiting' \in Nat /\ ended # test
    BY <1>1, <1>2 DEF SentInv
  <2> QED BY <1>1, <1>2, <2>1 DEF SentInv
<1>5. ASSUME Unbroken' PROVE DeliveryInv'
  <2>1. Unbroken /\ DeliveryInv
    BY <1>1, <1>2, <1>5 DEF Unbroken
  <2>2. Numbers(served) /\ Len(served) \in Nat /\ n = Len(served) + 1
    BY <1>3, <2>1, OldestIsNext
  <2>3. Numbers(served') /\ Len(served') = Len(served) + 1
    BY <1>3, <2>2, NumbersGrow
  <2>4. PICK last \in Len(served)..sent : /\ unanswered = Len(served) + 1 .. last
                                          /\ orphaned \subseteq last + 1 .. sent
                                          /\ connected /\ ended # test => last = sent
    BY <2>1 DEF DeliveryInv
  <2>5. last \in Len(served')..sent /\ unanswered' = Len(served') + 1 .. last
    BY <1>2, <1>3, <2>2, <2>3, <2>4 DEF SentInv
  <2>6. lossAt = 0 => Len(served') + waiting' = sent
    BY <1>1, <1>2, <2>1, <2>2, <2>3 DEF DeliveryInv, SentInv
  <2>7. \A k \in unanswered' \cup orphaned' : k + Slots > LastOrder
    BY <1>1, <1>3, <2>1 DEF DeliveryInv
  <2> QED BY <1>1, <1>2, <2>3, <2>4, <2>5, <2>6, <2>7 DEF DeliveryInv
<1> QED BY <1>4, <1>5 DEF LinkInv

LEMMA LossLinks == LinkInv /\ (RecordNothing \/ AckTimesOut) => LinkInv'
PROOF
<1> SUFFICES ASSUME LinkInv, RecordNothing \/ AckTimesOut PROVE LinkInv'
  OBVIOUS
<1>1. /\ UNCHANGED <<setup, test, ended, sent, connected, unanswered, orphaned, served>>
      /\ waiting > 0 /\ waiting' = waiting - 1 /\ NoteLoss
  BY DEF RecordNothing, AckTimesOut, testVars, contestantVars
<1>2. /\ Slots \in Nat \ {0} /\ LastOrder \in Nat /\ Slots' = Slots /\ LastOrder' = LastOrder
      /\ SentInv /\ (Unbroken => DeliveryInv)
  BY <1>1, TestStays DEF testVars
<1>3. lossAt' \in 0..test /\ lossAt' # 0 /\ (Unbroken' => Unbroken)
  BY <1>1, LossIsNoted DEF testVars
<1>4. SentInv'
  <2>1. waiting' \in Nat /\ ended # test
    BY <1>1, <1>2 DEF SentInv
  <2> QED BY <1>1, <1>2, <1>3, <2>1 DEF SentInv
<1>5. ASSUME Unbroken' PROVE DeliveryInv'
  BY <1>1, <1>2, <1>3, <1>5 DEF DeliveryInv
<1> QED BY <1>4, <1>5 DEF LinkInv

LEMMA BreakLinks == LinkInv /\ ConnectionBreaks => LinkInv'
PROOF
<1> SUFFICES ASSUME LinkInv, ConnectionBreaks PROVE LinkInv'
  OBVIOUS
<1>1. UNCHANGED <<setup, test, ended, sent, waiting, served, lossAt>> /\ connected' = FALSE
  BY DEF ConnectionBreaks, testVars, contestantVars
<1>2. /\ Slots \in Nat \ {0} /\ LastOrder \in Nat /\ Slots' = Slots /\ LastOrder' = LastOrder
      /\ SentInv /\ (Unbroken => DeliveryInv)
  BY <1>1, TestStays DEF testVars
<1>3. PICK lost \in SUBSET unanswered : /\ \A n \in lost, o \in unanswered \ lost : o < n
                                        /\ unanswered' = unanswered \ lost
                                        /\ orphaned' = orphaned \cup lost
  BY DEF ConnectionBreaks
<1>4. SentInv'
  BY <1>1, <1>2, <1>3 DEF SentInv
<1>5. ASSUME Unbroken' PROVE DeliveryInv'
  <2>1. DeliveryInv
    BY <1>1, <1>2, <1>5 DEF Unbroken
  <2>2. Numbers(served) /\ Len(served) \in Nat /\ sent \in Nat
    BY <1>2, <2>1 DEF DeliveryInv, Numbers, SentInv
  <2>3. PICK last \in Len(served)..sent : /\ unanswered = Len(served) + 1 .. last
                                          /\ orphaned \subseteq last + 1 .. sent
    BY <2>1 DEF DeliveryInv
  <2>4. PICK k \in Len(served)..sent : /\ unanswered' = Len(served) + 1 .. k
                                       /\ orphaned' \subseteq k + 1 .. sent
    <3>1. CASE lost = {}
      BY <1>3, <2>3, <3>1
    <3>2. CASE lost # {}
      <4>1. lost \subseteq Nat
        BY <2>2, <2>3
      <4>2. PICK l \in lost : \A n \in lost : l <= n
        BY <3>2, <4>1, LeastNumber
      <4>3. l \in Nat /\ l >= Len(served) + 1 /\ l <= last /\ last <= sent /\ last \in Nat
        BY <2>2, <2>3, <4>1
      <4>4. l - 1 \in Len(served)..sent
        BY <2>2, <4>3
      <4>5. \A n \in unanswered \ lost : n \in Len(served) + 1 .. l - 1
        BY <1>3, <2>2, <2>3, <4>3
      <4>6. \A n \in Len(served) + 1 .. l - 1 : n \in unanswered /\ n \notin lost
        BY <2>2, <2>3, <4>2, <4>3
      <4>7. \A n \in orphaned \cup lost : n \in (l - 1) + 1 .. sent
        BY <2>2, <2>3, <4>2, <4>3
      <4> QED BY <1>3, <4>4, <4>5, <4>6, <4>7
    <3> QED BY <3>1, <3>2
  <2>5. \A n \in unanswered' \cup orphaned' : n + Slots > LastOrder
    BY <1>3, <2>1 DEF DeliveryInv
  <2> QED BY <1>1, <1>2, <2>1, <2>4, <2>5 DEF DeliveryInv
<1> QED BY <1>4, <1>5 DEF LinkInv

\* No order of an earlier test is to be served while nothing has been lost in one.
LEMMA NoOrphanServed == LinkInv /\ Unbroken => ~ServeOrphan
PROOF
<1> SUFFICES ASSUME LinkInv, Unbroken, ServeOrphan PROVE FALSE
  OBVIOUS
<1>1. /\ Slots \in Nat \ {0} /\ LastOrder \in Nat /\ SentInv /\ DeliveryInv
  BY TestStays DEF ServeOrphan
<1>2. PICK n \in orphaned : n <= LastOrder - Slots
  BY DEF ServeOrphan
<1>3. n + Slots > LastOrder
  BY <1>1, <1>2 DEF DeliveryInv
<1>4. n \in Nat
  <2>1. PICK last \in Len(served)..sent : orphaned \subseteq last + 1 .. sent
    BY <1>1 DEF DeliveryInv
  <2>2. last \in Int /\ n \in Int /\ n > last /\ last >= Len(served) /\ Len(served) \in Nat
    BY <1>1, <1>2, <2>1 DEF SentInv, DeliveryInv, Numbers
  <2> QED BY <2>2
<1> QED BY <1>1, <1>2, <1>3, <1>4

LEMMA OrphanLinks == LinkInv /\ ServeOrphan => LinkInv'
PROOF
<1> SUFFICES ASSUME LinkInv, ServeOrphan PROVE LinkInv'
  OBVIOUS
<1>1. UNCHANGED <<setup, test, ended, sent, connected, waiting, unanswered, lossAt>>
  BY DEF ServeOrphan, testVars
<1>2. SentInv'
  BY <1>1 DEF LinkInv, SentInv, Slots, LastOrder
<1>3. ~Unbroken'
  BY <1>1, NoOrphanServed DEF Unbroken
<1> QED BY <1>2, <1>3 DEF LinkInv

LEMMA EndLinks == LinkInv /\ CompleteTest => LinkInv'
PROOF
<1> SUFFICES ASSUME LinkInv, CompleteTest PROVE LinkInv'
  OBVIOUS
<1>1. /\ UNCHANGED <<setup, test, sent, connected, waiting, served, lossAt>>
      /\ ended < test /\ ended' = test /\ sent = LastOrder /\ waiting = 0
      /\ unanswered' = {} /\ orphaned' = orphaned \cup unanswered
  BY DEF CompleteTest, contestantVars
<1>2. /\ setup \in Setup /\ test \in Nat \ {0} /\ sent \in Nat /\ SentInv
      /\ Slots' = Slots /\ LastOrder' = LastOrder
  BY <1>1 DEF LinkInv, SentInv, Slots, LastOrder
<1>3. SentInv'
  BY <1>1, <1>2 DEF SentInv
<1>4. ASSUME Unbroken' PROVE DeliveryInv'
  <2>1. DeliveryInv
    BY <1>1, <1>4 DEF LinkInv, Unbroken
  <2>2. Numbers(served) /\ Len(served) \in Nat
    BY <2>1 DEF DeliveryInv, Numbers
  <2>3. PICK last \in Len(served)..sent : /\ unanswered = Len(served) + 1 .. last
                                          /\ orphaned \subseteq last + 1 .. sent
    BY <2>1 DEF DeliveryInv
  <2>4. /\ Len(served) \in Len(served)..sent /\ unanswered' = Len(served) + 1 .. Len(served)
        /\ orphaned' \subseteq Len(served) + 1 .. sent
    <3>1. last \in Int /\ Len(served) <= last /\ last <= sent /\ Len(served) <= sent
      BY <1>2, <2>2, <2>3
    <3>2. \A n \in orphaned \cup unanswered : n \in Len(served) + 1 .. sent
      BY <1>2, <2>2, <2>3, <3>1
    <3>3. Len(served) + 1 .. Len(served) = {}
      BY <2>2
    <3> QED BY <1>1, <1>2, <2>2, <3>1, <3>2, <3>3
  <2>5. \A n \in unanswered' \cup orphaned' : n + Slots > LastOrder
    BY <1>1, <2>1 DEF DeliveryInv
  <2> QED BY <1>1, <1>2, <2>1, <2>4, <2>5 DEF DeliveryInv
<1> QED BY <1>3, <1>4 DEF LinkInv

\* A test that follows one without losses begins where that one ended.
LEMMA StartLinks == LinkInv /\ StartAgain => LinkInv'
PROOF
<1> SUFFICES ASSUME LinkInv, StartAgain PROVE LinkInv'
  OBVIOUS
<1>1. /\ UNCHANGED <<setup, ended, sent, waiting, unanswered, orphaned, served, lossAt>>
      /\ ended = test /\ test' = test + 1
  BY DEF StartAgain, contestantVars
<1>2. /\ setup \in Setup /\ test \in Nat \ {0} /\ SentInv /\ (Unbroken => DeliveryInv)
      /\ sent \in Nat /\ waiting = 0 /\ unanswered = {} /\ sent = LastOrder /\ lossAt \in 0..test
  BY <1>1 DEF LinkInv, SentInv
<1>3. Slots \in Nat \ {0} /\ Slots' = Slots /\ LastOrder = Slots * test
      /\ LastOrder' = Slots * (test + 1)
  BY <1>1, <1>2 DEF Setup, Slots, LastOrder
<1>4. Slots * (test + 1) = Slots * test + Slots
  BY <1>2, <1>3
<1>5. LastOrder' = sent + Slots
  BY <1>2, <1>3, <1>4
<1>6. SentInv'
  BY <1>1, <1>2, <1>3, <1>5 DEF SentInv
<1>7. ASSUME Unbroken' PROVE DeliveryInv'
  <2>1. lossAt = 0 /\ Unbroken
    BY <1>1, <1>2, <1>7 DEF Unbroken
  <2>2. DeliveryInv /\ Numbers(served) /\ Len(served) \in Nat /\ Len(served) = sent
    <3>1. DeliveryInv
      BY <1>2, <2>1
    <3>2. Numbers(served) /\ Len(served) + waiting = sent
      BY <2>1, <3>1 DEF DeliveryInv
    <3>3. Len(served) \in Nat
      BY <3>2 DEF Numbers
    <3>4. Len(served) = sent
      BY <1>2, <3>2, <3>3
    <3> QED BY <3>1, <3>2, <3>3, <3>4
  <2>3. orphaned = {}
    <3>1. PICK last \in Len(served)..sent : orphaned \subseteq last + 1 .. sent
      BY <2>2 DEF DeliveryInv
    <3> QED BY <1>2, <2>2, <3>1
  <2>4. sent \in Len(served)..sent /\ unanswered = Len(served) + 1 .. sent
    BY <1>2, <2>2
  <2>5. Len(served) + waiting = sent
    BY <2>1, <2>2 DEF DeliveryInv
  <2> QED BY <1>1, <1>2, <2>2, <2>3, <2>4, <2>5 DEF DeliveryInv
<1> QED BY <1>6, <1>7 DEF LinkInv

LEMMA LinkNext == LinkInv /\ [Next]_vars => LinkInv'
PROOF
<1> SUFFICES ASSUME LinkInv, [Next]_vars PROVE LinkInv'
  OBVIOUS
<1>1. CASE SendOrder \/ SendFails
  BY <1>1, SendLinks
<1>2. CASE RecordResponse
  BY <1>2, RespondLinks
<1>3. CASE RecordNothing \/ AckTimesOut
  BY <1>3, LossLinks
<1>4. CASE ConnectionBreaks
  BY <1>4, BreakLinks
<1>5. CASE ServeOrphan
  BY <1>5, OrphanLinks
<1>6. CASE CompleteTest
  BY <1>6, EndLinks
<1>7. CASE StartAgain
  BY <1>7, StartLinks
<1>8. CASE OrderLands \/ FillLands \/ EventLands \/ MarkTest
  <2>1. UNCHANGED linkVars
    BY <1>8 DEF OrderLands, FillLands, EventLands, MarkTest, linkVars, contestantVars
  <2> QED BY <2>1, LinkStutters
<1>9. CASE Poll \/ LengthUnknown \/ ValidationFails
  <2>1. UNCHANGED linkVars
    BY <1>9 DEF Poll, ReadStatus, ReadLength, LengthUnknown, ReadOrders, ReplayOrder, EndReplay,
                ReadFills, ReadEvents, StoreRate, StoreSummary, Remember, ValidationFails, botVars,
                linkVars, contestantVars
  <2> QED BY <2>1, LinkStutters
<1>10. CASE UNCHANGED vars
  <2>1. UNCHANGED linkVars
    BY <1>10 DEF vars, botVars, linkVars, contestantVars
  <2> QED BY <2>1, LinkStutters
<1> QED
  BY <1>1, <1>2, <1>3, <1>4, <1>5, <1>6, <1>7, <1>8, <1>9, <1>10 DEF Next, Bot, Trouble

---------------------------------------------------------------------------
(* With writes in order, all that is read of the streams is the head of the log. *)

\* The head of what has been filled after some number of orders.
HeadOfLog(log, trades) ==
  /\ Len(trades) \in Nat /\ DOMAIN trades = 1..Len(trades)
  /\ \E k \in Nat : Extends(log[k].fills, trades)

Trades == [buy : Nat, sell : Nat, price : Nat, qty : Nat]

OrdersInv ==
  /\ pendingOrders = {} /\ Numbers(orders) /\ Len(orders) = sent
  /\ Numbers(taken)

ReplayInv(log) ==
  replayed \in 0..Len(taken) /\ refEngine = log[replayed] /\ HeadOfLog(log, ref)

\* How many orders the contestant's engine has served: an echo's serves none.
Served == IF setup.honest THEN Len(served) ELSE 0

FillsInv(log) ==
  /\ engine = log[Served]
  /\ fills \in Seq(Trades) /\ Extends(engine.fills, fills)
  /\ pendingFills = Len(fills) + 1 .. Len(engine.fills)
  /\ HeadOfLog(log, contestant)

\* What a step has to keep.
KeptInv(log) == OrdersInv /\ ReplayInv(log) /\ (Unbroken => FillsInv(log))

LogInv == Prompt => \E log : IsLog(log, Slots) /\ KeptInv(log)

PipelineInv == LinkInv /\ LogInv

LEMMA PipelineAgrees == PipelineInv => PrefixesAgree
PROOF
<1>1. SUFFICES ASSUME PipelineInv, Honest, Prompt, Unbroken,
                      NEW i \in DOMAIN ref \cap DOMAIN contestant
               PROVE  ref[i] = contestant[i]
  BY DEF PrefixesAgree
<1>2. PICK log : IsLog(log, Slots) /\ ReplayInv(log) /\ FillsInv(log)
  BY <1>1 DEF PipelineInv, LogInv, KeptInv
<1>3. PICK j \in Nat : Extends(log[j].fills, ref)
  BY <1>2 DEF ReplayInv, HeadOfLog
<1>4. PICK k \in Nat : Extends(log[k].fills, contestant)
  BY <1>2 DEF FillsInv, HeadOfLog
<1>5. i \in DOMAIN log[j].fills /\ i \in DOMAIN log[k].fills
  BY <1>1, <1>3, <1>4 DEF Extends
<1>6. log[j].fills[i] = log[k].fills[i]
  BY <1>2, <1>5, LogAgrees
<1> QED BY <1>1, <1>3, <1>4, <1>6 DEF Extends

LEMMA PipelineInit == Init => PipelineInv
PROOF
<1> SUFFICES ASSUME Init PROVE PipelineInv
  OBVIOUS
<1>1. LinkInv /\ setup \in Setup
  BY LinkInit, SetupsAssumption DEF Init
<1>2. PICK log : IsLog(log, Slots)
  BY <1>1, LogExists DEF Setup, Slots
<1>3. /\ Len(<<>>) = 0 /\ DOMAIN <<>> = {} /\ 1..0 = {} /\ 0 + 1 .. 0 = {}
      /\ <<>> = [i \in 1..0 |-> i]
  OBVIOUS
<1>4. OrdersInv
  BY <1>3 DEF Init, OrdersInv, Numbers
<1>5. log[0] = EmptyEngine /\ EmptyEngine.fills = <<>>
  BY <1>2 DEF IsLog, EmptyEngine
<1>6. Extends(log[0].fills, <<>>) /\ HeadOfLog(log, <<>>)
  BY <1>3 DEF Extends, HeadOfLog
<1>7. FillsInv(log)
  BY <1>3, <1>5, <1>6 DEF Init, FillsInv, Served
<1>8. ReplayInv(log)
  BY <1>3, <1>5, <1>6 DEF Init, ReplayInv
<1> QED BY <1>1, <1>2, <1>4, <1>7, <1>8 DEF PipelineInv, LogInv, KeptInv

---------------------------------------------------------------------------
(* The steps. *)

\* What a xrange returns of a stream is its head, entry by entry.
LEMMA HeadIsRead ==
  ASSUME setup \in Setup, NEW T, NEW stream \in Seq(T)
  PROVE  /\ ReadStream(stream) \in Seq(T)
         /\ DOMAIN ReadStream(stream) \subseteq DOMAIN stream
         /\ \A i \in DOMAIN ReadStream(stream) : ReadStream(stream)[i] = stream[i]
PROOF
<1> DEFINE l == Min({ReadCap, Len(stream)})
<1>1. ReadCap \in Nat /\ Len(stream) \in Nat
  BY DEF Setup, ReadCap
<1>2. l \in Nat /\ l <= Len(stream)
  BY <1>1, MinOfTwo
<1>3. ReadStream(stream) = SubSeq(stream, 1, l)
  BY DEF ReadStream
<1> HIDE DEF l
<1> QED BY <1>1, <1>2, <1>3

LEMMA TradesOfLog ==
  ASSUME NEW log, NEW slots, IsLog(log, slots), NEW n \in Nat
  PROVE  log[n].fills \in Seq(Trades) /\ log[n].fills \in Seq(ArrivedFills(n))
PROOF
<1>1. log[n].fills \in Seq(ArrivedFills(n))
  BY DEF IsLog, EnginesOf
<1>2. ArrivedFills(n) \subseteq Trades
  BY DEF ArrivedFills, Trades
<1>3. \A f \in Seq(ArrivedFills(n)) : f \in Seq(Trades)
  <2>1. SUFFICES ASSUME NEW f \in Seq(ArrivedFills(n)) PROVE f \in Seq(Trades)
    OBVIOUS
  <2>2. Len(f) \in Nat /\ f = [i \in 1..Len(f) |-> f[i]]
    OBVIOUS
  <2>3. \A i \in 1..Len(f) : f[i] \in Trades
    BY <1>2
  <2> QED BY <2>2, <2>3
<1> QED BY <1>1, <1>3

\* Fills of the log name their orders by number, which are those of a stream of numbers.
LEMMA IdsAreNumbers ==
  ASSUME NEW log, NEW slots, IsLog(log, slots), NEW n \in Nat, NEW stream, Numbers(stream),
         n <= Len(stream)
  PROVE  ById(log[n].fills, stream) = log[n].fills
PROOF
<1> DEFINE trades == log[n].fills
<1>1. trades \in Seq(ArrivedFills(n))
  BY TradesOfLog
<1>2. /\ Len(trades) \in Nat /\ DOMAIN trades = 1..Len(trades)
      /\ trades = [i \in DOMAIN trades |-> trades[i]]
      /\ \A i \in DOMAIN trades : trades[i] \in ArrivedFills(n)
  BY <1>1
<1>3. \A i \in 1..n : stream[i] = i
  BY DEF Numbers
<1>4. \A f \in ArrivedFills(n) : [f EXCEPT !.buy = stream[@], !.sell = stream[@]] = f
  <2>1. SUFFICES ASSUME NEW f \in ArrivedFills(n)
                 PROVE  [f EXCEPT !.buy = stream[@], !.sell = stream[@]] = f
    OBVIOUS
  <2>2. stream[f.buy] = f.buy /\ stream[f.sell] = f.sell
    BY <1>3 DEF ArrivedFills
  <2>3. [f EXCEPT !.buy = stream[@], !.sell = stream[@]] = [f EXCEPT !.buy = f.buy, !.sell = f.sell]
    BY <2>2
  <2> QED BY <2>3 DEF ArrivedFills
<1>5. ById(trades, stream)
        = [i \in DOMAIN trades |-> [trades[i] EXCEPT !.buy = stream[@], !.sell = stream[@]]]
  BY DEF ById
<1> HIDE DEF trades
<1>6. ById(trades, stream) = trades
  BY <1>2, <1>4, <1>5
<1> QED BY <1>6 DEF trades

\* The nth of a stream of numbers is the nth order of the log.
LEMMA NumberIsOrder ==
  ASSUME NEW stream, Numbers(stream), NEW n \in Nat, n + 1 <= Len(stream), setup \in Setup
  PROVE  OrderAt(stream, n + 1) = OrderOf(Slots, n + 1)
PROOF
<1>1. stream[n + 1] = n + 1
  BY DEF Numbers
<1>2. NumberedOrder(n + 1) = OrderOf(Slots, n + 1)
  BY DEF NumberedOrder, OrderOf
<1>3. OrderAt(stream, n + 1) = [OrderOf(Slots, n + 1) EXCEPT !.ts = n + 1]
  BY <1>1, <1>2 DEF OrderAt
<1>4. OrderOf(Slots, n + 1) \in ArrivedOrders(Nat, n + 1) /\ OrderOf(Slots, n + 1).ts = n + 1
  BY OrderArrives DEF Setup, Slots
<1> QED BY <1>3, <1>4 DEF ArrivedOrders

LEMMA KeptStepwise ==
  ASSUME PipelineInv, UNCHANGED setup,
         ASSUME Prompt, NEW log, IsLog(log, Slots), KeptInv(log)
         PROVE  KeptInv(log)'
  PROVE  LogInv'
PROOF
<1>1. Slots' = Slots /\ Prompt' = Prompt
  BY DEF Slots, Prompt
<1>2. SUFFICES ASSUME Prompt PROVE \E log : IsLog(log, Slots') /\ KeptInv(log)'
  BY <1>1 DEF LogInv
<1>3. PICK log : IsLog(log, Slots) /\ KeptInv(log)
  BY <1>2 DEF PipelineInv, LogInv
<1>4. KeptInv(log)'
  BY <1>2, <1>3
<1> QED BY <1>1, <1>3, <1>4

\* The variables the log is held against.
readVars == <<taken, replayed, refEngine, ref, contestant>>
madeVars == <<served, engine, pendingFills, fills>>
logVars == <<setup, sent, pendingOrders, orders, madeVars, readVars>>

\* A test with losses before it stays one.
LEMMA LogStutters ==
  PipelineInv /\ UNCHANGED logVars /\ (Unbroken' => Unbroken) => LogInv'
PROOF
<1> SUFFICES ASSUME PipelineInv, UNCHANGED logVars, Unbroken' => Unbroken PROVE LogInv'
  OBVIOUS
<1> USE DEF logVars, madeVars, readVars
<1>1. ASSUME NEW log, KeptInv(log) PROVE KeptInv(log)'
  BY <1>1 DEF KeptInv, OrdersInv, FillsInv, ReplayInv, Served
<1> QED BY <1>1, KeptStepwise

\* The bot's steps.
LEMMA SendKeeps == PipelineInv /\ (SendOrder \/ SendFails) => LogInv'
PROOF
<1> SUFFICES ASSUME PipelineInv, SendOrder \/ SendFails PROVE LogInv'
  OBVIOUS
<1>1. /\ UNCHANGED <<testVars, setup, madeVars, readVars>>
      /\ sent' = sent + 1 /\ WriteOrder(sent')
  BY DEF SendOrder, SendFails, validatorVars, locals, replay, contestantVars, madeVars, readVars,
         testVars
<1>2. Unbroken' => Unbroken
  <2>1. CASE SendOrder
    BY <2>1 DEF SendOrder, Unbroken, testVars
  <2>2. CASE SendFails
    BY <1>1, <2>2, LossIsNoted DEF SendFails, PipelineInv
  <2> QED BY <2>1, <2>2
<1>3. ASSUME Prompt, NEW log, KeptInv(log) PROVE KeptInv(log)'
  <2>1. ReplayInv(log)' /\ (Unbroken' => FillsInv(log)')
    BY <1>1, <1>2, <1>3 DEF KeptInv, FillsInv, ReplayInv, Served, madeVars, readVars
  <2>2. pendingOrders' = {} /\ orders' = Append(orders, Len(orders) + 1)
        /\ Numbers(orders) /\ Len(orders) = sent /\ Numbers(taken)
    BY <1>1, <1>3 DEF WriteOrder, KeptInv, OrdersInv
  <2>3. Numbers(orders') /\ Len(orders') = sent'
    BY <1>1, <2>2, NumbersGrow
  <2> QED BY <1>1, <2>1, <2>2, <2>3 DEF KeptInv, OrdersInv, readVars
<1> QED BY <1>1, <1>3, KeptStepwise

LEMMA RespondKeeps == PipelineInv /\ RecordResponse => LogInv'
PROOF
<1> SUFFICES ASSUME PipelineInv, RecordResponse PROVE LogInv'
  OBVIOUS
<1>1. UNCHANGED <<setup, test, lossAt, sent, pendingOrders, orders, fills, readVars>>
  BY DEF RecordResponse, streamVars, validatorVars, locals, replay, readVars, testVars
<1>2. PICK n \in unanswered : (\A o \in unanswered : n <= o) /\ Serve(n)
  BY DEF RecordResponse
<1>3. Unbroken' = Unbroken /\ setup \in Setup
  BY <1>1 DEF Unbroken, PipelineInv, LinkInv, SentInv
<1>4. ASSUME NEW log, KeptInv(log) PROVE OrdersInv' /\ ReplayInv(log)'
  BY <1>1, <1>4 DEF KeptInv, OrdersInv, ReplayInv, readVars
<1>5. ASSUME Unbroken
      PROVE  /\ Numbers(served) /\ Len(served) \in Nat /\ Numbers(served')
             /\ served' = Append(served, Len(served) + 1)
             /\ Len(served') = Len(served) + 1
  <2>1. Numbers(served) /\ Len(served) \in Nat /\ n = Len(served) + 1
    BY <1>2, <1>5, OldestIsNext DEF PipelineInv
  <2>2. served' = Append(served, Len(served) + 1)
    BY <1>2, <2>1 DEF Serve
  <2> QED BY <2>1, <2>2, NumbersGrow
<1>6. ASSUME Unbroken, Honest, NEW log, IsLog(log, Slots), FillsInv(log) PROVE FillsInv(log)'
  <2> DEFINE s == Len(served)
  <2>1. s \in Nat /\ Len(served') = s + 1 /\ Numbers(served')
    BY <1>5, <1>6
  <2>2. /\ engine = log[s] /\ fills \in Seq(Trades) /\ Extends(engine.fills, fills)
        /\ pendingFills = Len(fills) + 1 .. Len(engine.fills) /\ HeadOfLog(log, contestant)
    BY <1>6 DEF FillsInv, Served, Honest
  <2>3. engine' = log[s + 1]
    <3>1. OrderAt(served', s + 1) = OrderOf(Slots, s + 1)
      BY <1>3, <2>1, NumberIsOrder
    <3>2. engine' = ServeOrder(engine, OrderAt(served', s + 1))
      BY <1>2, <1>6, <2>1 DEF Serve
    <3>3. log[s + 1] = ServeOrder(log[s], OrderOf(Slots, s + 1))
      BY <1>6, <2>1 DEF IsLog
    <3> QED BY <2>2, <3>1, <3>2, <3>3
  <2>4. Extends(engine'.fills, engine.fills)
    <3>1. Extends(log[s + 1].fills, log[s].fills)
      BY <1>6, <2>1 DEF IsLog
    <3> QED BY <2>2, <2>3, <3>1
  <2>5. engine.fills \in Seq(Trades) /\ engine'.fills \in Seq(Trades)
    <3>1. s \in Nat /\ s + 1 \in Nat
      BY <2>1
    <3> QED BY <1>6, <2>2, <2>3, <3>1, TradesOfLog
  <2>6. Extends(engine'.fills, fills)
    BY <2>2, <2>4 DEF Extends
  <2> DEFINE a == Len(fills)
             b == Len(engine.fills)
             c == Len(engine'.fills)
  <2>7. a \in Nat /\ b \in Nat /\ c \in Nat /\ a <= b /\ b <= c
    <3>1. DOMAIN fills = 1..a /\ DOMAIN engine.fills = 1..b /\ DOMAIN engine'.fills = 1..c
          /\ a \in Nat /\ b \in Nat /\ c \in Nat
      BY <2>2, <2>5
    <3>2. 1..a \subseteq 1..b /\ 1..b \subseteq 1..c
      BY <2>2, <2>4, <3>1 DEF Extends
    <3> HIDE DEF a, b, c
    <3> QED BY <3>1, <3>2
  <2>8. pendingFills' = a + 1 .. c
    <3>1. pendingFills' = (a + 1 .. b) \cup (b + 1 .. c)
      BY <2>2 DEF RecordResponse
    <3> HIDE DEF a, b, c
    <3> QED BY <2>7, <3>1
  <2>9. Served' = s + 1
    BY <1>1, <1>6, <2>1 DEF Served, Honest
  <2>10. HeadOfLog(log, contestant')
    BY <1>1, <2>2 DEF readVars
  <2> HIDE DEF s
  <2> QED BY <1>1, <2>2, <2>3, <2>6, <2>8, <2>9, <2>10 DEF FillsInv
<1>7. ASSUME ~Honest, NEW log, IsLog(log, Slots), FillsInv(log) PROVE FillsInv(log)'
  <2>1. engine' = engine
    BY <1>2, <1>7 DEF Serve
  <2>2. engine = log[0] /\ HeadOfLog(log, contestant)
    BY <1>7 DEF FillsInv, Served, Honest
  <2>3. Len(engine.fills) \in Nat
    BY <1>7, <2>2, TradesOfLog
  <2>4. Len(engine.fills) + 1 .. Len(engine.fills) = {}
    BY <2>3
  <2>5. pendingFills' = pendingFills
    BY <2>1, <2>4 DEF RecordResponse
  <2>6. Served' = 0 /\ Served = 0 /\ contestant' = contestant
    BY <1>1, <1>7 DEF Served, Honest, readVars
  <2> QED BY <1>1, <1>7, <2>1, <2>2, <2>5, <2>6 DEF FillsInv
<1>8. ASSUME NEW log, IsLog(log, Slots), KeptInv(log) PROVE KeptInv(log)'
  BY <1>3, <1>4, <1>6, <1>7, <1>8 DEF KeptInv
<1> QED BY <1>1, <1>8, KeptStepwise

\* What is served late is served after a loss in an earlier test.
LEMMA OrphanKeeps == PipelineInv /\ ServeOrphan => LogInv'
PROOF
<1> SUFFICES ASSUME PipelineInv, ServeOrphan PROVE LogInv'
  OBVIOUS
<1>1. UNCHANGED <<setup, test, lossAt, sent, pendingOrders, orders, readVars>>
  BY DEF ServeOrphan, streamVars, validatorVars, locals, replay, readVars, testVars, pendingWrites
<1>2. ~Unbroken'
  BY <1>1, NoOrphanServed DEF Unbroken, PipelineInv
<1>3. ASSUME NEW log, KeptInv(log) PROVE KeptInv(log)'
  BY <1>1, <1>2, <1>3 DEF KeptInv, OrdersInv, ReplayInv, readVars
<1> QED BY <1>1, <1>3, KeptStepwise

\* No order's write is late.
LEMMA NoOrderPending == PipelineInv /\ Prompt => ~OrderLands
PROOF BY DEF PipelineInv, LogInv, KeptInv, OrdersInv, OrderLands

LEMMA OrderLandsKeeps == PipelineInv /\ OrderLands => LogInv'
PROOF BY NoOrderPending DEF OrderLands, LogInv, Prompt, testVars

LEMMA FillLandsKeeps == PipelineInv /\ FillLands => LogInv'
PROOF
<1> SUFFICES ASSUME PipelineInv, FillLands PROVE LogInv'
  OBVIOUS
<1>1. UNCHANGED <<setup, test, lossAt, sent, served, engine, pendingOrders, orders, readVars>>
  BY DEF FillLands, validatorVars, locals, replay, testVars, contestantVars, readVars
<1>2. Unbroken' = Unbroken /\ Served' = Served
  BY <1>1 DEF Unbroken, Served
<1>3. ASSUME NEW log, KeptInv(log) PROVE OrdersInv' /\ ReplayInv(log)'
  BY <1>1, <1>3 DEF KeptInv, OrdersInv, ReplayInv, readVars
<1>4. ASSUME Prompt, Unbroken, NEW log, IsLog(log, Slots), FillsInv(log) PROVE FillsInv(log)'
  <2>1. Numbers(served) /\ Len(served) \in Nat
    BY <1>4 DEF PipelineInv, LinkInv, DeliveryInv, Numbers
  <2>2. Served \in Nat /\ Served <= Len(served)
    BY <2>1 DEF Served
  <2>3. /\ engine = log[Served] /\ fills \in Seq(Trades) /\ Extends(engine.fills, fills)
        /\ pendingFills = Len(fills) + 1 .. Len(engine.fills) /\ HeadOfLog(log, contestant)
    BY <1>4 DEF FillsInv
  <2>4. engine.fills \in Seq(Trades) /\ ById(engine.fills, served) = engine.fills
    BY <1>4, <2>1, <2>2, <2>3, TradesOfLog, IdsAreNumbers
  <2> DEFINE a == Len(fills)
             b == Len(engine.fills)
  <2>5. a \in Nat /\ b \in Nat /\ DOMAIN fills = 1..a /\ DOMAIN engine.fills = 1..b
    BY <2>3, <2>4
  <2>6. PICK n \in pendingFills : /\ \A y \in pendingFills : n <= y
                                  /\ fills' = Append(fills, engine.fills[n])
                                  /\ pendingFills' = pendingFills \ {n}
    BY <1>4, <2>4 DEF FillLands, MayLand
  <2>7. n = a + 1 /\ n <= b /\ pendingFills' = (a + 1) + 1 .. b
    <3>1. pendingFills = a + 1 .. b
      BY <2>3
    <3> HIDE DEF a, b
    <3> QED BY <2>5, <2>6, <3>1
  <2>8. engine.fills[n] \in Trades
    BY <2>4, <2>5, <2>7
  <2>9. fills' \in Seq(Trades) /\ Len(fills') = a + 1 /\ DOMAIN fills' = 1..(a + 1)
    BY <2>3, <2>6, <2>8
  <2>10. Extends(engine.fills, fills')
    <3>1. \A i \in 1..a : fills'[i] = fills[i] /\ engine.fills[i] = fills[i]
      BY <2>3, <2>5, <2>6 DEF Extends
    <3>2. fills'[a + 1] = engine.fills[a + 1]
      BY <2>3, <2>6, <2>7
    <3>3. 1..(a + 1) \subseteq 1..b
      BY <2>5, <2>7
    <3>4. \A i \in 1..(a + 1) : i \in 1..a \/ i = a + 1
      BY <2>5
    <3> HIDE DEF a, b
    <3> QED BY <2>5, <2>9, <3>1, <3>2, <3>3, <3>4 DEF Extends
  <2>11. HeadOfLog(log, contestant')
    BY <1>1, <2>3 DEF readVars
  <2> QED BY <1>1, <1>2, <2>3, <2>7, <2>9, <2>10, <2>11 DEF FillsInv
<1>5. ASSUME Prompt, NEW log, IsLog(log, Slots), KeptInv(log) PROVE KeptInv(log)'
  BY <1>2, <1>3, <1>4, <1>5 DEF KeptInv
<1> QED BY <1>1, <1>5, KeptStepwise

\* The steps of the validator.
LEMMA ReadOrdersKeeps == PipelineInv /\ ReadOrders => LogInv'
PROOF
<1> SUFFICES ASSUME PipelineInv, ReadOrders PROVE LogInv'
  OBVIOUS
<1>1. UNCHANGED <<setup, test, lossAt, sent, pendingOrders, orders, madeVars, ref, contestant>>
  BY DEF ReadOrders, botVars, streamVars, testVars, contestantVars, pendingWrites, madeVars
<1>2. Unbroken' = Unbroken /\ setup \in Setup
  BY <1>1 DEF Unbroken, PipelineInv, LinkInv, SentInv
<1>3. ASSUME NEW log, IsLog(log, Slots), KeptInv(log) PROVE KeptInv(log)'
  <2>1. Unbroken' => FillsInv(log)'
    BY <1>1, <1>2, <1>3 DEF KeptInv, FillsInv, Served, madeVars
  <2>2. Numbers(orders) /\ orders \in Seq(Nat)
    BY <1>3, NumbersGrow DEF KeptInv, OrdersInv
  <2>3. /\ taken' \in Seq(Nat) /\ DOMAIN taken' \subseteq DOMAIN orders
        /\ \A i \in DOMAIN taken' : taken'[i] = orders[i]
    BY <1>2, <2>2, HeadIsRead DEF ReadOrders
  <2>4. Len(taken') \in Nat /\ DOMAIN taken' = 1..Len(taken')
        /\ taken' = [i \in DOMAIN taken' |-> taken'[i]]
    BY <2>3
  <2>5. \A i \in DOMAIN taken' : taken'[i] = i
    BY <2>2, <2>3 DEF Numbers
  <2>6. Numbers(taken')
    BY <2>4, <2>5 DEF Numbers
  <2>7. OrdersInv'
    BY <1>1, <1>3, <2>6 DEF KeptInv, OrdersInv
  <2>8. ReplayInv(log)'
    BY <1>1, <1>3, <2>4 DEF KeptInv, ReplayInv, ReadOrders, IsLog
  <2> QED BY <2>1, <2>7, <2>8 DEF KeptInv
<1> QED BY <1>1, <1>3, KeptStepwise

LEMMA ReplayKeeps == PipelineInv /\ ReplayOrder => LogInv'
PROOF
<1> SUFFICES ASSUME PipelineInv, ReplayOrder PROVE LogInv'
  OBVIOUS
<1>1. UNCHANGED <<setup, test, lossAt, sent, pendingOrders, orders, madeVars, taken, ref,
                  contestant>>
  BY DEF ReplayOrder, botVars, streamVars, testVars, contestantVars, pendingWrites, madeVars
<1>2. Unbroken' = Unbroken /\ setup \in Setup
  BY <1>1 DEF Unbroken, PipelineInv, LinkInv, SentInv
<1>3. ASSUME NEW log, IsLog(log, Slots), KeptInv(log) PROVE KeptInv(log)'
  <2>1. OrdersInv' /\ (Unbroken' => FillsInv(log)')
    BY <1>1, <1>2, <1>3 DEF KeptInv, FillsInv, OrdersInv, Served, madeVars
  <2>2. /\ Numbers(taken) /\ replayed \in 0..Len(taken) /\ replayed < Len(taken)
        /\ refEngine = log[replayed] /\ replayed' = replayed + 1
    BY <1>3 DEF KeptInv, OrdersInv, ReplayInv, ReplayOrder
  <2>3. replayed \in Nat /\ replayed' \in 0..Len(taken) /\ replayed + 1 <= Len(taken)
    BY <2>2 DEF Numbers
  <2>4. OrderAt(taken, replayed + 1) = OrderOf(Slots, replayed + 1)
    BY <1>2, <2>2, <2>3, NumberIsOrder
  <2>5. refEngine' = log[replayed']
    BY <1>3, <2>2, <2>3, <2>4 DEF IsLog, ReplayOrder
  <2>6. ReplayInv(log)'
    BY <1>1, <1>3, <2>3, <2>5 DEF KeptInv, ReplayInv
  <2> QED BY <2>1, <2>6 DEF KeptInv
<1> QED BY <1>1, <1>3, KeptStepwise

LEMMA EndReplayKeeps == PipelineInv /\ EndReplay => LogInv'
PROOF
<1> SUFFICES ASSUME PipelineInv, EndReplay PROVE LogInv'
  OBVIOUS
<1>1. UNCHANGED <<setup, test, lossAt, sent, pendingOrders, orders, madeVars, taken, contestant>>
  BY DEF EndReplay, botVars, streamVars, testVars, contestantVars, pendingWrites, madeVars
<1>2. Unbroken' = Unbroken
  BY <1>1 DEF Unbroken
<1>3. ASSUME NEW log, IsLog(log, Slots), KeptInv(log) PROVE KeptInv(log)'
  <2>1. OrdersInv' /\ (Unbroken' => FillsInv(log)')
    BY <1>1, <1>2, <1>3 DEF KeptInv, FillsInv, OrdersInv, Served, madeVars
  <2>2. /\ Numbers(taken) /\ replayed = Len(taken) /\ replayed \in Nat
        /\ refEngine = log[replayed]
    BY <1>3 DEF KeptInv, OrdersInv, ReplayInv, EndReplay, Numbers
  <2>3. ref' = log[replayed].fills
    BY <1>3, <2>2, IdsAreNumbers DEF EndReplay
  <2>4. log[replayed].fills \in Seq(Trades)
    BY <1>3, <2>2, TradesOfLog
  <2>5. HeadOfLog(log, ref')
    BY <2>2, <2>3, <2>4 DEF HeadOfLog, Extends
  <2>6. ReplayInv(log)'
    BY <1>1, <1>3, <2>2, <2>5 DEF KeptInv, ReplayInv, EndReplay, IsLog
  <2> QED BY <2>1, <2>6 DEF KeptInv
<1> QED BY <1>1, <1>3, KeptStepwise

LEMMA ReadFillsKeeps == PipelineInv /\ ReadFills => LogInv'
PROOF
<1> SUFFICES ASSUME PipelineInv, ReadFills PROVE LogInv'
  OBVIOUS
<1>1. UNCHANGED <<setup, test, lossAt, sent, pendingOrders, orders, madeVars, taken, replayed,
                  refEngine, ref>>
  BY DEF ReadFills, botVars, streamVars, testVars, contestantVars, pendingWrites, madeVars, replay
<1>2. Unbroken' = Unbroken /\ setup \in Setup
  BY <1>1 DEF Unbroken, PipelineInv, LinkInv, SentInv
<1>3. ASSUME NEW log, KeptInv(log) PROVE OrdersInv' /\ ReplayInv(log)'
  BY <1>1, <1>3 DEF KeptInv, OrdersInv, ReplayInv
<1>4. ASSUME Unbroken, NEW log, FillsInv(log) PROVE FillsInv(log)'
  <2>1. fills \in Seq(Trades) /\ Extends(log[Served].fills, fills)
    BY <1>4 DEF FillsInv
  <2>2. /\ contestant' \in Seq(Trades) /\ DOMAIN contestant' \subseteq DOMAIN fills
        /\ \A i \in DOMAIN contestant' : contestant'[i] = fills[i]
    BY <1>2, <2>1, HeadIsRead DEF ReadFills
  <2>3. Len(contestant') \in Nat /\ DOMAIN contestant' = 1..Len(contestant')
    BY <2>2
  <2>4. Extends(log[Served].fills, contestant')
    BY <2>1, <2>2 DEF Extends
  <2>5. Served \in Nat
    BY <1>4 DEF Served, PipelineInv, LinkInv, DeliveryInv, Numbers
  <2>6. HeadOfLog(log, contestant')
    BY <2>3, <2>4, <2>5 DEF HeadOfLog
  <2> QED BY <1>1, <1>4, <2>6 DEF FillsInv, Served, madeVars
<1>5. ASSUME NEW log, KeptInv(log) PROVE KeptInv(log)'
  BY <1>2, <1>3, <1>4, <1>5 DEF KeptInv
<1> QED BY <1>1, <1>5, KeptStepwise

LEMMA PipelineNext == PipelineInv /\ [Next]_vars => PipelineInv'
PROOF
<1> SUFFICES ASSUME PipelineInv, [Next]_vars PROVE LogInv'
  BY LinkNext DEF PipelineInv
<1> USE DEF logVars, madeVars, readVars
<1>1. CASE SendOrder \/ SendFails
  BY <1>1, SendKeeps
<1>2. CASE RecordResponse
  BY <1>2, RespondKeeps
<1>3. CASE OrderLands
  BY <1>3, OrderLandsKeeps
<1>4. CASE FillLands
  BY <1>4, FillLandsKeeps
<1>5. CASE ServeOrphan
  BY <1>5, OrphanKeeps
<1>6. CASE ReadOrders
  BY <1>6, ReadOrdersKeeps
<1>7. CASE ReplayOrder
  BY <1>7, ReplayKeeps
<1>8. CASE EndReplay
  BY <1>8, EndReplayKeeps
<1>9. CASE ReadFills
  BY <1>9, ReadFillsKeeps
<1>10. CASE RecordNothing \/ AckTimesOut
  <2>1. UNCHANGED logVars /\ UNCHANGED testVars /\ NoteLoss
    BY <1>10 DEF RecordNothing, AckTimesOut, testVars, contestantVars, streamVars, validatorVars,
                 locals, replay
  <2>2. Unbroken' => Unbroken
    BY <2>1, LossIsNoted DEF PipelineInv
  <2> QED BY <2>1, <2>2, LogStutters
<1>11. CASE EventLands \/ ConnectionBreaks \/ CompleteTest \/ MarkTest
  <2>1. UNCHANGED logVars /\ UNCHANGED <<test, lossAt>>
    BY <1>11 DEF EventLands, ConnectionBreaks, CompleteTest, MarkTest, testVars, contestantVars,
                 pendingWrites, streamVars, validatorVars, locals, replay
  <2> QED BY <2>1, LogStutters DEF Unbroken
<1>12. CASE StartAgain
  <2>1. UNCHANGED logVars /\ test' = test + 1 /\ lossAt' = lossAt
    BY <1>12 DEF StartAgain, contestantVars, pendingWrites, streamVars, validatorVars, locals,
                 replay
  <2>2. Unbroken' => Unbroken
    BY <2>1 DEF Unbroken, PipelineInv, LinkInv, SentInv
  <2> QED BY <2>1, <2>2, LogStutters
<1>13. CASE \/ ReadStatus \/ ReadLength \/ LengthUnknown \/ ReadEvents \/ StoreRate
            \/ StoreSummary \/ Remember \/ ValidationFails
  <2>1. UNCHANGED logVars /\ UNCHANGED <<test, lossAt>>
    BY <1>13 DEF ReadStatus, ReadLength, LengthUnknown, ReadEvents, StoreRate, StoreSummary,
                 Remember, ValidationFails, botVars, testVars, contestantVars, pendingWrites,
                 streamVars, locals, replay
  <2> QED BY <2>1, LogStutters DEF Unbroken
<1>14. CASE UNCHANGED vars
  <2>1. UNCHANGED logVars /\ UNCHANGED <<test, lossAt>>
    BY <1>14 DEF vars, botVars, testVars, contestantVars, pendingWrites, streamVars,
                 validatorVars, locals, replay
  <2> QED BY <2>1, LogStutters DEF Unbroken
<1> QED
  BY <1>1, <1>2, <1>3, <1>4, <1>5, <1>6, <1>7, <1>8, <1>9, <1>10, <1>11, <1>12, <1>13, <1>14
     DEF Next, Bot, Poll, Trouble

\* For any length and number of tests, one after the other, any cap and any number of
\* failures: the reference fills the validator computes and the contestant's fills it reads
\* agree wherever both have an entry, if the contestant is honest, writes are in order and
\* no test before the one that runs has lost an order or an ack.
THEOREM HonestFillsAgree == Spec => []PrefixesAgree
PROOF
<1>1. Spec => []PipelineInv
  BY PipelineInit, PipelineNext, PTL DEF Spec
<1> QED BY <1>1, PipelineAgrees, PTL

\* The pipeline goes on as it does with the ingester's flusher at work beside it.
LEMMA BoardIsPipeline == BoardSpec => Spec
PROOF
<1>1. BoardInit => Init
  BY DEF BoardInit
<1>2. [BoardNext]_allVars => [Next]_vars
  BY DEF BoardNext, CountEvents, Flush, TakeSnapshot, ReadSummary, ReadRate, PublishEntry,
         ResetWindow, allVars
<1> QED BY <1>1, <1>2, PTL DEF BoardSpec, Spec

\* And so do the fills agree with the flusher at work beside the validator: of one test
\* after the other, up to the end of the first that loses an order or an ack.
THEOREM HonestFillsAgreeOnBoard == BoardSpec => []PrefixesAgree
PROOF BY BoardIsPipeline, HonestFillsAgree, PTL

---------------------------------------------------------------------------
(* What the validator leaves alone has been scored. *)

\* k of n orders, or as many as a read returns.
Enough(k, n) == k >= n \/ k >= ReadCap

Covers(n) == score \in Scores /\ Enough(score.totalOrders, n)

\* A poll passes the submission by because the stream is as long as when it was
\* validated last, or because it has been validated completed: then the orders sent
\* before a test was first said to be completed have been replayed, and those that
\* came later need never be.
SkippedIsScored ==
  [][/\ ReadLength /\ validator' = "poll" => Covers(Len(orders))
     /\ ReadStatus /\ validator' = "poll" /\ testStatus # "failed" /\ Prompt
          => owed # None /\ Covers(owed)]_vars

HasRead == {"replay", "fills", "events", "store"}
HasStored == {"summarise", "remember"}

Ids == Nat \ {0}

StreamInv ==
  /\ setup \in Setup /\ sent \in Nat /\ test \in Ids /\ pendingOrders \subseteq Ids
  /\ orders \in Seq(Ids) /\ taken \in Seq(Ids)
  /\ Len(taken) <= Len(orders) /\ Len(taken) <= ReadCap
  /\ events \in Nat /\ eventsLen \in Nat
  /\ replayed \in 0..Len(taken) /\ refEngine \in EnginesOf(Nat, replayed)
  /\ Len(ref) \in Nat /\ DOMAIN ref = 1..Len(ref)
  /\ score \in Scores \cup {None}
  /\ score \in Scores => score.totalOrders <= Len(orders) /\ score.totalOrders <= ReadCap

\* What is owed has been sent, and is known once a test is said to be completed.
WrittenInv ==
  /\ owed # None => owed \in Nat /\ owed <= sent
  /\ testStatus = "completed" \/ status = "completed" => owed # None

\* What a validation has read and stored so far, beside what it will remember.
ProgressInv ==
  /\ validator \in HasRead =>
       /\ streamLen # None => Enough(Len(taken), streamLen)
       /\ status = "completed" /\ Prompt => Enough(Len(taken), owed)
       /\ score \in Scores => score.totalOrders <= Len(taken)
  /\ validator \in HasStored =>
       /\ score \in Scores /\ score.totalOrders = Len(taken)
       /\ streamLen # None => Enough(Len(taken), streamLen)
       /\ status = "completed" /\ Prompt => Enough(Len(taken), owed)
  /\ validator \in {"orders"} \cup HasRead \cup HasStored /\ streamLen # None =>
       streamLen \in Nat /\ streamLen <= Len(orders)

MemoryInv ==
  /\ lastValidatedLen # None =>
       lastValidatedLen \in Nat /\ lastValidatedLen <= Len(orders) /\ Covers(lastValidatedLen)
  /\ completedValidated => owed # None /\ (Prompt => Covers(owed))

CoverInv == StreamInv /\ WrittenInv /\ ProgressInv /\ MemoryInv

LEMMA CoverInit == Init => CoverInv
PROOF
<1> SUFFICES ASSUME Init PROVE CoverInv
  OBVIOUS
<1>1. setup \in Setup /\ ReadCap \in Nat
  BY SetupsAssumption DEF Init, Setup, ReadCap
<1>2. EmptyEngine \in EnginesOf(Nat, 0)
  BY EmptyIsAnEngine
<1>3. /\ score = None /\ None \notin Scores /\ status # "completed" /\ lastValidatedLen = None
      /\ testStatus # "completed"
  BY NoneAssumption DEF Init, Statuses
<1>4. <<>> \in Seq(Ids) /\ Len(<<>>) = 0 /\ DOMAIN <<>> = 1..0
  OBVIOUS
<1>5. StreamInv
  BY <1>1, <1>2, <1>3, <1>4 DEF Init, StreamInv, Ids
<1> QED BY <1>1, <1>3, <1>4, <1>5 DEF Init, CoverInv, WrittenInv, ProgressInv, MemoryInv, HasRead, HasStored

\* The variables it is about.
coverVars ==
  <<setup, test, sent, pendingOrders, orders, taken, events, eventsLen, replayed, refEngine, ref,
    score, testStatus, owed, status, validator, streamLen, lastValidatedLen, completedValidated>>

LEMMA CoverStutters == CoverInv /\ UNCHANGED coverVars => CoverInv'
PROOF
<1> SUFFICES ASSUME CoverInv, UNCHANGED coverVars PROVE CoverInv'
  OBVIOUS
<1>1. StreamInv'
  BY DEF CoverInv, StreamInv, coverVars, ReadCap
<1>2. WrittenInv'
  BY DEF CoverInv, WrittenInv, coverVars
<1>3. ProgressInv'
  BY DEF CoverInv, ProgressInv, coverVars, Prompt, Enough, ReadCap
<1>4. MemoryInv'
  BY DEF CoverInv, MemoryInv, coverVars, Prompt, Covers, Enough, ReadCap
<1> QED BY <1>1, <1>2, <1>3, <1>4 DEF CoverInv

\* An order more in the stream takes nothing from what has been read of it.
LEMMA LongerCovers ==
  ASSUME CoverInv, UNCHANGED <<setup, test, validatorVars, said, events>>,
         sent' \in Nat, sent' >= sent, pendingOrders' \subseteq Ids,
         orders' \in Seq(Ids), Len(orders') >= Len(orders)
  PROVE  CoverInv'
PROOF
<1> USE DEF validatorVars, stored, memory, locals, replay, said
<1>1. Len(orders) \in Nat /\ Len(orders') \in Nat /\ Len(taken) \in Nat
  BY DEF CoverInv, StreamInv
<1>2. StreamInv'
  <2>1. score \in Scores => score.totalOrders \in Nat
    BY DEF Scores
  <2> QED BY <1>1, <2>1 DEF CoverInv, StreamInv, ReadCap
<1>3. WrittenInv'
  <2>1. sent \in Nat
    BY DEF CoverInv, StreamInv
  <2> QED BY <2>1 DEF CoverInv, WrittenInv
<1>4. ProgressInv'
  BY <1>1 DEF CoverInv, ProgressInv, Prompt, Enough, ReadCap
<1>5. MemoryInv'
  BY <1>1 DEF CoverInv, MemoryInv, Prompt, Covers, Enough, ReadCap
<1> QED BY <1>2, <1>3, <1>4, <1>5 DEF CoverInv

LEMMA SendCovers == CoverInv /\ (SendOrder \/ SendFails) => CoverInv'
PROOF
<1> SUFFICES ASSUME CoverInv, SendOrder \/ SendFails PROVE CoverInv'
  OBVIOUS
<1>1. /\ UNCHANGED <<setup, test, validatorVars, said, events>>
      /\ sent' = sent + 1 /\ WriteOrder(sent')
  BY DEF SendOrder, SendFails, testVars
<1>2. sent' \in Ids /\ sent' >= sent /\ sent' \in Nat
  BY <1>1 DEF CoverInv, StreamInv, Ids
<1>3. orders \in Seq(Ids) /\ pendingOrders \subseteq Ids
  BY DEF CoverInv, StreamInv
<1>4. pendingOrders' \subseteq Ids /\ orders' \in Seq(Ids) /\ Len(orders') >= Len(orders)
  <2>1. CASE Prompt
    <3>1. orders' = Append(orders, sent') /\ pendingOrders' = pendingOrders
      BY <1>1, <2>1 DEF WriteOrder
    <3> QED BY <1>2, <1>3, <3>1
  <2>2. CASE ~Prompt
    <3>1. orders' = orders /\ pendingOrders' = pendingOrders \cup {sent'}
      BY <1>1, <2>2 DEF WriteOrder
    <3> QED BY <1>2, <1>3, <3>1
  <2> QED BY <2>1, <2>2
<1> QED BY <1>1, <1>2, <1>4, LongerCovers

LEMMA OrderLandsCovers == CoverInv /\ OrderLands => CoverInv'
PROOF
<1> SUFFICES ASSUME CoverInv, OrderLands PROVE CoverInv'
  OBVIOUS
<1>1. UNCHANGED <<setup, test, validatorVars, said, events>>
  BY DEF OrderLands, testVars
<1>2. sent' \in Nat /\ sent' >= sent
  BY DEF CoverInv, StreamInv, OrderLands
<1>3. pendingOrders' \subseteq Ids /\ orders' \in Seq(Ids) /\ Len(orders') >= Len(orders)
  BY DEF CoverInv, StreamInv, OrderLands, MayLand
<1> QED BY <1>1, <1>2, <1>3, LongerCovers

\* What is owed is settled the first time that a test is said to be completed.
LEMMA StatusCovers ==
  CoverInv /\ (CompleteTest \/ MarkTest \/ StartAgain \/ EventLands) => CoverInv'
PROOF
<1> SUFFICES ASSUME CoverInv, CompleteTest \/ MarkTest \/ StartAgain \/ EventLands
             PROVE  CoverInv'
  OBVIOUS
<1>1. UNCHANGED <<setup, sent, pendingOrders, orders, taken, eventsLen, replayed, refEngine, ref,
                  score, status, validator, streamLen, lastValidatedLen, completedValidated>>
  BY DEF CompleteTest, MarkTest, StartAgain, EventLands, testVars, pendingWrites, validatorVars,
         stored, memory, locals, replay, streamVars
<1>2. test' \in Ids /\ events' \in Nat
  BY DEF CoverInv, StreamInv, CompleteTest, MarkTest, StartAgain, EventLands, Ids, testVars,
         streamVars
<1>3. /\ UNCHANGED said \/ Say("completed") \/ Say("failed") \/ Say("running")
      /\ sent \in Nat /\ sent # None
  BY NoneAssumption DEF CompleteTest, MarkTest, StartAgain, EventLands, CoverInv, StreamInv
<1>4. /\ owed # None => owed' = owed
      /\ owed' \in {owed, sent}
      /\ testStatus' = "completed" => testStatus = "completed" \/ owed' # None
  BY <1>3 DEF Say, said
<1>5. StreamInv'
  BY <1>1, <1>2 DEF CoverInv, StreamInv, ReadCap
<1>6. WrittenInv'
  BY <1>1, <1>3, <1>4 DEF CoverInv, WrittenInv
<1>7. status = "completed" \/ completedValidated => owed' = owed
  BY <1>4 DEF CoverInv, WrittenInv, MemoryInv
<1>8. ProgressInv'
  BY <1>1, <1>7 DEF CoverInv, ProgressInv, Prompt, Enough, ReadCap
<1>9. MemoryInv'
  BY <1>1, <1>7 DEF CoverInv, MemoryInv, Prompt, Covers, Enough, ReadCap
<1> QED BY <1>5, <1>6, <1>8, <1>9 DEF CoverInv

\* The steps of the validator.
LEMMA ReadStatusCovers == CoverInv /\ ReadStatus => CoverInv'
PROOF
<1> SUFFICES ASSUME CoverInv, ReadStatus PROVE CoverInv'
  OBVIOUS
<1> USE DEF botVars, testVars, pendingWrites, said, streamVars, stored, memory, replay
<1>1. UNCHANGED <<setup, test, sent, pendingOrders, orders, taken, events, eventsLen, replayed,
                  refEngine, ref, score, said, streamLen, lastValidatedLen,
                  completedValidated>>
  BY DEF ReadStatus
<1>2. status' = testStatus /\ validator' \in {"poll", "len"}
  BY DEF ReadStatus
<1>3. StreamInv'
  BY <1>1 DEF CoverInv, StreamInv, ReadCap
<1>4. WrittenInv'
  BY <1>1, <1>2 DEF CoverInv, WrittenInv
<1>5. ProgressInv'
  BY <1>2 DEF ProgressInv, HasRead, HasStored
<1>6. MemoryInv'
  BY <1>1 DEF CoverInv, MemoryInv, Prompt, Covers, Enough, ReadCap
<1> QED BY <1>3, <1>4, <1>5, <1>6 DEF CoverInv

LEMMA LengthCovers == CoverInv /\ (ReadLength \/ LengthUnknown) => CoverInv'
PROOF
<1> SUFFICES ASSUME CoverInv, ReadLength \/ LengthUnknown PROVE CoverInv'
  OBVIOUS
<1> USE DEF botVars, testVars, pendingWrites, said, streamVars, stored, memory, replay
<1>1. UNCHANGED <<setup, test, sent, pendingOrders, orders, taken, events, eventsLen, replayed,
                  refEngine, ref, score, said, status, lastValidatedLen,
                  completedValidated>>
  BY DEF ReadLength, LengthUnknown
<1>2. /\ streamLen' # None => streamLen' = Len(orders)
      /\ validator' \in {"poll", "orders"}
  BY DEF ReadLength, LengthUnknown, Validating
<1>3. StreamInv' /\ Len(orders) \in Nat
  BY <1>1 DEF CoverInv, StreamInv, ReadCap
<1>4. WrittenInv'
  BY <1>1 DEF CoverInv, WrittenInv
<1>5. ProgressInv'
  BY <1>1, <1>2, <1>3 DEF ProgressInv, HasRead, HasStored
<1>6. MemoryInv'
  BY <1>1 DEF CoverInv, MemoryInv, Prompt, Covers, Enough, ReadCap
<1> QED BY <1>3, <1>4, <1>5, <1>6 DEF CoverInv

\* xrange reads the whole stream or its cap.
LEMMA EnoughIsRead ==
  ASSUME setup \in Setup, NEW T, NEW stream \in Seq(T)
  PROVE  /\ ReadStream(stream) \in Seq(T)
         /\ Len(ReadStream(stream)) \in {Len(stream), ReadCap}
         /\ Len(ReadStream(stream)) <= Len(stream) /\ Len(ReadStream(stream)) <= ReadCap
PROOF
<1> DEFINE l == Min({ReadCap, Len(stream)})
<1>1. ReadCap \in Nat /\ Len(stream) \in Nat
  BY DEF Setup, ReadCap
<1>2. l \in Nat /\ l <= Len(stream) /\ l <= ReadCap /\ l \in {Len(stream), ReadCap}
  BY <1>1, MinOfTwo
<1>3. ReadStream(stream) = SubSeq(stream, 1, l)
  BY DEF ReadStream
<1> HIDE DEF l
<1>4. Len(SubSeq(stream, 1, l)) = l /\ SubSeq(stream, 1, l) \in Seq(T)
  BY <1>1, <1>2
<1> QED BY <1>2, <1>3, <1>4

LEMMA ReadOrdersCovers == CoverInv /\ PipelineInv /\ ReadOrders => CoverInv'
PROOF
<1> SUFFICES ASSUME CoverInv, PipelineInv, ReadOrders PROVE CoverInv'
  OBVIOUS
<1> USE DEF botVars, testVars, pendingWrites, said, streamVars, stored, memory
<1>1. UNCHANGED <<setup, test, sent, pendingOrders, orders, events, eventsLen, ref, score,
                  said, status, streamLen, lastValidatedLen, completedValidated>>
  BY DEF ReadOrders
<1>2. validator = "orders" /\ validator' = "replay" /\ replayed' = 0 /\ refEngine' = EmptyEngine
  BY DEF ReadOrders, Validating
<1>3. setup \in Setup /\ orders \in Seq(Ids) /\ Len(orders) \in Nat
  BY DEF CoverInv, StreamInv
<1>4. /\ taken' \in Seq(Ids) /\ Len(taken') \in {Len(orders), ReadCap}
      /\ Len(taken') <= Len(orders) /\ Len(taken') <= ReadCap /\ Len(taken') \in Nat
  BY <1>3, EnoughIsRead DEF ReadOrders
<1>5. Prompt => Len(orders) = sent
  BY DEF PipelineInv, LogInv, KeptInv, OrdersInv
<1>6. StreamInv'
  BY <1>1, <1>2, <1>4, EmptyIsAnEngine DEF CoverInv, StreamInv, ReadCap
<1>7. WrittenInv'
  BY <1>1 DEF CoverInv, WrittenInv
<1>8. ProgressInv'
  <2>1. streamLen # None => streamLen \in Nat /\ streamLen <= Len(orders)
    BY <1>2 DEF CoverInv, ProgressInv
  <2>2. streamLen # None => Enough(Len(taken'), streamLen)
    BY <1>4, <2>1 DEF Enough
  <2>3. status = "completed" /\ Prompt => Enough(Len(taken'), owed)
    <3>1. sent \in Nat
      BY DEF CoverInv, StreamInv
    <3> QED BY <1>4, <1>5, <3>1 DEF CoverInv, WrittenInv, Enough
  <2>4. score \in Scores => score.totalOrders <= Len(taken')
    BY <1>4 DEF CoverInv, StreamInv
  <2>5. owed' = owed /\ Prompt' = Prompt /\ ReadCap' = ReadCap
    BY <1>1 DEF Prompt, ReadCap
  <2> QED BY <1>1, <1>2, <2>1, <2>2, <2>3, <2>4, <2>5 DEF ProgressInv, HasRead, HasStored, Enough
<1>9. MemoryInv'
  BY <1>1 DEF CoverInv, MemoryInv, Prompt, Covers, Enough, ReadCap
<1> QED BY <1>6, <1>7, <1>8, <1>9 DEF CoverInv

\* An order of any stream of the bot's is one the engine can be served.
LEMMA StreamOrderArrives ==
  ASSUME setup \in Setup, NEW stream \in Seq(Ids), NEW n \in Nat, n + 1 \in DOMAIN stream
  PROVE  /\ OrderAt(stream, n + 1) \in ArrivedOrders(Nat, n + 1)
         /\ OrderAt(stream, n + 1).ts = n + 1
PROOF
<1> DEFINE i == stream[n + 1]
           slot == ((i - 1) % Slots) + 1
<1>1. i \in Nat /\ i >= 1
  BY DEF Ids
<1>2. Slots \in Nat /\ Slots >= 1
  BY DEF Setup, Slots
<1>3. slot \in Nat /\ 100 + (slot % 10) \in Nat
  BY <1>1, <1>2
<1>4. OrderAt(stream, n + 1) = [[id |-> i, side |-> IF slot % 2 = 0 THEN "buy" ELSE "sell",
                                price |-> 100 + (slot % 10), qty |-> 1, ts |-> i]
                               EXCEPT !.ts = n + 1]
  BY DEF OrderAt, NumberedOrder
<1> HIDE DEF slot, i
<1>5. n + 1 \in 1..(n + 1)
  OBVIOUS
<1> QED BY <1>1, <1>3, <1>4, <1>5 DEF ArrivedOrders

LEMMA ReplayCovers == CoverInv /\ (ReplayOrder \/ EndReplay) => CoverInv'
PROOF
<1> SUFFICES ASSUME CoverInv, ReplayOrder \/ EndReplay PROVE CoverInv'
  OBVIOUS
<1> USE DEF botVars, testVars, pendingWrites, said, streamVars, stored, memory
<1>1. UNCHANGED <<setup, test, sent, pendingOrders, orders, taken, events, eventsLen, score,
                  said, status, streamLen, lastValidatedLen, completedValidated>>
  BY DEF ReplayOrder, EndReplay
<1>2. validator \in HasRead /\ validator' \in HasRead /\ validator' \notin HasStored
  BY DEF ReplayOrder, EndReplay, Validating, HasRead, HasStored
<1>3. /\ setup \in Setup /\ taken \in Seq(Ids) /\ Len(taken) \in Nat
      /\ replayed \in 0..Len(taken) /\ refEngine \in EnginesOf(Nat, replayed)
  BY DEF CoverInv, StreamInv
<1>4. StreamInv'
  <2>1. CASE ReplayOrder
    <3>1. replayed \in Nat /\ replayed + 1 \in DOMAIN taken /\ replayed' = replayed + 1
          /\ replayed' \in 0..Len(taken)
      BY <1>3, <2>1 DEF ReplayOrder
    <3>2. refEngine' = ServeOrder(refEngine, OrderAt(taken, replayed + 1)) /\ ref' = ref
      BY <2>1, <3>1 DEF ReplayOrder
    <3>3. OrderAt(taken, replayed + 1) \in ArrivedOrders(Nat, replayed + 1)
          /\ OrderAt(taken, replayed + 1).ts = replayed + 1
      BY <1>3, <3>1, StreamOrderArrives
    <3>4. refEngine' \in EnginesOf(Nat, replayed + 1)
      BY <1>3, <3>1, <3>2, <3>3, ServeFacts
    <3> QED BY <1>1, <3>1, <3>2, <3>4 DEF CoverInv, StreamInv, ReadCap
  <2>2. CASE EndReplay
    <3>1. replayed' = 0 /\ refEngine' = EmptyEngine /\ ref' = ById(refEngine.fills, taken)
      BY <2>2 DEF EndReplay
    <3>2. refEngine.fills \in Seq(ArrivedFills(replayed))
      BY <1>3 DEF EnginesOf
    <3> DEFINE trades == refEngine.fills
    <3>3. DOMAIN trades = 1..Len(trades) /\ Len(trades) \in Nat
      BY <3>2
    <3>4. Len(ref') = Len(trades) /\ DOMAIN ref' = 1..Len(trades)
      <4>1. ref' = [i \in DOMAIN trades |-> [trades[i] EXCEPT !.buy = taken[@], !.sell = taken[@]]]
        BY <3>1 DEF ById
      <4> HIDE DEF trades
      <4>2. DOMAIN ref' = 1..Len(trades)
        BY <3>3, <4>1
      <4>3. Len(ref') = Len(trades)
        <5> DEFINE g(i) == [trades[i] EXCEPT !.buy = taken[@], !.sell = taken[@]]
                   n == Len(trades)
        <5>1. n \in Nat /\ ref' = [i \in 1..n |-> g(i)]
          BY <3>3, <4>1
        <5> HIDE DEF g, n
        <5>2. Len(ref') = n
          BY <5>1
        <5> QED BY <5>2 DEF n
      <4> QED BY <4>2, <4>3
    <3> QED BY <1>1, <1>3, <3>1, <3>3, <3>4, EmptyIsAnEngine DEF CoverInv, StreamInv, ReadCap
  <2> QED BY <2>1, <2>2
<1>5. WrittenInv'
  BY <1>1 DEF CoverInv, WrittenInv
<1>6. ProgressInv'
  BY <1>1, <1>2 DEF CoverInv, ProgressInv, Prompt, Enough, ReadCap
<1>7. MemoryInv'
  BY <1>1 DEF CoverInv, MemoryInv, Prompt, Covers, Enough, ReadCap
<1> QED BY <1>4, <1>5, <1>6, <1>7 DEF CoverInv

LEMMA OtherReadsCover == CoverInv /\ (ReadFills \/ ReadEvents) => CoverInv'
PROOF
<1> SUFFICES ASSUME CoverInv, ReadFills \/ ReadEvents PROVE CoverInv'
  OBVIOUS
<1> USE DEF botVars, testVars, pendingWrites, said, streamVars, stored, memory, replay
<1>1. UNCHANGED <<setup, test, sent, pendingOrders, orders, taken, events, replayed, refEngine,
                  ref, score, said, status, streamLen, lastValidatedLen,
                  completedValidated>>
  BY DEF ReadFills, ReadEvents
<1>2. validator \in HasRead /\ validator' \in HasRead /\ validator' \notin HasStored
  BY DEF ReadFills, ReadEvents, Validating, HasRead, HasStored
<1>3. eventsLen' \in Nat
  BY DEF CoverInv, StreamInv, ReadFills, ReadEvents
<1>4. StreamInv'
  BY <1>1, <1>3 DEF CoverInv, StreamInv, ReadCap
<1>5. WrittenInv'
  BY <1>1 DEF CoverInv, WrittenInv
<1>6. ProgressInv'
  BY <1>1, <1>2 DEF CoverInv, ProgressInv, Prompt, Enough, ReadCap
<1>7. MemoryInv'
  BY <1>1 DEF CoverInv, MemoryInv, Prompt, Covers, Enough, ReadCap
<1> QED BY <1>4, <1>5, <1>6, <1>7 DEF CoverInv

\* The rate that is stored.
LEMMA RateIsRate ==
  ASSUME NEW reference, NEW theirs, NEW n \in Nat, NEW o \in Nat,
         Len(reference) \in Nat, DOMAIN reference = 1..Len(reference)
  PROVE  MatchRate(reference, theirs, n, o) \in Rates
PROOF
<1> DEFINE Same == {i \in DOMAIN reference : i \in DOMAIN theirs /\ theirs[i] = reference[i]}
<1>1. Matched(reference, theirs) \in Nat
  <2>1. IsFiniteSet(1..Len(reference))
    BY FS_Interval
  <2>2. Same \subseteq 1..Len(reference)
    OBVIOUS
  <2> HIDE DEF Same
  <2>3. IsFiniteSet(Same)
    BY <2>1, <2>2, FS_Subset
  <2>4. Cardinality(Same) \in Nat
    BY <2>3, FS_CardinalityType
  <2> QED BY <2>4 DEF Matched, Same
<1> HIDE DEF Same
<1>2. 2 * o \in Nat /\ 0 \in Nat /\ 1 \in Nat
  OBVIOUS
<1> QED BY <1>1, <1>2 DEF MatchRate, Rates

LEMMA StoreCovers == CoverInv /\ (StoreRate \/ StoreSummary) => CoverInv'
PROOF
<1> SUFFICES ASSUME CoverInv, StoreRate \/ StoreSummary PROVE CoverInv'
  OBVIOUS
<1> USE DEF botVars, testVars, pendingWrites, said, streamVars, memory, locals, replay
<1>1. UNCHANGED <<setup, test, sent, pendingOrders, orders, taken, events, eventsLen, replayed,
                  refEngine, ref, said, status, streamLen, lastValidatedLen,
                  completedValidated>>
  BY DEF StoreRate, StoreSummary
<1>2. validator' \in HasStored /\ validator' \notin HasRead
      /\ validator \in HasRead \cup HasStored
  BY DEF StoreRate, StoreSummary, Validating, HasRead, HasStored
<1>3. /\ Len(taken) \in Nat /\ Len(taken) <= Len(orders) /\ Len(taken) <= ReadCap
      /\ eventsLen \in Nat /\ Len(ref) \in Nat /\ DOMAIN ref = 1..Len(ref)
      /\ Len(orders) \in Nat /\ setup \in Setup
  BY DEF CoverInv, StreamInv
<1>4. None \notin Scores
  BY NoneAssumption
<1>5. /\ score' \in Scores /\ score'.totalOrders = Len(taken)
      /\ score \in Scores => score.totalOrders \in Nat /\ score.totalOrders <= Len(taken)
  <2>1. CASE StoreRate
    <3>1. MatchRate(ref, contestant, eventsLen, Len(taken)) \in Rates
      BY <1>3, RateIsRate
    <3>2. score' = [rate |-> MatchRate(ref, contestant, eventsLen, Len(taken)),
                    totalOrders |-> Len(taken)]
      BY <2>1 DEF StoreRate
    <3>3. validator \in HasRead
      BY <2>1 DEF StoreRate, Validating, HasRead
    <3>4. score \in Scores => score.totalOrders <= Len(taken)
      BY <3>3 DEF CoverInv, ProgressInv
    <3> QED BY <1>3, <3>1, <3>2, <3>4 DEF Scores
  <2>2. CASE StoreSummary
    <3>1. validator \in HasStored /\ score' = score
      BY <2>2 DEF StoreSummary, Validating, HasStored
    <3>2. score \in Scores /\ score.totalOrders = Len(taken)
      BY <3>1 DEF CoverInv, ProgressInv
    <3> QED BY <1>3, <3>1, <3>2
  <2> QED BY <2>1, <2>2
<1>6. StreamInv'
  <2>1. ReadCap' = ReadCap
    BY <1>1 DEF ReadCap
  <2> QED BY <1>1, <1>3, <1>5, <2>1 DEF CoverInv, StreamInv
<1>7. WrittenInv'
  BY <1>1 DEF CoverInv, WrittenInv
<1>8. ProgressInv'
  BY <1>1, <1>2, <1>5 DEF CoverInv, ProgressInv, Prompt, Enough, ReadCap
<1>9. MemoryInv'
  <2>1. /\ ReadCap \in Nat
        /\ owed # None => owed \in Nat
    BY <1>3 DEF Setup, ReadCap, CoverInv, WrittenInv
  <2>2. ASSUME NEW n \in Nat, Covers(n) PROVE Covers(n)'
    BY <1>1, <1>3, <1>5, <2>1, <2>2 DEF Covers, Enough, ReadCap
  <2> QED BY <1>1, <2>1, <2>2 DEF CoverInv, MemoryInv, Prompt
<1> QED BY <1>6, <1>7, <1>8, <1>9 DEF CoverInv

LEMMA RememberCovers == CoverInv /\ (Remember \/ ValidationFails) => CoverInv'
PROOF
<1> SUFFICES ASSUME CoverInv, Remember \/ ValidationFails PROVE CoverInv'
  OBVIOUS
<1> USE DEF botVars, testVars, pendingWrites, said, streamVars, stored, memory, locals, replay
<1>1. /\ UNCHANGED <<setup, test, sent, pendingOrders, orders, taken, events, eventsLen, replayed,
                     refEngine, ref, score, said, status, streamLen>>
      /\ validator' = "poll"
  BY DEF Remember, ValidationFails, Validating
<1>2. StreamInv'
  BY <1>1 DEF CoverInv, StreamInv, ReadCap
<1>3. WrittenInv'
  BY <1>1 DEF CoverInv, WrittenInv
<1>4. ProgressInv'
  BY <1>1 DEF ProgressInv, HasRead, HasStored
<1>5. MemoryInv'
  <2>1. CASE Remember
    <3>1. /\ validator = "remember" /\ lastValidatedLen' = streamLen
          /\ completedValidated' => completedValidated \/ status = "completed"
      BY <2>1 DEF Remember, Validating
    <3>2. validator \in HasStored
      BY <3>1 DEF HasStored
    <3>3. /\ streamLen # None => Covers(streamLen) /\ streamLen \in Nat /\ streamLen <= Len(orders)
          /\ status = "completed" => owed # None /\ (Prompt => Covers(owed))
      BY <3>2 DEF CoverInv, ProgressInv, WrittenInv, Covers
    <3> QED BY <1>1, <3>1, <3>3 DEF CoverInv, MemoryInv, Prompt, Covers, Enough, ReadCap
  <2>2. CASE ValidationFails
    BY <1>1, <2>2 DEF CoverInv, MemoryInv, Prompt, Covers, Enough, ReadCap, ValidationFails
  <2> QED BY <2>1, <2>2
<1> QED BY <1>2, <1>3, <1>4, <1>5 DEF CoverInv

LEMMA CoverNext == CoverInv /\ PipelineInv /\ [Next]_vars => CoverInv'
PROOF
<1> SUFFICES ASSUME CoverInv, PipelineInv, [Next]_vars PROVE CoverInv'
  OBVIOUS
<1>1. CASE SendOrder \/ SendFails
  BY <1>1, SendCovers
<1>2. CASE OrderLands
  BY <1>2, OrderLandsCovers
<1>3. CASE CompleteTest \/ MarkTest \/ StartAgain \/ EventLands
  BY <1>3, StatusCovers
<1>4. CASE ReadStatus
  BY <1>4, ReadStatusCovers
<1>5. CASE ReadLength \/ LengthUnknown
  BY <1>5, LengthCovers
<1>6. CASE ReadOrders
  BY <1>6, ReadOrdersCovers
<1>7. CASE ReplayOrder \/ EndReplay
  BY <1>7, ReplayCovers
<1>8. CASE ReadFills \/ ReadEvents
  BY <1>8, OtherReadsCover
<1>9. CASE StoreRate \/ StoreSummary
  BY <1>9, StoreCovers
<1>10. CASE Remember \/ ValidationFails
  BY <1>10, RememberCovers
<1>11. CASE \/ RecordResponse \/ RecordNothing \/ AckTimesOut \/ ConnectionBreaks \/ ServeOrphan
            \/ FillLands
  <2>1. UNCHANGED coverVars
    BY <1>11 DEF RecordResponse, RecordNothing, AckTimesOut, ConnectionBreaks, ServeOrphan,
                 FillLands, coverVars, testVars, said, pendingWrites, streamVars, validatorVars,
                 stored, memory, locals, replay
  <2> QED BY <2>1, CoverStutters
<1>12. CASE UNCHANGED vars
  <2>1. UNCHANGED coverVars
    BY <1>12 DEF vars, coverVars, botVars, testVars, said, pendingWrites, streamVars,
                 validatorVars, stored, memory, locals, replay
  <2> QED BY <2>1, CoverStutters
<1> QED
  BY <1>1, <1>2, <1>3, <1>4, <1>5, <1>6, <1>7, <1>8, <1>9, <1>10, <1>11, <1>12
     DEF Next, Bot, Poll, Trouble

\* The invariant gives what a poll that passes by relies on.
LEMMA CoverSkips ==
  CoverInv => [/\ ReadLength /\ validator' = "poll" => Covers(Len(orders))
               /\ ReadStatus /\ validator' = "poll" /\ testStatus # "failed" /\ Prompt
                    => owed # None /\ Covers(owed)]_vars
PROOF
<1> SUFFICES ASSUME CoverInv
             PROVE  /\ ReadLength /\ validator' = "poll" => Covers(Len(orders))
                    /\ ReadStatus /\ validator' = "poll" /\ testStatus # "failed" /\ Prompt
                         => owed # None /\ Covers(owed)
  OBVIOUS
<1>1. ASSUME ReadLength, validator' = "poll" PROVE Covers(Len(orders))
  <2>1. lastValidatedLen = Len(orders)
    BY <1>1 DEF ReadLength
  <2>2. lastValidatedLen # None
    BY <2>1, NoneAssumption DEF CoverInv, StreamInv
  <2> QED BY <2>1, <2>2 DEF CoverInv, MemoryInv
<1>2. ASSUME ReadStatus, validator' = "poll", testStatus # "failed", Prompt
      PROVE  owed # None /\ Covers(owed)
  BY <1>2 DEF ReadStatus, CoverInv, MemoryInv
<1> QED BY <1>1, <1>2

\* For any length and number of tests, one after the other, any cap and any number of
\* failures, and whatever POST test/complete claims: a poll that passes a submission by,
\* as no longer than before, leaves a score behind that replayed all there is, or all a
\* read returns; as completed and validated, one that replayed all that had been sent
\* when a test was first said to be completed.
THEOREM SkipsOnlyScored == Spec => SkippedIsScored
PROOF
<1>1. Spec => [](PipelineInv /\ CoverInv)
  BY PipelineInit, PipelineNext, CoverInit, CoverNext, PTL DEF Spec
<1> QED BY <1>1, CoverSkips, PTL DEF SkippedIsScored, Spec

---------------------------------------------------------------------------
(* What a contestant gets that fills nothing, and one that fills everything. *)

\* The bot's first two orders cross: a sell at 101, and a buy at 102.
LEMMA LogCrosses ==
  ASSUME NEW log, NEW slots \in Nat, slots >= 2, IsLog(log, slots)
  PROVE  log[2].fills # <<>>
PROOF
<1> DEFINE first == OrderOf(slots, 1)
           second == OrderOf(slots, 2)
<1>1. first = [id |-> 1, side |-> "sell", price |-> 101, qty |-> 1, ts |-> 1]
  <2>1. ((1 - 1) % slots) + 1 = 1
    OBVIOUS
  <2> QED BY <2>1 DEF OrderOf
<1>2. second = [id |-> 2, side |-> "buy", price |-> 102, qty |-> 1, ts |-> 2]
  <2>1. ((2 - 1) % slots) + 1 = 2
    OBVIOUS
  <2> QED BY <2>1 DEF OrderOf
<1>3. /\ log[0] = EmptyEngine /\ log[1] = ServeOrder(log[0], first)
      /\ log[2] = ServeOrder(log[1], second)
      /\ log[0] \in EnginesOf(Nat, 0) /\ log[1] \in EnginesOf(Nat, 0 + 1)
  <2>1. \A n \in Nat : log[n] \in EnginesOf(Nat, n) /\ log[n + 1] = ServeOrder(log[n], OrderOf(slots, n + 1))
    BY DEF IsLog
  <2>2. 0 \in Nat /\ 1 \in Nat /\ 0 + 1 = 1 /\ 1 + 1 = 2
    OBVIOUS
  <2> QED BY <2>1, <2>2 DEF IsLog
<1>4. /\ first \in ArrivedOrders(Nat, 0 + 1) /\ first.ts = 0 + 1
      /\ second \in ArrivedOrders(Nat, (0 + 1) + 1) /\ second.ts = (0 + 1) + 1
  BY <1>1, <1>2 DEF ArrivedOrders
<1> HIDE DEF first, second
<1>5. log[1].sells = {first}
  <2> DEFINE s == Begun(log[0], first)
  <2>1. /\ s \in LoopStates(Nat, 0 + 1) /\ s.engine.buys = log[0].buys
        /\ s.engine.sells = log[0].sells /\ log[1] = Finish(End(s))
    BY <1>3, <1>4, ServeBegins
  <2>2. s.order = first
    BY DEF Begun
  <2>3. s.engine.buys = {} /\ s.engine.sells = {}
    BY <1>3, <2>1 DEF EmptyEngine
  <2>4. ~GoesOn(s)
    BY <1>1, <2>2, <2>3 DEF GoesOn, Against
  <2>5. End(s) = s
    BY <2>1, <2>4, ServeRests
  <2>6. s.engine \in EnginesOf(Nat, 0 + 1)
    BY <2>1 DEF LoopStates
  <2> HIDE DEF s
  <2>7. Finish(s) = [s.engine EXCEPT !.sells = @ \cup {s.order}]
    BY <1>1, <2>2 DEF Finish
  <2>8. Finish(s).sells = s.engine.sells \cup {s.order}
    BY <2>6, <2>7 DEF EnginesOf
  <2> QED BY <2>1, <2>2, <2>3, <2>5, <2>8
<1> DEFINE s == Begun(log[1], second)
<1>6. /\ s \in LoopStates(Nat, (0 + 1) + 1) /\ s.engine.sells = {first}
      /\ log[2] = Finish(End(s))
  BY <1>3, <1>4, <1>5, ServeBegins
<1>7. s.order = second
  BY DEF Begun
<1> HIDE DEF s
<1>8. GoesOn(s)
  <2>1. Against(s) = {first}
    BY <1>2, <1>6, <1>7 DEF Against
  <2>2. BestAgainst(s) = first
    BY <2>1 DEF BestAgainst, BestOf
  <2> QED BY <1>1, <1>2, <1>7, <2>1, <2>2 DEF GoesOn
<1>9. End(s).engine.fills # <<>>
  BY <1>6, <1>8, ServeFills
<1>10. End(s).engine \in EnginesOf(Nat, (0 + 1) + 1)
  <2>1. PICK k \in Nat : End(s) \in After(s)[k]
    BY <1>6, LoopEnds
  <2>2. End(s) \in LoopStates(Nat, (0 + 1) + 1)
    BY <1>6, <2>1, AfterFacts
  <2> QED BY <2>2 DEF LoopStates
<1>11. Finish(End(s)).fills = End(s).engine.fills
  BY <1>10 DEF Finish, EnginesOf
<1> QED BY <1>6, <1>9, <1>11

\* What a test of two orders or more leaves unfilled by an echo's account.
Echoing == ~Honest /\ Prompt /\ Slots >= 2

\* The validator takes a test for done that was first said to be completed after two orders.
Settled == completedValidated /\ owed >= 2 /\ ReadCap >= 2

EchoInv ==
  ~Honest => engine = EmptyEngine /\ pendingFills = {} /\ fills = <<>> /\ contestant = <<>>

CrossedInv ==
  Prompt /\ Slots >= 2 /\ validator \in {"fills", "events", "store"} /\ Len(taken) >= 2
    => ref # <<>>

EchoScoreInv ==
  Echoing =>
    /\ score \in Scores /\ score.totalOrders >= 2 => Partial(score.rate)
    /\ validator = "remember" => summary = score.rate
    /\ Settled => Partial(score.rate) /\ Partial(summary)

LEMMA EchoInit == Init => EchoInv /\ CrossedInv /\ EchoScoreInv
PROOF
<1> SUFFICES ASSUME Init PROVE EchoInv /\ CrossedInv /\ EchoScoreInv
  OBVIOUS
<1>1. score = None /\ None \notin Scores
  BY NoneAssumption DEF Init
<1> QED BY <1>1 DEF Init, EchoInv, CrossedInv, EchoScoreInv, Settled

LEMMA EchoNext == PipelineInv /\ EchoInv /\ [Next]_vars => EchoInv'
PROOF
<1> SUFFICES ASSUME PipelineInv, EchoInv, [Next]_vars PROVE EchoInv'
  OBVIOUS
<1> USE DEF EchoInv, Honest
<1>1. CASE RecordResponse
  <2>1. SUFFICES ASSUME ~Honest PROVE engine' = EmptyEngine /\ pendingFills' = {}
    BY <1>1 DEF RecordResponse, testVars, streamVars, validatorVars, locals
  <2>2. engine' = engine /\ engine = EmptyEngine /\ pendingFills = {}
    BY <1>1, <2>1 DEF RecordResponse, Serve
  <2>3. Len(engine.fills) = 0
    BY <2>2 DEF EmptyEngine
  <2>4. Len(engine.fills) + 1 .. Len(engine'.fills) = {}
    BY <2>2, <2>3
  <2> QED BY <1>1, <2>2, <2>4 DEF RecordResponse
<1>2. CASE FillLands
  BY <1>2 DEF FillLands, testVars, contestantVars, validatorVars, locals
<1>3. CASE ReadFills
  <2>1. SUFFICES ASSUME ~Honest PROVE contestant' = <<>>
    BY <1>3 DEF ReadFills, botVars, testVars, contestantVars, pendingWrites, streamVars
  <2>2. setup \in Setup
    BY DEF PipelineInv, LinkInv, SentInv
  <2>3. fills = <<>>
    BY <2>1
  <2>4. fills \in Seq(Nat) /\ Len(fills) = 0
    BY <2>3
  <2>5. ReadStream(fills) \in Seq(Nat) /\ Len(ReadStream(fills)) <= 0
    BY <2>2, <2>4, EnoughIsRead
  <2>6. ReadStream(fills) = <<>>
    BY <2>5
  <2> QED BY <1>3, <2>6 DEF ReadFills
<1>4. CASE \/ SendOrder \/ SendFails \/ RecordNothing \/ AckTimesOut \/ ConnectionBreaks
           \/ OrderLands \/ EventLands \/ CompleteTest \/ MarkTest \/ StartAgain
  BY <1>4 DEF SendOrder, SendFails, RecordNothing, AckTimesOut, ConnectionBreaks, OrderLands,
              EventLands, CompleteTest, MarkTest, StartAgain, testVars, contestantVars,
              pendingWrites, streamVars, validatorVars, locals
<1>5. CASE ServeOrphan
  BY <1>5 DEF ServeOrphan, testVars
<1>6. CASE \/ ReadStatus \/ ReadLength \/ LengthUnknown \/ ReadOrders \/ ReplayOrder \/ EndReplay
           \/ ReadEvents \/ StoreRate \/ StoreSummary \/ Remember \/ ValidationFails
  BY <1>6 DEF ReadStatus, ReadLength, LengthUnknown, ReadOrders, ReplayOrder, EndReplay, ReadEvents,
              StoreRate, StoreSummary, Remember, ValidationFails, botVars, testVars,
              contestantVars, pendingWrites, streamVars, locals
<1>7. CASE UNCHANGED vars
  BY <1>7 DEF vars, botVars, testVars, contestantVars, pendingWrites, streamVars, validatorVars,
              locals
<1> QED BY <1>1, <1>2, <1>3, <1>4, <1>5, <1>6, <1>7 DEF Next, Bot, Poll, Trouble

LEMMA CrossedNext == PipelineInv /\ CrossedInv /\ [Next]_vars => CrossedInv'
PROOF
<1> SUFFICES ASSUME PipelineInv, CrossedInv, [Next]_vars PROVE CrossedInv'
  OBVIOUS
<1> USE DEF CrossedInv, Prompt, Slots
<1>1. CASE EndReplay
  <2>1. SUFFICES ASSUME Prompt, Slots >= 2, Len(taken) >= 2 PROVE ref' # <<>>
    BY <1>1 DEF EndReplay, botVars, testVars
  <2>2. PICK log : IsLog(log, Slots) /\ OrdersInv /\ ReplayInv(log)
    BY <2>1 DEF PipelineInv, LogInv, KeptInv
  <2>3. Len(taken) \in Nat /\ refEngine = log[Len(taken)] /\ Slots \in Nat
    BY <1>1, <2>2 DEF EndReplay, OrdersInv, ReplayInv, Numbers, PipelineInv, LinkInv, SentInv, Setup
  <2>4. log[2].fills # <<>>
    BY <2>1, <2>2, <2>3, LogCrosses
  <2>5. log[2].fills \in Seq(Trades) /\ refEngine.fills \in Seq(Trades)
    BY <2>2, <2>3, TradesOfLog
  <2>6. Len(taken) - 2 \in Nat /\ 2 + (Len(taken) - 2) = Len(taken)
    BY <2>1, <2>3
  <2>7. Extends(refEngine.fills, log[2].fills)
    BY <2>2, <2>3, <2>6, LogGrows
  <2>8. 1 \in DOMAIN log[2].fills
    BY <2>4, <2>5
  <2>9. 1 \in DOMAIN refEngine.fills
    BY <2>7, <2>8 DEF Extends
  <2>10. DOMAIN ref' = DOMAIN refEngine.fills
    BY <1>1 DEF EndReplay, ById
  <2> QED BY <2>9, <2>10
<1>2. CASE ReadFills \/ ReadEvents
  BY <1>2 DEF ReadFills, ReadEvents, Validating, botVars, testVars, replay
<1>3. CASE \/ ReadStatus \/ ReadLength \/ LengthUnknown \/ ReadOrders \/ StoreRate
           \/ StoreSummary \/ Remember \/ ValidationFails
  BY <1>3 DEF ReadStatus, ReadLength, LengthUnknown, ReadOrders, StoreRate, StoreSummary,
              Remember, ValidationFails, Validating
<1>4. CASE ReplayOrder
  BY <1>4 DEF ReplayOrder
<1>5. CASE \/ Bot \/ StartAgain \/ AckTimesOut \/ ConnectionBreaks \/ ServeOrphan \/ MarkTest
           \/ UNCHANGED vars
  <2>1. UNCHANGED <<setup, validator, taken, ref>>
    BY <1>5 DEF Bot, SendOrder, SendFails, RecordResponse, RecordNothing, CompleteTest, OrderLands,
                FillLands, EventLands, StartAgain, AckTimesOut, ConnectionBreaks, ServeOrphan,
                MarkTest, vars, botVars, testVars, validatorVars, locals, replay
  <2> QED BY <2>1
<1> QED BY <1>1, <1>2, <1>3, <1>4, <1>5 DEF Next, Poll, Trouble

LEMMA EchoScoreNext ==
  PipelineInv /\ CoverInv /\ EchoInv /\ CrossedInv /\ EchoScoreInv /\ [Next]_vars => EchoScoreInv'
PROOF
<1> SUFFICES ASSUME PipelineInv, CoverInv, EchoInv, CrossedInv, EchoScoreInv, [Next]_vars
             PROVE  EchoScoreInv'
  OBVIOUS
<1>1. UNCHANGED setup
  BY DEF Next, Bot, SendOrder, SendFails, RecordResponse, RecordNothing, OrderLands, FillLands,
         EventLands, CompleteTest, StartAgain, Poll, ReadStatus, ReadLength, ReadOrders,
         ReplayOrder, EndReplay, ReadFills, ReadEvents, StoreRate, StoreSummary, Remember,
         Trouble, AckTimesOut, ConnectionBreaks, ServeOrphan, MarkTest, LengthUnknown,
         ValidationFails, vars, botVars, testVars
<1>2. Echoing' = Echoing /\ ReadCap' = ReadCap
  BY <1>1 DEF Echoing, Honest, Prompt, Slots, ReadCap
<1>3. SUFFICES ASSUME Echoing
               PROVE  /\ score' \in Scores /\ score'.totalOrders >= 2 => Partial(score'.rate)
                      /\ validator' = "remember" => summary' = score'.rate
                      /\ completedValidated' /\ owed' >= 2 /\ ReadCap >= 2
                           => Partial(score'.rate) /\ Partial(summary')
  BY <1>2 DEF EchoScoreInv, Settled, Partial
<1>4. /\ score \in Scores /\ score.totalOrders >= 2 => Partial(score.rate)
      /\ validator = "remember" => summary = score.rate
      /\ completedValidated /\ owed >= 2 /\ ReadCap >= 2 => Partial(score.rate) /\ Partial(summary)
  BY <1>3 DEF EchoScoreInv, Settled
<1>5. Prompt /\ Slots >= 2 /\ Slots \in Nat /\ ReadCap \in Nat
  BY <1>3 DEF Echoing, CoverInv, StreamInv, Setup, Slots, ReadCap
<1>6. CASE StoreRate
  <2>1. /\ validator = "store" /\ validator' = "summarise" /\ summary' = summary
        /\ UNCHANGED <<completedValidated, owed>>
        /\ score' = [rate |-> MatchRate(ref, contestant, eventsLen, Len(taken)),
                     totalOrders |-> Len(taken)]
    BY <1>6 DEF StoreRate, Validating, memory, botVars, said
  <2>2. /\ eventsLen \in Nat /\ Len(taken) \in Nat /\ Len(ref) \in Nat
        /\ DOMAIN ref = 1..Len(ref)
    BY DEF CoverInv, StreamInv
  <2>3. ASSUME Len(taken) >= 2 PROVE Partial(score'.rate)
    <3>1. ref # <<>> /\ contestant = <<>>
      BY <1>3, <1>5, <2>1, <2>3 DEF CrossedInv, EchoInv, Echoing
    <3>2. score'.rate = MatchRate(ref, contestant, eventsLen, Len(taken))
      BY <2>1
    <3>3. score'.rate \in Rates
      BY <2>2, <3>2, RateIsRate
    <3>4. score'.rate # None
      BY <3>3, NoneAssumption
    <3>5. score'.rate = IF eventsLen = 0 THEN <<0, 1>>
                        ELSE <<IF eventsLen <= Len(taken) THEN eventsLen ELSE Len(taken),
                               2 * Len(taken)>>
      BY <3>1, <3>2 DEF MatchRate
    <3>6. score'.rate[1] * 2 <= score'.rate[2]
      BY <2>2, <3>5
    <3> QED BY <3>4, <3>6 DEF Partial
  <2>4. score'.totalOrders = Len(taken)
    BY <2>1
  <2>5. ASSUME completedValidated, owed >= 2, ReadCap >= 2 PROVE Len(taken) >= 2
    <3>1. score \in Scores /\ Enough(score.totalOrders, owed) /\ owed \in Nat
      BY <1>5, <2>5 DEF CoverInv, WrittenInv, MemoryInv, Covers
    <3>2. score.totalOrders \in Nat /\ score.totalOrders >= 2
      BY <1>5, <2>5, <3>1 DEF Scores, Enough
    <3>3. score.totalOrders <= Len(taken)
      BY <2>1, <3>1 DEF CoverInv, ProgressInv, HasRead
    <3> QED BY <2>2, <3>2, <3>3
  <2> QED BY <1>4, <2>1, <2>3, <2>4, <2>5
<1>7. CASE StoreSummary
  <2>1. summary' = score.rate /\ UNCHANGED <<score, completedValidated, owed>>
    BY <1>7 DEF StoreSummary, memory, botVars, said
  <2> QED BY <1>4, <2>1
<1>8. CASE Remember
  <2>1. /\ validator = "remember" /\ validator' = "poll" /\ UNCHANGED <<score, summary, owed>>
        /\ completedValidated' => completedValidated \/ status = "completed"
    BY <1>8 DEF Remember, Validating, stored, botVars, said
  <2>2. ASSUME status = "completed", owed >= 2, ReadCap >= 2
        PROVE  Partial(score.rate) /\ summary = score.rate
    <3>1. /\ score \in Scores /\ score.totalOrders = Len(taken) /\ Enough(Len(taken), owed)
          /\ owed \in Nat
      BY <1>5, <2>1, <2>2 DEF CoverInv, WrittenInv, ProgressInv, HasStored
    <3>2. Len(taken) \in Nat /\ Len(taken) >= 2
      BY <1>5, <2>2, <3>1 DEF Enough, CoverInv, StreamInv
    <3> QED BY <1>4, <2>1, <3>1, <3>2
  <2> QED BY <1>4, <2>1, <2>2
<1>9. CASE \/ ReadStatus \/ ReadLength \/ LengthUnknown \/ ReadOrders \/ ReplayOrder \/ EndReplay
           \/ ReadFills \/ ReadEvents \/ ValidationFails
  <2>1. UNCHANGED <<score, summary, completedValidated, owed>> /\ validator' # "remember"
    BY <1>9 DEF ReadStatus, ReadLength, LengthUnknown, ReadOrders, ReplayOrder, EndReplay,
                ReadFills, ReadEvents, ValidationFails, Validating, stored, memory, botVars, said
  <2> QED BY <1>4, <2>1
<1>10. CASE \/ SendOrder \/ SendFails \/ RecordResponse \/ RecordNothing \/ OrderLands \/ FillLands
            \/ EventLands \/ AckTimesOut \/ ConnectionBreaks \/ ServeOrphan \/ UNCHANGED vars
  <2>1. UNCHANGED <<score, summary, completedValidated, owed, validator>>
    BY <1>10 DEF SendOrder, SendFails, RecordResponse, RecordNothing, OrderLands, FillLands,
                 EventLands, AckTimesOut, ConnectionBreaks, ServeOrphan, vars, botVars, said,
                 validatorVars, stored, memory
  <2> QED BY <1>4, <2>1
<1>11. CASE CompleteTest \/ StartAgain \/ MarkTest
  <2>1. UNCHANGED <<score, summary, completedValidated, validator>>
    BY <1>11 DEF CompleteTest, StartAgain, MarkTest, validatorVars, stored, memory
  <2>2. owed # None => owed' = owed
    BY <1>11 DEF CompleteTest, StartAgain, MarkTest, Say
  <2>3. completedValidated => owed # None
    BY DEF CoverInv, MemoryInv
  <2> QED BY <1>4, <2>1, <2>2, <2>3
<1> QED BY <1>6, <1>7, <1>8, <1>9, <1>10, <1>11 DEF Next, Bot, Poll, Trouble

\* What an echo has got once its first two orders have been replayed, and what it is
\* left with once the validator takes its test for done: unless the test was said to be
\* completed before they were sent.
EchoIsHalved ==
  Echoing =>
    /\ score # None /\ score.totalOrders >= 2 => Partial(score.rate)
    /\ Settled => score # None /\ Partial(score.rate) /\ Partial(summary)

\* For any length and number of tests, one after the other, and any number of failures: a
\* contestant that fills nothing has half the points at most from the first validation on
\* that replays two orders, under both keys once a test that was first said to be
\* completed after two orders has been validated; the full points of an earlier poll
\* do not survive.
THEOREM EchoNeverGetsMore == Spec => []EchoIsHalved
PROOF
<1>1. Spec => [](PipelineInv /\ CoverInv /\ EchoInv /\ CrossedInv /\ EchoScoreInv)
  BY PipelineInit, PipelineNext, CoverInit, CoverNext, EchoInit, EchoNext, CrossedNext,
     EchoScoreNext, PTL DEF Spec
<1>2. CoverInv /\ EchoScoreInv => EchoIsHalved
  BY NoneAssumption
     DEF CoverInv, StreamInv, MemoryInv, Covers, EchoScoreInv, EchoIsHalved, Settled, Echoing
<1> QED BY <1>1, <1>2, PTL

\* What is stored for an honest contestant once it has a fill: it is docked for the fills
\* that are not there when its stream is read, and for nothing else.
HonestRate ==
  [][StoreRate /\ Honest /\ Prompt /\ Unbroken /\ eventsLen # 0
      /\ ref # <<>> /\ contestant # <<>>
       => score'.rate = <<Min({Len(ref), Len(contestant)}), Len(ref)>>]_vars

LEMMA PipelineRates ==
  PipelineInv => [StoreRate /\ Honest /\ Prompt /\ Unbroken /\ eventsLen # 0
                    /\ ref # <<>> /\ contestant # <<>>
                    => score'.rate = <<Min({Len(ref), Len(contestant)}), Len(ref)>>]_vars
PROOF
<1> SUFFICES ASSUME PipelineInv, StoreRate, Honest, Prompt, Unbroken, eventsLen # 0, ref # <<>>,
                    contestant # <<>>
             PROVE  score'.rate = <<Min({Len(ref), Len(contestant)}), Len(ref)>>
  OBVIOUS
<1>1. score'.rate = <<Matched(ref, contestant), Len(ref)>>
  BY DEF StoreRate, MatchRate
<1>2. PICK log : ReplayInv(log) /\ FillsInv(log)
  BY DEF PipelineInv, LogInv, KeptInv
<1>3. /\ Len(ref) \in Nat /\ DOMAIN ref = 1..Len(ref)
      /\ Len(contestant) \in Nat /\ DOMAIN contestant = 1..Len(contestant)
  BY <1>2 DEF ReplayInv, FillsInv, HeadOfLog
<1> DEFINE l == Min({Len(ref), Len(contestant)})
<1>4. l = IF Len(ref) <= Len(contestant) THEN Len(ref) ELSE Len(contestant)
  BY <1>3, MinOfTwo
<1>5. {i \in DOMAIN ref : i \in DOMAIN contestant /\ contestant[i] = ref[i]} = 1..l
  <2>1. \A i \in DOMAIN ref \cap DOMAIN contestant : ref[i] = contestant[i]
    BY PipelineAgrees DEF PrefixesAgree
  <2> HIDE DEF l
  <2> QED BY <1>3, <1>4, <2>1
<1>6. l \in Nat
  BY <1>3, <1>4
<1> HIDE DEF l
<1>7. Cardinality(1..l) = l
  BY <1>6, FS_Interval
<1>8. Matched(ref, contestant) = l
  BY <1>5, <1>7 DEF Matched
<1> QED BY <1>1, <1>8 DEF l

\* For any length and number of tests, one after the other, any cap and any number of
\* failures: while writes land in order and no test before the one that runs has lost an
\* order or an ack, an honest contestant that has a fill is docked for nothing but the fills
\* that are missing from its stream when it is read: late ones, and in a test with a
\* loss those that never come.
THEOREM HonestIsOnlyDockedForMissingFills == Spec => HonestRate
PROOF
<1>1. Spec => []PipelineInv
  BY PipelineInit, PipelineNext, PTL DEF Spec
<1> QED BY <1>1, PipelineRates, PTL DEF HonestRate, Spec

---------------------------------------------------------------------------
(* What the flusher makes of it. *)

\* Whichever key it looks at, and whatever it found before: what the flusher reads for an
\* echo once its test, first said to be completed after two orders, has been validated is
\* half the points at most, and goes to the board.  The entry with all of them that
\* EchoTopIsPartial trips over is an older one.
EchoIsReadHalved ==
  [][(ReadSummary \/ ReadRate) /\ Echoing /\ Settled
       => Partial(read') /\ flusher' = "publish"]_allVars

\* For any length and number of tests, one after the other, any cap and any number of
\* failures.
THEOREM FlusherReadsHalf == BoardSpec => EchoIsReadHalved
PROOF
<1>1. BoardSpec => []EchoIsHalved
  BY BoardIsPipeline, EchoNeverGetsMore, PTL
<1>2. EchoIsHalved => [(ReadSummary \/ ReadRate) /\ Echoing /\ Settled
                         => Partial(read') /\ flusher' = "publish"]_allVars
  <2>1. SUFFICES ASSUME EchoIsHalved, ReadSummary \/ ReadRate, Echoing, Settled
                 PROVE  Partial(read') /\ flusher' = "publish"
    OBVIOUS
  <2>2. score # None /\ Partial(score.rate) /\ Partial(summary)
    BY <2>1 DEF EchoIsHalved
  <2>3. CASE ReadSummary
    <3>1. summary # None
      BY <2>2 DEF Partial
    <3> QED BY <2>2, <2>3, <3>1 DEF ReadSummary
  <2>4. CASE ReadRate
    BY <2>2, <2>4 DEF ReadRate, Flushing
  <2> QED BY <2>1, <2>3, <2>4
<1> QED BY <1>1, <1>2, PTL DEF EchoIsReadHalved, BoardSpec

---------------------------------------------------------------------------
(* The formula. *)

LEMMA MaxOfTwo ==
  ASSUME NEW a \in Int, NEW b \in Int
  PROVE  Max({a, b}) = IF a >= b THEN a ELSE b
PROOF
<1>1. Max({a, b}) = CHOOSE x \in {a, b} : \A y \in {a, b} : x >= y
  BY DEF Max
<1> QED BY <1>1

LEMMA MinOfInts ==
  ASSUME NEW a \in Int, NEW b \in Int
  PROVE  Min({a, b}) = IF a <= b THEN a ELSE b
PROOF
<1>1. Min({a, b}) = CHOOSE x \in {a, b} : \A y \in {a, b} : x <= y
  BY DEF Min
<1> QED BY <1>1

\* The more a number is divided by, the less is left of it.
LEMMA DividedByMore ==
  ASSUME NEW x \in Nat, NEW a \in Nat \ {0}, NEW b \in Nat \ {0}, a <= b
  PROVE  x \div b \in Nat /\ x \div a \in Nat /\ x \div b <= x \div a
PROOF
<1> DEFINE p == x \div a
           q == x \div b
<1>1. p \in Nat /\ q \in Nat
  OBVIOUS
<1>2. x < (p + 1) * a /\ q * b <= x
  OBVIOUS
<1> HIDE DEF p, q
<1>3. ASSUME q >= p + 1 PROVE FALSE
  <2>1. (p + 1) * a <= q * a
    BY <1>1, <1>3
  <2>2. q * a <= q * b
    BY <1>1
  <2>3. (p + 1) * a \in Nat /\ q * a \in Nat /\ q * b \in Nat
    BY <1>1
  <2> QED BY <1>2, <2>1, <2>2, <2>3
<1>4. p \in Nat /\ q \in Nat /\ q <= p
  BY <1>1, <1>3
<1> QED BY <1>4 DEF p, q

\* Each of the four scores moves the way its measurement does.
LEMMA FasterIsNoLess ==
  ASSUME NEW a \in Int, NEW b \in Int, a <= b
  PROVE  SpeedScore(a) \in Int /\ SpeedScore(b) \in Int /\ SpeedScore(a) >= SpeedScore(b)
PROOF
<1>1. PICK most \in Nat : most = 25000000
  BY SMT
<1>2. \A x \in Int :
        /\ x <= 0 => SpeedScore(x) = 1000
        /\ ~(x <= 0) => SpeedScore(x) = Min({1000, most \div Max({x, 1})})
  BY <1>1, SMT DEF SpeedScore
<1> DEFINE speed(x) == IF x <= 0 THEN 1000
                       ELSE IF 1000 <= most \div x THEN 1000 ELSE most \div x
<1>3. ASSUME NEW x \in Int
      PROVE  SpeedScore(x) = speed(x) /\ speed(x) \in Int /\ speed(x) <= 1000
  <2>1. CASE x <= 0
    <3>1. SpeedScore(x) = 1000
      BY <1>2, <2>1, ZenonT(40)
    <3>2. speed(x) = 1000
      BY <2>1
    <3> QED BY <3>1, <3>2
  <2>2. CASE x >= 1
    <3>1. Max({x, 1}) = x
      BY <2>2, MaxOfTwo
    <3>2. most \div x \in Int
      BY <2>2
    <3>3. Min({1000, most \div x}) = IF 1000 <= most \div x THEN 1000 ELSE most \div x
      BY <3>2, MinOfInts
    <3>4. SpeedScore(x) = Min({1000, most \div x})
      BY <1>2, <2>2, <3>1
    <3> QED BY <2>2, <3>2, <3>3, <3>4
  <2> QED BY <2>1, <2>2
<1>4. speed(a) >= speed(b)
  <2>1. CASE a <= 0
    BY <1>3, <2>1
  <2>2. CASE a >= 1
    <3>1. /\ most \div b \in Nat /\ most \div a \in Nat
          /\ most \div b <= most \div a
      <4>1. a \in Nat \ {0} /\ b \in Nat \ {0}
        BY <2>2
      <4> QED BY <4>1, DividedByMore
    <3>2. ~(a <= 0) /\ ~(b <= 0)
      BY <2>2
    <3> QED BY <3>1, <3>2
  <2> QED BY <2>1, <2>2
<1> HIDE DEF speed
<1> QED BY <1>3, <1>4

LEMMA BusierIsNoLess ==
  ASSUME NEW a \in Int, NEW b \in Int, a >= b
  PROVE  /\ ThroughputScore(a) \in Int /\ ThroughputScore(b) \in Int
         /\ ThroughputScore(a) >= ThroughputScore(b)
PROOF
<1>1. ASSUME NEW x \in Int
      PROVE  ThroughputScore(x) = IF x <= 0 THEN 0 ELSE IF x >= 1000 THEN 1000 ELSE x
  <2>1. Max({0, x}) = IF x <= 0 THEN 0 ELSE x
    BY MaxOfTwo
  <2>2. Max({0, x}) \in Int
    BY <2>1
  <2> QED BY <2>1, <2>2, MinOfInts DEF ThroughputScore
<1> QED BY <1>1

LEMMA TruerIsNoLess ==
  ASSUME NEW a \in Int, NEW b \in Int, a >= b
  PROVE  /\ CorrectnessScore(a) \in Int /\ CorrectnessScore(b) \in Int
         /\ CorrectnessScore(a) >= CorrectnessScore(b)
PROOF
<1>1. ASSUME NEW x \in Int PROVE CorrectnessScore(x) = ThroughputScore(10 * x)
  BY DEF CorrectnessScore, ThroughputScore
<1>2. 10 * a \in Int /\ 10 * b \in Int /\ 10 * a >= 10 * b
  OBVIOUS
<1> QED BY <1>1, <1>2, BusierIsNoLess

LEMMA SteadierIsNoLess ==
  ASSUME NEW e \in Int, NEW f \in Int, NEW v \in Int, NEW w \in Int, e <= f, v <= w
  PROVE  /\ StabilityScore(e, v) \in Int /\ StabilityScore(f, w) \in Int
         /\ StabilityScore(e, v) >= StabilityScore(f, w)
PROOF
<1> DEFINE loss(x) == IF 1000 <= 10 * x THEN 1000 ELSE 10 * x
           shake(y) == IF 500 <= y \div 100 THEN 500 ELSE y \div 100
           rest(x, y) == IF 0 >= 1000 - loss(x) - shake(y) THEN 0 ELSE 1000 - loss(x) - shake(y)
<1>1. ASSUME NEW x \in Int, NEW y \in Int PROVE StabilityScore(x, y) = rest(x, y)
  <2>1. 10 * x \in Int /\ y \div 100 \in Int /\ loss(x) \in Int /\ shake(y) \in Int
    OBVIOUS
  <2>2. Min({1000, 10 * x}) = loss(x) /\ Min({500, y \div 100}) = shake(y)
    BY <2>1, MinOfInts
  <2> HIDE DEF loss, shake
  <2>3. 1000 - loss(x) - shake(y) \in Int
    BY <2>1
  <2>4. Max({0, 1000 - loss(x) - shake(y)}) = rest(x, y)
    BY <2>3, MaxOfTwo
  <2>5. StabilityScore(x, y) = Max({0, 1000 - loss(x) - shake(y)})
    <3>1. PICK c, d : c = Min({1000, 10 * x}) /\ d = Min({500, y \div 100})
      OBVIOUS
    <3>2. StabilityScore(x, y) = Max({0, 1000 - c - d})
      BY <3>1 DEF StabilityScore
    <3>3. c = loss(x) /\ d = shake(y)
      BY <2>2, <3>1
    <3> QED BY <3>2, <3>3
  <2> QED BY <2>4, <2>5
<1>2. v \div 100 <= w \div 100 /\ v \div 100 \in Int /\ w \div 100 \in Int
  OBVIOUS
<1>3. loss(e) <= loss(f) /\ loss(e) \in Int /\ loss(f) \in Int
  OBVIOUS
<1>4. shake(v) <= shake(w) /\ shake(v) \in Int /\ shake(w) \in Int
  BY <1>2
<1> HIDE DEF loss, shake
<1>5. rest(e, v) >= rest(f, w) /\ rest(e, v) \in Int /\ rest(f, w) \in Int
  BY <1>3, <1>4
<1> QED BY <1>1, <1>5

\* Any measurement, of a p99 and a variance in microseconds.
Measurement == [p99 : Int, rps : Int, matchRate : Int, errorRate : Int, variance : Int]

LEMMA BetterIsNoLess ==
  ASSUME NEW a \in Measurement, NEW b \in Measurement, AtLeastAsGood(a, b)
  PROVE  CompositeScore(a) >= CompositeScore(b)
PROOF
<1>1. /\ a.p99 \in Int /\ a.rps \in Int /\ a.matchRate \in Int /\ a.errorRate \in Int
      /\ a.variance \in Int
      /\ b.p99 \in Int /\ b.rps \in Int /\ b.matchRate \in Int /\ b.errorRate \in Int
      /\ b.variance \in Int
  BY DEF Measurement
<1>2. /\ a.p99 <= b.p99 /\ a.variance <= b.variance /\ a.errorRate <= b.errorRate
      /\ a.rps >= b.rps /\ a.matchRate >= b.matchRate
  BY DEF AtLeastAsGood
<1>3. /\ SpeedScore(a.p99) \in Int /\ SpeedScore(b.p99) \in Int
      /\ SpeedScore(a.p99) >= SpeedScore(b.p99)
  BY <1>1, <1>2, FasterIsNoLess
<1>4. /\ ThroughputScore(a.rps) \in Int /\ ThroughputScore(b.rps) \in Int
      /\ ThroughputScore(a.rps) >= ThroughputScore(b.rps)
  BY <1>1, <1>2, BusierIsNoLess
<1>5. /\ CorrectnessScore(a.matchRate) \in Int /\ CorrectnessScore(b.matchRate) \in Int
      /\ CorrectnessScore(a.matchRate) >= CorrectnessScore(b.matchRate)
  BY <1>1, <1>2, TruerIsNoLess
<1>6. /\ StabilityScore(a.errorRate, a.variance) \in Int
      /\ StabilityScore(b.errorRate, b.variance) \in Int
      /\ StabilityScore(a.errorRate, a.variance) >= StabilityScore(b.errorRate, b.variance)
  BY <1>1, <1>2, SteadierIsNoLess
<1> QED BY <1>3, <1>4, <1>5, <1>6 DEF CompositeScore

Measured == m \in Measurement

\* However the measurements change, from any to any: one that is no worse than the
\* one before or after it in anything is not scored less.
THEOREM BetterIsNeverScoredLess == Measured /\ [][Measured']_m => BetterNeverScoresLess
PROOF
<1>1. Measured /\ [Measured']_m => Measured'
  BY DEF Measured
<1>2. Measured /\ [Measured']_m
        => [/\ AtLeastAsGood(m', m) => CompositeScore(m') >= CompositeScore(m)
            /\ AtLeastAsGood(m, m') => CompositeScore(m) >= CompositeScore(m')]_m
  BY BetterIsNoLess DEF Measured
<1> QED BY <1>1, <1>2, PTL DEF BetterNeverScoresLess
=============================================================================
