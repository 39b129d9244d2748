------------------------ MODULE LimitOrderBotProofs ------------------------
(***************************************************************************)
(* Theorems about the bot, for any number of slots, on a connection that   *)
(* may break or not.                                                       *)
(***************************************************************************)
EXTENDS LimitOrderBot, SequenceTheorems, TLAPS

---------------------------------------------------------------------------
(* The inductive invariant. *)

\* The orders that wait for an ack, and the acks that are to come, by order.
Waiting == (IF receiving = 0 THEN <<>> ELSE <<receiving>>) \o pending
Flight == answers \o requests

Recorded == {events[i].order : i \in DOMAIN events}

Ascending(s) == \A i, j \in DOMAIN s : i < j => s[i] < s[j]

\* unfinished counts what waits.  An order sent waits or has left an event,
\* except the one whose answer ended the receiver; an event costs two errors at most.
CountInv ==
  /\ unfinished = Len(Waiting)
  /\ Len(events) + unfinished <= slot
  /\ ~deaf => /\ Len(events) + unfinished = slot
              /\ Recorded \cup Range(Waiting) = 1..slot
  /\ phase = "done" => ~deaf /\ unfinished = 0
  /\ errors <= 2 * Len(events)

\* The i-th ack to come is for no order sent after the i-th that waits.  While
\* the contestant is there, every order that waits may still be answered.
PairingInv ==
  /\ Ascending(Waiting) /\ Ascending(Flight)
  /\ \A k \in Range(Waiting) \cup Range(Flight) : k <= slot
  /\ \A i \in DOMAIN Waiting \cap DOMAIN Flight : Flight[i] <= Waiting[i]
  /\ upstream => Len(Waiting) <= Len(Flight)

\* The acks used so far come before those on their way.
UsedInv ==
  /\ AcksInOrder
  /\ \A i \in DOMAIN events : events[i].ack # NoAck
                                => /\ events[i].ack <= slot
                                   /\ \A k \in Range(Flight) : events[i].ack < k

BotInv == TypeOK /\ CountInv /\ PairingInv /\ UsedInv

---------------------------------------------------------------------------
(* Queues. *)

LEMMA PushOntoSecond ==
  ASSUME NEW S, NEW s \in Seq(S), NEW t \in Seq(S), NEW x \in S
  PROVE  s \o Append(t, x) = Append(s \o t, x)
PROOF
<1>1. /\ s \o t \in Seq(S) /\ Append(t, x) \in Seq(S) /\ Len(s) \in Nat /\ Len(t) \in Nat
      /\ Len(s \o t) = Len(s) + Len(t) /\ Len(Append(t, x)) = Len(t) + 1
      /\ s \o Append(t, x) \in Seq(S) /\ Append(s \o t, x) \in Seq(S)
  OBVIOUS
<1>2. Len(s \o Append(t, x)) = Len(s) + Len(t) + 1 /\ Len(Append(s \o t, x)) = Len(s) + Len(t) + 1
  BY <1>1
<1>3. \A i \in 1..(Len(s) + Len(t) + 1) : (s \o Append(t, x))[i] = Append(s \o t, x)[i]
  BY <1>1
<1>4. QED
  BY <1>1, <1>2, <1>3, SeqEqual

LEMMA PopFromFirst ==
  ASSUME NEW S, NEW s \in Seq(S), NEW t \in Seq(S), s # <<>>
  PROVE  /\ s \o t # <<>> /\ Head(s \o t) = Head(s) /\ Tail(s \o t) = Tail(s) \o t
PROOF
<1>1. /\ s \o t \in Seq(S) /\ Tail(s) \in Seq(S) /\ Len(s) \in Nat \ {0} /\ Len(t) \in Nat
      /\ Len(s \o t) = Len(s) + Len(t) /\ Len(Tail(s)) = Len(s) - 1
      /\ Tail(s) \o t \in Seq(S)
  OBVIOUS
<1>2. s \o t # <<>> /\ Head(s \o t) = Head(s)
  BY <1>1
<1>3. Tail(s \o t) \in Seq(S) /\ Len(Tail(s \o t)) = Len(Tail(s) \o t)
  BY <1>1, <1>2
<1>4. \A i \in 1..Len(Tail(s \o t)) : Tail(s \o t)[i] = (Tail(s) \o t)[i]
  BY <1>1, <1>2, <1>3
<1>5. QED
  BY <1>1, <1>2, <1>3, <1>4, SeqEqual

LEMMA MoveHead ==
  ASSUME NEW S, NEW s \in Seq(S), NEW t \in Seq(S), t # <<>>
  PROVE  Append(s, Head(t)) \o Tail(t) = s \o t
PROOF
<1>1. /\ Head(t) \in S /\ Tail(t) \in Seq(S) /\ Len(t) \in Nat \ {0} /\ Len(s) \in Nat
      /\ Len(Tail(t)) = Len(t) - 1 /\ Head(t) = t[1]
      /\ \A i \in 1..(Len(t) - 1) : Tail(t)[i] = t[i + 1]
  OBVIOUS
<1>2. PICK a \in Seq(S) : /\ a = Append(s, Head(t)) /\ Len(a) = Len(s) + 1 /\ a[Len(s) + 1] = t[1]
                          /\ \A i \in 1..Len(s) : a[i] = s[i]
  <2>1. PICK x \in S : x = Head(t) /\ x = t[1]
    BY <1>1
  <2>2. /\ Append(s, x) \in Seq(S) /\ Len(Append(s, x)) = Len(s) + 1
        /\ Append(s, x)[Len(s) + 1] = x /\ \A i \in 1..Len(s) : Append(s, x)[i] = s[i]
    OBVIOUS
  <2>3. QED
    BY <2>1, <2>2
<1>3. PICK u \in Seq(S) : /\ u = Tail(t) /\ Len(u) = Len(t) - 1
                          /\ \A i \in 1..(Len(t) - 1) : u[i] = t[i + 1]
  BY <1>1
<1>4. /\ a \o u \in Seq(S) /\ s \o t \in Seq(S)
      /\ Len(a \o u) = Len(s) + Len(t) /\ Len(s \o t) = Len(s) + Len(t)
  BY <1>1, <1>2, <1>3
<1>5. \A i \in 1..(Len(s) + Len(t)) : (a \o u)[i] = (s \o t)[i]
  BY <1>1, <1>2, <1>3
<1>6. QED
  BY <1>2, <1>3, <1>4, <1>5, SeqEqual

LEMMA ConsFacts ==
  ASSUME NEW S, NEW x \in S, NEW s \in Seq(S)
  PROVE  /\ <<x>> \o s \in Seq(S) /\ <<x>> \o s # <<>> /\ Len(<<x>> \o s) = Len(s) + 1
         /\ Head(<<x>> \o s) = x /\ Tail(<<x>> \o s) = s
PROOF
<1>1. <<x>> \in Seq(S) /\ <<x>> # <<>> /\ Head(<<x>>) = x /\ Tail(<<x>>) = <<>>
  OBVIOUS
<1>2. /\ <<x>> \o s # <<>> /\ Head(<<x>> \o s) = x /\ Tail(<<x>> \o s) = <<>> \o s
  BY <1>1, PopFromFirst
<1>3. QED
  BY <1>1, <1>2, ConcatEmptySeq

LEMMA ConsHeadTail ==
  ASSUME NEW S, NEW s \in Seq(S), s # <<>>
  PROVE  <<Head(s)>> \o Tail(s) = s
PROOF
<1>1. <<>> \in Seq(S) /\ Head(s) \in S /\ Append(<<>>, Head(s)) = <<Head(s)>>
  OBVIOUS
<1>2. <<Head(s)>> \o Tail(s) = <<>> \o s
  BY <1>1, MoveHead
<1>3. QED
  BY <1>2, ConcatEmptySeq

LEMMA PrefixFacts ==
  ASSUME NEW S, NEW s \in Seq(S), NEW p \in Prefixes(s)
  PROVE  /\ p \in Seq(S) /\ Len(p) \in 0..Len(s)
         /\ \A i \in 1..Len(p) : p[i] = s[i]
BY SubSeqProperties DEF Prefixes

LEMMA PrefixOfConcat ==
  ASSUME NEW S, NEW s \in Seq(S), NEW t \in Seq(S), NEW p \in Prefixes(s)
  PROVE  p \in Prefixes(s \o t)
PROOF
<1>1. PICK n \in 0..Len(s) : p = SubSeq(s, 1, n)
  BY DEF Prefixes
<1>2. /\ s \o t \in Seq(S) /\ Len(s) \in Nat /\ Len(t) \in Nat /\ Len(s \o t) = Len(s) + Len(t)
      /\ \A i \in 1..n : i \in 1..Len(s) /\ (s \o t)[i] = s[i] /\ s[i] \in S
  OBVIOUS
<1>3. /\ SubSeq(s, 1, n) \in Seq(S) /\ Len(SubSeq(s, 1, n)) = n
      /\ \A i \in 1..n : SubSeq(s, 1, n)[i] = s[i]
  BY <1>2
<1>4. /\ SubSeq(s \o t, 1, n) \in Seq(S) /\ Len(SubSeq(s \o t, 1, n)) = n
      /\ \A i \in 1..n : SubSeq(s \o t, 1, n)[i] = s[i]
  BY <1>2
<1>5. p = SubSeq(s \o t, 1, n)
  BY <1>1, <1>3, <1>4, SeqEqual
<1>6. QED
  BY <1>2, <1>5 DEF Prefixes

---------------------------------------------------------------------------
(* What the actions do to the two queues. *)

LEMMA QueueTypes ==
  ASSUME TypeOK
  PROVE  /\ Waiting \in Seq(Orders) /\ Flight \in Seq(Orders)
         /\ Len(Waiting) = Len(pending) + (IF receiving = 0 THEN 0 ELSE 1)
         /\ Len(pending) \in Nat
         /\ Orders \subseteq Nat \ {0} /\ MaxSlot \in Nat /\ slot \in 0..MaxSlot
PROOF
<1>1. pending \in Seq(Orders) /\ receiving \in {0} \cup Orders
  BY SlotAssumption DEF TypeOK, Orders
<1>2. CASE receiving = 0
  BY <1>1, <1>2, ConcatEmptySeq, SlotAssumption DEF Waiting, Flight, TypeOK, Orders
<1>3. CASE receiving # 0
  BY <1>1, <1>3, ConsFacts, SlotAssumption DEF Waiting, Flight, TypeOK, Orders
<1>4. QED
  BY <1>2, <1>3

LEMMA SendQueues ==
  ASSUME TypeOK, SendOrder
  PROVE  /\ Waiting' = Append(Waiting, slot + 1)
         /\ Flight' = IF upstream THEN Append(Flight, slot + 1) ELSE Flight
         /\ slot + 1 \in Orders
PROOF
<1>1. slot + 1 \in Orders
  BY SlotAssumption DEF TypeOK, SendOrder, Orders
<1>2. /\ (IF receiving = 0 THEN <<>> ELSE <<receiving>>) \in Seq(Orders)
      /\ pending \in Seq(Orders) /\ answers \in Seq(Orders) /\ requests \in Seq(Orders)
  <2>1. receiving \in {0} \cup Orders
    BY SlotAssumption DEF TypeOK, Orders
  <2>2. QED
    BY <2>1 DEF TypeOK
<1>3. Waiting' = Append(Waiting, slot + 1)
  BY <1>1, <1>2, PushOntoSecond, SMTT(30) DEF SendOrder, Waiting
<1>4. Flight' = IF upstream THEN Append(Flight, slot + 1) ELSE Flight
  <2>1. answers \o Append(requests, slot + 1) = Append(answers \o requests, slot + 1)
    BY <1>1, <1>2, PushOntoSecond
  <2>2. QED
    BY <2>1 DEF SendOrder, Flight
<1>5. QED
  BY <1>1, <1>3, <1>4

LEMMA TakeQueues ==
  ASSUME TypeOK, TakePending
  PROVE  Waiting' = Waiting /\ Flight' = Flight /\ receiving' \in Orders
PROOF
<1>1. /\ receiving = 0 /\ receiving' = Head(pending) /\ pending' = Tail(pending)
      /\ pending \in Seq(Orders) /\ pending # <<>> /\ UNCHANGED <<answers, requests>>
  BY DEF TakePending, TypeOK, wire
<1>2. Head(pending) \in Orders /\ Head(pending) # 0
  <2>1. Head(pending) \in Orders
    BY <1>1, HeadTailProperties
  <2>2. QED
    BY <2>1 DEF Orders
<1>3. Waiting = pending
  BY <1>1, ConcatEmptySeq DEF Waiting
<1>4. Waiting' = pending
  BY <1>1, <1>2, ConsHeadTail DEF Waiting
<1>5. QED
  BY <1>1, <1>2, <1>3, <1>4 DEF Flight

\* Whatever ends the wait of an order.
LEMMA FinishQueues ==
  ASSUME TypeOK, receiving # 0, Finish, pending' = pending
  PROVE  /\ Waiting # <<>> /\ receiving = Head(Waiting) /\ Waiting' = Tail(Waiting)
         /\ Len(Waiting') = Len(Waiting) - 1
PROOF
<1>1. receiving \in Orders /\ pending \in Seq(Orders) /\ receiving' = 0
  BY SlotAssumption DEF TypeOK, Finish, Orders
<1>2. Waiting = <<receiving>> \o pending /\ Waiting' = pending
  BY <1>1, ConcatEmptySeq DEF Waiting
<1>3. QED
  BY <1>1, <1>2, ConsFacts

LEMMA ReceiveQueues ==
  ASSUME TypeOK, answers # <<>>, answers' = Tail(answers), requests' = requests
  PROVE  Flight # <<>> /\ Head(answers) = Head(Flight) /\ Flight' = Tail(Flight)
BY PopFromFirst DEF TypeOK, Flight

LEMMA AnswerQueues ==
  ASSUME TypeOK, Answer
  PROVE  Flight' = Flight
BY MoveHead DEF TypeOK, Answer, Flight

LEMMA BreakQueues ==
  ASSUME TypeOK, answers' \in Prefixes(answers), requests' = <<>>
  PROVE  /\ Flight' \in Seq(Orders) /\ Len(Flight') \in 0..Len(Flight)
         /\ \A i \in 1..Len(Flight') : Flight'[i] = Flight[i]
PROOF
<1>1. answers \in Seq(Orders) /\ requests \in Seq(Orders) /\ answers' \in Seq(Orders)
  BY PrefixFacts DEF TypeOK
<1>2. Flight' = answers'
  BY <1>1, ConcatEmptySeq DEF Flight
<1>3. answers' \in Prefixes(Flight) /\ Flight \in Seq(Orders)
  BY <1>1, PrefixOfConcat DEF Flight
<1>4. QED
  BY <1>2, <1>3, PrefixFacts

---------------------------------------------------------------------------
(* Types and counters. *)

LEMMA RecordFacts ==
  ASSUME TypeOK, NEW order \in Orders, NEW ack \in Orders \cup {NoAck},
         RecordResponse(order, ack)
  PROVE  /\ events' \in Seq([order : Orders, ack : Orders \cup {NoAck}])
         /\ Len(events') = Len(events) + 1 /\ Len(events) \in Nat
         /\ \A i \in 1..Len(events) : events'[i] = events[i]
         /\ events'[Len(events) + 1] = [order |-> order, ack |-> ack]
         /\ Recorded' = Recorded \cup {order}
PROOF
<1> DEFINE Event == [order : Orders, ack : Orders \cup {NoAck}]
           e == [order |-> order, ack |-> ack]
<1>1. events \in Seq(Event) /\ e \in Event /\ events' = Append(events, e)
  BY DEF TypeOK, RecordResponse
<1>2. /\ events' \in Seq(Event) /\ Len(events') = Len(events) + 1 /\ Len(events) \in Nat
      /\ \A i \in 1..Len(events) : events'[i] = events[i]
      /\ events'[Len(events) + 1] = e
      /\ DOMAIN events = 1..Len(events) /\ DOMAIN events' = 1..(Len(events) + 1)
  BY <1>1
<1>3. \A i \in 1..(Len(events) + 1) : i \in 1..Len(events) \/ i = Len(events) + 1
  BY <1>2
<1>4. e.order = order
  OBVIOUS
<1>5. Recorded' = Recorded \cup {order}
  <2> HIDE DEF e
  <2>1. QED
    BY <1>2, <1>3, <1>4 DEF Recorded
<1>6. QED
  BY <1>2, <1>5

LEMMA AppendRange ==
  ASSUME NEW S, NEW s \in Seq(S), NEW x \in S
  PROVE  Range(Append(s, x)) = Range(s) \cup {x} /\ Len(Append(s, x)) = Len(s) + 1
PROOF
<1>1. /\ Len(Append(s, x)) = Len(s) + 1 /\ Len(s) \in Nat
      /\ DOMAIN s = 1..Len(s) /\ DOMAIN Append(s, x) = 1..(Len(s) + 1)
      /\ \A i \in 1..Len(s) : Append(s, x)[i] = s[i]
      /\ Append(s, x)[Len(s) + 1] = x
  OBVIOUS
<1>2. \A i \in 1..(Len(s) + 1) : i \in 1..Len(s) \/ i = Len(s) + 1
  BY <1>1
<1>3. QED
  BY <1>1, <1>2 DEF Range

LEMMA TailRange ==
  ASSUME NEW S, NEW s \in Seq(S), s # <<>>
  PROVE  Range(s) = {Head(s)} \cup Range(Tail(s))
PROOF
<1>1. /\ Head(s) \in S /\ Tail(s) \in Seq(S) /\ <<Head(s)>> \o Tail(s) = s
  BY ConsHeadTail
<1>2. /\ Len(s) \in Nat \ {0} /\ DOMAIN s = 1..Len(s) /\ DOMAIN Tail(s) = 1..(Len(s) - 1)
      /\ Head(s) = s[1] /\ \A i \in 1..(Len(s) - 1) : Tail(s)[i] = s[i + 1]
  OBVIOUS
<1>3. ASSUME NEW i \in DOMAIN s PROVE s[i] \in {Head(s)} \cup Range(Tail(s))
  <2>1. CASE i = 1
    BY <1>2, <2>1
  <2>2. CASE i # 1
    <3>1. i - 1 \in DOMAIN Tail(s) /\ s[i] = Tail(s)[i - 1]
      BY <1>2, <2>2
    <3>2. QED
      BY <3>1 DEF Range
  <2>3. QED
    BY <2>1, <2>2
<1>4. \A i \in DOMAIN Tail(s) : Tail(s)[i] \in Range(s)
  BY <1>2 DEF Range
<1>5. Head(s) \in Range(s)
  BY <1>2 DEF Range
<1>6. QED
  BY <1>3, <1>4, <1>5 DEF Range

LEMMA CountStep == TypeOK /\ CountInv /\ [Next]_vars => TypeOK' /\ CountInv'
PROOF
<1> SUFFICES ASSUME TypeOK, CountInv, [Next]_vars PROVE TypeOK' /\ CountInv'
  OBVIOUS
<1> USE DEF wire
<1>1. /\ Waiting \in Seq(Orders) /\ Flight \in Seq(Orders) /\ Len(Waiting) \in Nat
      /\ Orders = 1..MaxSlot /\ MaxSlot \in Nat /\ slot \in 0..MaxSlot /\ slot \in Nat
      /\ Len(events) \in Nat /\ unfinished \in Nat /\ errors \in Nat
  BY QueueTypes, SlotAssumption DEF TypeOK, Orders
<1>2. CASE SendOrder
  <2>1. /\ Waiting' = Append(Waiting, slot + 1) /\ slot + 1 \in Orders
    BY <1>2, SendQueues
  <2>2. /\ Len(Waiting') = Len(Waiting) + 1 /\ Range(Waiting') = Range(Waiting) \cup {slot + 1}
    BY <1>1, <2>1, AppendRange
  <2>3. 1..(slot + 1) = 1..slot \cup {slot + 1}
    BY <1>1
  <2>4. CountInv'
    <3>1. ~deaf => Recorded' \cup Range(Waiting') = 1..(slot + 1)
      <4>1. Recorded' = Recorded
        BY <1>2 DEF SendOrder, Recorded
      <4>2. ~deaf => Recorded \cup Range(Waiting) = 1..slot
        BY DEF CountInv
      <4>3. QED
        BY <2>2, <2>3, <4>1, <4>2
    <3>2. QED
      BY <1>1, <1>2, <2>2, <3>1 DEF SendOrder, CountInv
  <2>5. unfinished + 1 \in 0..MaxSlot
    BY <1>1, <1>2 DEF SendOrder, CountInv
  <2>6. pending' \in Seq(Orders) /\ requests' \in Seq(Orders)
    BY <1>2, <2>1 DEF SendOrder, TypeOK
  <2>7. TypeOK'
    BY <1>1, <1>2, <2>1, <2>5, <2>6 DEF SendOrder, TypeOK
  <2>8. QED
    BY <2>4, <2>7
<1>3. CASE SendFails
  <2>1. slot + 1 \in Orders /\ RecordResponse(slot + 1, NoAck)
    BY <1>1, <1>3 DEF SendFails
  <2>2. Waiting' = Waiting
    BY <1>3 DEF SendFails, Waiting
  <2>3. 1..(slot + 1) = 1..slot \cup {slot + 1}
    BY <1>1
  <2>4. /\ Len(events') = Len(events) + 1
        /\ Recorded' = Recorded \cup {slot + 1}
        /\ events' \in Seq([order : Orders, ack : Orders \cup {NoAck}])
    BY <2>1, RecordFacts
  <2>5. CountInv'
    <3>1. ~deaf => Recorded' \cup Range(Waiting') = 1..(slot + 1)
      <4>1. ~deaf => Recorded \cup Range(Waiting) = 1..slot
        BY DEF CountInv
      <4>2. QED
        BY <2>2, <2>3, <2>4, <4>1
    <3>2. QED
      BY <1>1, <1>3, <2>2, <2>4, <3>1 DEF SendFails, CountInv
  <2>6. TypeOK'
    BY <1>1, <1>3, <2>1, <2>4 DEF SendFails, CountInv, TypeOK
  <2>7. QED
    BY <2>5, <2>6
<1>4. CASE Deadline \/ Joined
  <2>1. Waiting' = Waiting
    BY <1>4 DEF Deadline, Joined, Waiting
  <2>2. CountInv'
    <3>1. Recorded' = Recorded /\ UNCHANGED <<slot, deaf, unfinished, events, errors>>
      BY <1>4 DEF Deadline, Joined, Recorded
    <3>2. phase' = "done" => ~deaf /\ unfinished = 0
      BY <1>4 DEF Deadline, Joined, TypeOK
    <3>3. QED
      BY <2>1, <3>1, <3>2 DEF CountInv
  <2>3. TypeOK'
    BY <1>4 DEF Deadline, Joined, TypeOK
  <2>4. QED
    BY <2>2, <2>3
<1>5. CASE TakePending
  <2>1. Waiting' = Waiting /\ receiving' \in Orders
    BY <1>5, TakeQueues
  <2>2. CountInv'
    BY <1>5, <2>1 DEF TakePending, CountInv, Recorded
  <2>3. Tail(pending) \in Seq(Orders)
    BY <1>5 DEF TakePending, TypeOK
  <2>4. TypeOK'
    BY <1>1, <1>5, <2>1, <2>3 DEF TakePending, TypeOK
  <2>5. QED
    BY <2>2, <2>4
<1>6. ASSUME receiving # 0, Finish, pending' = pending
      PROVE  /\ Len(Waiting') = Len(Waiting) - 1 /\ Range(Waiting) = {receiving} \cup Range(Waiting')
             /\ receiving \in Orders /\ receiving' = 0
             /\ unfinished' = unfinished - 1 /\ unfinished' \in 0..MaxSlot
  <2>1. /\ Waiting # <<>> /\ receiving = Head(Waiting) /\ Waiting' = Tail(Waiting)
        /\ Len(Waiting') = Len(Waiting) - 1
    BY <1>6, FinishQueues
  <2>2. Range(Waiting) = {receiving} \cup Range(Waiting')
    BY <1>1, <2>1, TailRange
  <2>3. receiving \in Orders /\ Len(Waiting) # 0
    BY <1>1, <2>1 DEF TypeOK
  <2>4. QED
    BY <1>1, <1>6, <2>1, <2>2, <2>3 DEF Finish, CountInv
<1>7. ASSUME NEW ack \in Orders \cup {NoAck}, receiving # 0, Finish, RecordResponse(receiving, ack),
             UNCHANGED <<phase, slot, pending, deaf>>, errors' \in {errors, errors + 1}
      PROVE  /\ CountInv' /\ errors' \in 0..2 * MaxSlot
             /\ events' \in Seq([order : Orders, ack : Orders \cup {NoAck}])
  <2>1. /\ Len(Waiting') = Len(Waiting) - 1 /\ Range(Waiting) = {receiving} \cup Range(Waiting')
        /\ receiving \in Orders /\ unfinished' = unfinished - 1 /\ unfinished' \in Nat
    BY <1>6, <1>7
  <2>2. /\ Len(events') = Len(events) + 1
        /\ Recorded' = Recorded \cup {receiving}
        /\ events' \in Seq([order : Orders, ack : Orders \cup {NoAck}])
    BY <1>7, <2>1, RecordFacts
  <2>3. CountInv'
    <3>1. ~deaf => Recorded' \cup Range(Waiting') = 1..slot
      <4>1. ~deaf => Recorded \cup Range(Waiting) = 1..slot
        BY DEF CountInv
      <4>2. QED
        BY <2>1, <2>2, <4>1
    <3>2. phase' = "done" => ~deaf' /\ unfinished' = 0
      BY <1>1, <1>7, <2>1 DEF CountInv
    <3>3. errors' <= 2 * Len(events')
      BY <1>1, <1>7, <2>2 DEF CountInv
    <3>4. /\ unfinished' = Len(Waiting') /\ Len(events') + unfinished' <= slot'
          /\ ~deaf' => Len(events') + unfinished' = slot'
      <4>1. /\ unfinished = Len(Waiting) /\ Len(events) + unfinished <= slot
            /\ ~deaf => Len(events) + unfinished = slot
        BY DEF CountInv
      <4>2. slot' = slot /\ deaf' = deaf
        BY <1>7
      <4>3. Len(events') = Len(events) + 1
        BY <2>2
      <4>4. Len(Waiting') = Len(Waiting) - 1 /\ unfinished' = unfinished - 1
        BY <2>1
      <4>5. Len(events) \in Nat /\ unfinished \in Nat /\ Len(Waiting) \in Nat
        BY <1>1
      <4>6. Len(events') + unfinished' = Len(events) + unfinished
        BY <4>3, <4>4, <4>5
      <4>7. QED
        BY <4>1, <4>2, <4>4, <4>6
    <3>5. QED
      BY <1>7, <3>1, <3>2, <3>3, <3>4 DEF CountInv
  <2>4. errors' \in 0..2 * MaxSlot
    <3>1. errors <= 2 * Len(events) /\ Len(events) + unfinished <= slot
      BY DEF CountInv
    <3>2. unfinished - 1 \in Nat /\ Len(events) \in Nat /\ errors \in Nat
          /\ slot \in 0..MaxSlot /\ MaxSlot \in Nat /\ unfinished \in Nat
      BY <1>1, <2>1
    <3>3. Len(events) + 1 <= MaxSlot
      BY <3>1, <3>2
    <3>4. errors + 1 <= 2 * MaxSlot
      BY <3>1, <3>2, <3>3
    <3> QED BY <1>7, <3>2, <3>4
  <2>5. QED
    BY <2>2, <2>3, <2>4
<1>8. CASE Receive
  <2>1. Head(answers) \in Orders /\ Tail(answers) \in Seq(Orders)
    BY <1>8 DEF Receive, TypeOK
  <2>2. PICK readable \in BOOLEAN :
          /\ RecordResponse(receiving, IF readable THEN Head(answers) ELSE NoAck)
          /\ errors' = IF readable THEN errors ELSE errors + 1
    BY <1>8 DEF Receive
  <2>3. /\ CountInv' /\ errors' \in 0..2 * MaxSlot
        /\ events' \in Seq([order : Orders, ack : Orders \cup {NoAck}])
    BY <1>7, <1>8, <2>1, <2>2 DEF Receive
  <2>4. receiving' = 0 /\ unfinished' \in 0..MaxSlot
    BY <1>6, <1>8 DEF Receive
  <2>5. QED
    BY <1>1, <1>8, <2>1, <2>3, <2>4 DEF Receive, TypeOK
<1>9. CASE ReceiveNothing
  <2>1. /\ CountInv' /\ errors' \in 0..2 * MaxSlot
        /\ events' \in Seq([order : Orders, ack : Orders \cup {NoAck}])
    BY <1>7, <1>9 DEF ReceiveNothing
  <2>2. receiving' = 0 /\ unfinished' \in 0..MaxSlot
    BY <1>6, <1>9 DEF ReceiveNothing
  <2>3. QED
    BY <1>1, <1>9, <2>1, <2>2 DEF ReceiveNothing, TypeOK
<1>10. CASE ReceiveUnexpected
  <2>1. /\ Len(Waiting') = Len(Waiting) - 1 /\ receiving' = 0
        /\ unfinished' = unfinished - 1 /\ unfinished' \in 0..MaxSlot
    BY <1>6, <1>10 DEF ReceiveUnexpected
  <2>2. CountInv'
    BY <1>1, <1>10, <2>1 DEF ReceiveUnexpected, CountInv, Recorded
  <2>3. Tail(answers) \in Seq(Orders)
    BY <1>10 DEF ReceiveUnexpected, TypeOK
  <2>4. TypeOK'
    BY <1>1, <1>10, <2>1, <2>3 DEF ReceiveUnexpected, TypeOK
  <2>5. QED
    BY <2>2, <2>4
<1>11. CASE Answer \/ LoseContestant \/ Break
  <2>1. Waiting' = Waiting
    BY <1>11 DEF Answer, LoseContestant, Break, Waiting
  <2>2. CountInv'
    BY <1>11, <2>1 DEF Answer, LoseContestant, Break, CountInv, Recorded
  <2>3. answers' \in Seq(Orders) /\ requests' \in Seq(Orders)
    <3>1. CASE Answer
      <4>1. Head(requests) \in Orders /\ Tail(requests) \in Seq(Orders)
        BY <3>1 DEF Answer, TypeOK
      <4>2. QED
        BY <3>1, <4>1 DEF Answer, TypeOK
    <3>2. CASE LoseContestant \/ Break
      <4>1. answers \in Seq(Orders) /\ answers' \in Prefixes(answers) /\ requests' = <<>>
        BY <3>2 DEF LoseContestant, Break, TypeOK
      <4>2. QED
        BY <4>1, PrefixFacts
    <3>3. QED
      BY <1>11, <3>1, <3>2
  <2>4. TypeOK'
    BY <1>1, <1>11, <2>3 DEF Answer, LoseContestant, Break, TypeOK
  <2>5. QED
    BY <2>2, <2>4
<1>12. CASE UNCHANGED vars
  BY <1>12 DEF vars, TypeOK, CountInv, Recorded, Waiting
<1>13. QED
  BY <1>2, <1>3, <1>4, <1>5, <1>8, <1>9, <1>10, <1>11, <1>12 DEF Next, Bot, Receiver

---------------------------------------------------------------------------
(* Pairing. *)

LEMMA TailItems ==
  ASSUME NEW S, NEW s \in Seq(S), s # <<>>
  PROVE  /\ Tail(s) \in Seq(S) /\ Len(s) \in Nat \ {0} /\ Len(Tail(s)) = Len(s) - 1
         /\ Head(s) = s[1] /\ DOMAIN s = 1..Len(s) /\ DOMAIN Tail(s) = 1..(Len(s) - 1)
         /\ \A i \in 1..(Len(s) - 1) : i + 1 \in 1..Len(s) /\ Tail(s)[i] = s[i + 1]
OBVIOUS

LEMMA AppendItems ==
  ASSUME NEW S, NEW s \in Seq(S), NEW x \in S
  PROVE  /\ Append(s, x) \in Seq(S) /\ Len(s) \in Nat /\ Len(Append(s, x)) = Len(s) + 1
         /\ DOMAIN s = 1..Len(s) /\ DOMAIN Append(s, x) = 1..(Len(s) + 1)
         /\ \A i \in 1..(Len(s) + 1) : Append(s, x)[i] = IF i = Len(s) + 1 THEN x ELSE s[i]
OBVIOUS

LEMMA AscendingTail ==
  ASSUME NEW s \in Seq(Nat), s # <<>>, Ascending(s)
  PROVE  Ascending(Tail(s)) /\ \A i \in 1..(Len(s) - 1) : s[i] < s[i + 1]
PROOF
<1>1. \A i \in DOMAIN Tail(s) : i + 1 \in DOMAIN s /\ Tail(s)[i] = s[i + 1] /\ i \in Nat /\ i > 0
  OBVIOUS
<1>2. Ascending(Tail(s))
  BY <1>1 DEF Ascending
<1>3. \A i \in 1..(Len(s) - 1) : i \in DOMAIN s /\ i + 1 \in DOMAIN s /\ i < i + 1
  OBVIOUS
<1>4. QED
  BY <1>2, <1>3 DEF Ascending

\* A queue of orders up to n that gets the next one.
LEMMA OneMoreAscends ==
  ASSUME NEW W, NEW V, NEW n \in Nat, NEW m \in Nat,
         DOMAIN W = 1..m, \A i \in 1..m : W[i] \in Nat /\ W[i] <= n, Ascending(W),
         DOMAIN V = 1..(m + 1),
         \A i \in 1..(m + 1) : V[i] = IF i = m + 1 THEN n + 1 ELSE W[i]
  PROVE  Ascending(V) /\ \A i \in DOMAIN V : V[i] <= n + 1
PROOF
<1>1. \A i \in 1..(m + 1) : i # m + 1 => i \in 1..m
  OBVIOUS
<1>2. \A i \in 1..(m + 1) : V[i] <= n + 1
  BY <1>1
<1>3. ASSUME NEW i \in 1..(m + 1), NEW j \in 1..(m + 1), i < j PROVE V[i] < V[j]
  <2>1. i \in 1..m /\ V[i] = W[i] /\ W[i] <= n /\ W[i] \in Nat
    BY <1>1, <1>3
  <2>2. CASE j = m + 1
    BY <2>1, <2>2
  <2>3. CASE j # m + 1
    BY <1>1, <1>3, <2>1, <2>3 DEF Ascending
  <2> QED BY <2>2, <2>3
<1> QED BY <1>2, <1>3 DEF Ascending


LEMMA PairingStep == TypeOK /\ PairingInv /\ [Next]_vars => PairingInv'
PROOF
<1> SUFFICES ASSUME TypeOK, PairingInv, [Next]_vars PROVE PairingInv'
  OBVIOUS
<1> USE DEF wire
<1>1. /\ Waiting \in Seq(Orders) /\ Flight \in Seq(Orders)
      /\ Len(Waiting) \in Nat /\ Len(Flight) \in Nat
      /\ DOMAIN Waiting = 1..Len(Waiting) /\ DOMAIN Flight = 1..Len(Flight)
      /\ Orders \subseteq Nat /\ slot \in Nat
      /\ \A i \in 1..Len(Waiting) : Waiting[i] \in Nat
      /\ \A i \in 1..Len(Flight) : Flight[i] \in Nat
      /\ Waiting \in Seq(Nat) /\ Flight \in Seq(Nat)
  <2>1. /\ Waiting \in Seq(Orders) /\ Flight \in Seq(Orders) /\ Orders \subseteq Nat
        /\ slot \in Nat
    BY QueueTypes
  <2>2. Waiting \in Seq(Nat) /\ Flight \in Seq(Nat)
    BY <2>1, SeqMonotonic
  <2>3. QED
    BY <2>1, <2>2
<1>2. /\ Ascending(Waiting) /\ Ascending(Flight)
      /\ \A i \in 1..Len(Waiting) : Waiting[i] <= slot
      /\ \A i \in 1..Len(Flight) : Flight[i] <= slot
      /\ \A i \in DOMAIN Waiting \cap DOMAIN Flight : Flight[i] <= Waiting[i]
      /\ upstream => Len(Waiting) <= Len(Flight)
  BY <1>1 DEF PairingInv, Range
<1> DEFINE Goal(W, F, n, up) ==
      /\ Ascending(W) /\ Ascending(F)
      /\ \A i \in DOMAIN W : W[i] <= n
      /\ \A i \in DOMAIN F : F[i] <= n
      /\ \A i \in DOMAIN W \cap DOMAIN F : F[i] <= W[i]
      /\ up => Len(W) <= Len(F)
<1>3. SUFFICES Goal(Waiting', Flight', slot', upstream')
  BY DEF PairingInv, Range
<1>4. CASE SendOrder
  <2>1. /\ Waiting' = Append(Waiting, slot + 1)
        /\ Flight' = IF upstream THEN Append(Flight, slot + 1) ELSE Flight
        /\ slot + 1 \in Orders /\ slot' = slot + 1 /\ upstream' = upstream
    BY <1>4, SendQueues DEF SendOrder
  <2>2. /\ Len(Waiting') = Len(Waiting) + 1 /\ DOMAIN Waiting' = 1..(Len(Waiting) + 1)
        /\ \A i \in 1..(Len(Waiting) + 1) :
             Waiting'[i] = IF i = Len(Waiting) + 1 THEN slot + 1 ELSE Waiting[i]
    BY <1>1, <2>1, AppendItems
  <2>3. Ascending(Waiting') /\ \A i \in DOMAIN Waiting' : Waiting'[i] <= slot'
    <3>1. DOMAIN Waiting = 1..Len(Waiting) /\ Len(Waiting) \in Nat /\ slot \in Nat
          /\ \A i \in 1..Len(Waiting) : Waiting[i] \in Nat /\ Waiting[i] <= slot
      BY <1>1, <1>2
    <3>2. Ascending(Waiting') /\ \A i \in DOMAIN Waiting' : Waiting'[i] <= slot + 1
      BY <1>2, <2>2, <3>1, OneMoreAscends, Zenon
    <3> QED BY <2>1, <3>2
  <2>4. CASE upstream
    <3>1. /\ Len(Flight') = Len(Flight) + 1 /\ DOMAIN Flight' = 1..(Len(Flight) + 1)
          /\ \A i \in 1..(Len(Flight) + 1) :
               Flight'[i] = IF i = Len(Flight) + 1 THEN slot + 1 ELSE Flight[i]
      BY <1>1, <2>1, <2>4, AppendItems, SMTT(30)
    <3>2. Ascending(Flight') /\ \A i \in DOMAIN Flight' : Flight'[i] <= slot'
      <4>1. DOMAIN Flight = 1..Len(Flight) /\ Len(Flight) \in Nat /\ slot \in Nat
            /\ \A i \in 1..Len(Flight) : Flight[i] \in Nat /\ Flight[i] <= slot
        BY <1>1, <1>2
      <4>2. Ascending(Flight') /\ \A i \in DOMAIN Flight' : Flight'[i] <= slot + 1
        BY <1>2, <3>1, <4>1, OneMoreAscends, Zenon
      <4> QED BY <2>1, <4>2
    <3>3. \A i \in DOMAIN Waiting' \cap DOMAIN Flight' : Flight'[i] <= Waiting'[i]
      BY <1>1, <1>2, <2>2, <2>4, <3>1
    <3>4. QED
      BY <1>1, <1>2, <2>2, <2>3, <2>4, <3>1, <3>2, <3>3
  <2>5. CASE ~upstream
    <3>1. Flight' = Flight
      BY <2>1, <2>5
    <3>2. \A i \in DOMAIN Waiting' \cap DOMAIN Flight' : Flight'[i] <= Waiting'[i]
      BY <1>1, <1>2, <2>2, <3>1, SMTT(30)
    <3>3. QED
      BY <1>1, <1>2, <2>1, <2>3, <2>5, <3>1, <3>2
  <2>6. QED
    BY <2>4, <2>5
<1>5. ASSUME receiving # 0, Finish, pending' = pending
      PROVE  /\ Len(Waiting) \in Nat \ {0} /\ Len(Waiting') = Len(Waiting) - 1
             /\ DOMAIN Waiting' = 1..(Len(Waiting) - 1)
             /\ \A i \in 1..(Len(Waiting) - 1) :
                  i + 1 \in 1..Len(Waiting) /\ Waiting'[i] = Waiting[i + 1]
             /\ Ascending(Waiting')
             /\ \A i \in 1..(Len(Waiting) - 1) : Waiting[i] < Waiting[i + 1]
  <2>1. Waiting # <<>> /\ Waiting' = Tail(Waiting)
    BY <1>5, FinishQueues
  <2>2. /\ Len(Waiting) \in Nat \ {0} /\ Len(Waiting') = Len(Waiting) - 1
        /\ DOMAIN Waiting' = 1..(Len(Waiting) - 1)
        /\ \A i \in 1..(Len(Waiting) - 1) :
             i + 1 \in 1..Len(Waiting) /\ Waiting'[i] = Waiting[i + 1]
    BY <1>1, <2>1, TailItems
  <2>3. Ascending(Waiting') /\ \A i \in 1..(Len(Waiting) - 1) : Waiting[i] < Waiting[i + 1]
    BY <1>1, <1>2, <2>1, AscendingTail
  <2>4. QED
    BY <2>2, <2>3
<1>6. CASE Receive \/ ReceiveUnexpected
  <2>1. /\ receiving # 0 /\ Finish /\ answers # <<>> /\ answers' = Tail(answers)
        /\ UNCHANGED <<pending, requests, slot, upstream>>
    BY <1>6 DEF Receive, ReceiveUnexpected
  <2>2. Flight # <<>> /\ Flight' = Tail(Flight)
    BY <2>1, ReceiveQueues
  <2>3. /\ Len(Flight) \in Nat \ {0} /\ Len(Flight') = Len(Flight) - 1
        /\ DOMAIN Flight' = 1..(Len(Flight) - 1)
        /\ \A i \in 1..(Len(Flight) - 1) : i + 1 \in 1..Len(Flight) /\ Flight'[i] = Flight[i + 1]
    BY <1>1, <2>2, TailItems
  <2>4. Ascending(Flight')
    BY <1>1, <1>2, <2>2, AscendingTail
  <2>5. /\ Len(Waiting) \in Nat \ {0} /\ Len(Waiting') = Len(Waiting) - 1
        /\ DOMAIN Waiting' = 1..(Len(Waiting) - 1)
        /\ \A i \in 1..(Len(Waiting) - 1) :
             i + 1 \in 1..Len(Waiting) /\ Waiting'[i] = Waiting[i + 1]
        /\ Ascending(Waiting')
    BY <1>5, <2>1
  <2>6. \A i \in DOMAIN Waiting' \cap DOMAIN Flight' : Flight'[i] <= Waiting'[i]
    BY <1>1, <1>2, <2>3, <2>5
  <2>7. /\ \A i \in DOMAIN Waiting' : Waiting'[i] <= slot'
        /\ \A i \in DOMAIN Flight' : Flight'[i] <= slot'
    BY <1>2, <2>1, <2>3, <2>5
  <2>8. upstream' => Len(Waiting') <= Len(Flight')
    BY <1>2, <2>1, <2>3, <2>5
  <2>9. QED
    BY <2>4, <2>5, <2>6, <2>7, <2>8
<1>7. CASE ReceiveNothing
  <2>1. /\ receiving # 0 /\ Finish
        /\ UNCHANGED <<pending, answers, requests, slot, upstream>> /\ Flight' = Flight
    BY <1>7 DEF ReceiveNothing, Flight
  <2>2. /\ Len(Waiting) \in Nat \ {0} /\ Len(Waiting') = Len(Waiting) - 1
        /\ DOMAIN Waiting' = 1..(Len(Waiting) - 1)
        /\ \A i \in 1..(Len(Waiting) - 1) :
             i + 1 \in 1..Len(Waiting) /\ Waiting'[i] = Waiting[i + 1]
        /\ Ascending(Waiting')
        /\ \A i \in 1..(Len(Waiting) - 1) : Waiting[i] < Waiting[i + 1]
    BY <1>5, <2>1
  <2>3. \A i \in DOMAIN Waiting' \cap DOMAIN Flight' : Flight'[i] <= Waiting'[i]
    <3>1. SUFFICES ASSUME NEW i \in 1..(Len(Waiting) - 1), i \in 1..Len(Flight)
                   PROVE  Flight[i] <= Waiting[i + 1]
      BY <1>1, <2>1, <2>2
    <3>2. Flight[i] <= Waiting[i] /\ Waiting[i] < Waiting[i + 1]
      <4>1. i \in 1..Len(Waiting)
        BY <1>1, <3>1
      <4>2. QED
        BY <1>1, <1>2, <2>2, <3>1, <4>1
    <3>3. Flight[i] \in Nat /\ Waiting[i] \in Nat /\ Waiting[i + 1] \in Nat
      BY <1>1, <2>2, <3>1
    <3>4. QED
      BY <3>2, <3>3
  <2>4. /\ \A i \in DOMAIN Waiting' : Waiting'[i] <= slot'
        /\ \A i \in DOMAIN Flight' : Flight'[i] <= slot'
    BY <1>1, <1>2, <2>1, <2>2
  <2>5. upstream' => Len(Waiting') <= Len(Flight')
    BY <1>1, <1>2, <2>1, <2>2
  <2>6. QED
    BY <1>2, <2>1, <2>2, <2>3, <2>4, <2>5
<1>8. CASE LoseContestant \/ Break
  <2>1. Waiting' = Waiting /\ slot' = slot /\ ~upstream'
    BY <1>8 DEF LoseContestant, Break, Waiting
  <2>2. /\ Flight' \in Seq(Orders) /\ Len(Flight') \in 0..Len(Flight)
        /\ \A i \in 1..Len(Flight') : Flight'[i] = Flight[i]
    BY <1>8, BreakQueues DEF LoseContestant, Break
  <2>3. DOMAIN Flight' = 1..Len(Flight')
    BY <2>2
  <2>4. DOMAIN Flight' \subseteq DOMAIN Flight /\ \A i \in DOMAIN Flight' : Flight'[i] = Flight[i]
    BY <1>1, <2>2, <2>3
  <2>5. Ascending(Flight')
    BY <1>2, <2>4 DEF Ascending
  <2>6. QED
    BY <1>1, <1>2, <2>1, <2>4, <2>5
<1>9. CASE Waiting' = Waiting /\ Flight' = Flight /\ slot' \in {slot, slot + 1} /\ upstream' = upstream
  BY <1>1, <1>2, <1>9
<1>10. CASE SendFails \/ Deadline \/ Joined \/ UNCHANGED vars
  BY <1>9, <1>10 DEF SendFails, Deadline, Joined, vars, Waiting, Flight
<1>11. CASE TakePending
  BY <1>9, <1>11, TakeQueues DEF TakePending
<1>12. CASE Answer
  <2>1. Waiting' = Waiting /\ slot' = slot /\ upstream' = upstream
    BY <1>12 DEF Answer, Waiting
  <2>2. QED
    BY <1>9, <1>12, <2>1, AnswerQueues
<1>13. QED
  <2> HIDE DEF Goal
  <2>1. QED
    BY <1>4, <1>6, <1>7, <1>8, <1>10, <1>11, <1>12 DEF Next, Bot, Receiver

\* An event with an ack that is not later than its order, and comes after all
\* acks used and before all that are to come, keeps the order of acks.
LEMMA UseAck ==
  ASSUME TypeOK, UsedInv, NEW order \in Orders, NEW ack \in Orders \cup {NoAck},
         RecordResponse(order, ack), Range(Flight') \subseteq Range(Flight),
         slot \in Nat, slot' \in Nat, slot <= slot',
         ack # NoAck => /\ ack <= order /\ ack <= slot /\ ack \in Range(Flight)
                        /\ \A k \in Range(Flight') : ack < k
  PROVE  UsedInv'
PROOF
<1>1. /\ Len(events') = Len(events) + 1 /\ Len(events) \in Nat
      /\ \A i \in 1..Len(events) : events'[i] = events[i]
      /\ events'[Len(events) + 1] = [order |-> order, ack |-> ack]
      /\ events' \in Seq([order : Orders, ack : Orders \cup {NoAck}])
  BY RecordFacts
<1> DEFINE n == Len(events) + 1
<1>2. DOMAIN events' = 1..n /\ DOMAIN events = 1..Len(events)
  BY <1>1 DEF TypeOK
<1>3. events'[n].ack = ack /\ events'[n].order = order
  BY <1>1
<1>4. /\ \A i \in 1..Len(events) : events[i].ack # NoAck =>
           /\ events[i].ack <= events[i].order /\ events[i].ack <= slot
           /\ \A k \in Range(Flight) : events[i].ack < k
           /\ \A j \in 1..Len(events) : events[j].ack # NoAck /\ i < j => events[i].ack < events[j].ack
  BY <1>2 DEF UsedInv, AcksInOrder
<1>5. \A i \in 1..n : i \in 1..Len(events) \/ i = n
  BY <1>1
<1> HIDE DEF n
<1>6. ASSUME NEW i \in 1..n, events'[i].ack # NoAck
      PROVE  /\ events'[i].ack <= events'[i].order /\ events'[i].ack <= slot'
             /\ \A k \in Range(Flight') : events'[i].ack < k
  <2>1. events'[i] \in [order : Orders, ack : Orders \cup {NoAck}]
    BY <1>1, <1>2, ElementOfSeq DEF n
  <2>2. QED
    <3>1. events'[i].ack \in Nat
      BY <1>6, <2>1 DEF Orders
    <3>2. QED
      BY <1>1, <1>3, <1>4, <1>5, <1>6, <3>1
<1>7. ASSUME NEW i \in 1..n, NEW j \in 1..n, i < j,
             events'[i].ack # NoAck, events'[j].ack # NoAck
      PROVE  events'[i].ack < events'[j].ack
  <2>1. i \in 1..Len(events)
    BY <1>1, <1>7 DEF n
  <2>2. CASE j = n
    BY <1>1, <1>3, <1>4, <1>7, <2>1, <2>2
  <2>3. CASE j \in 1..Len(events)
    BY <1>1, <1>4, <1>7, <2>1, <2>3
  <2>4. QED
    BY <1>5, <2>2, <2>3
<1>8. AcksInOrder'
  BY <1>2, <1>6, <1>7 DEF AcksInOrder
<1>9. QED
  BY <1>2, <1>6, <1>8 DEF UsedInv

LEMMA UsedStep == TypeOK /\ PairingInv /\ UsedInv /\ [Next]_vars => UsedInv'
PROOF
<1> SUFFICES ASSUME TypeOK, PairingInv, UsedInv, [Next]_vars PROVE UsedInv'
  OBVIOUS
<1> USE DEF wire
<1>1. /\ Waiting \in Seq(Orders) /\ Flight \in Seq(Orders) /\ Orders \subseteq Nat \ {0}
      /\ receiving \in {0} \cup Orders /\ slot \in 0..MaxSlot /\ NoAck \notin Nat
      /\ Orders = 1..MaxSlot /\ MaxSlot \in Nat
  BY QueueTypes, SlotAssumption DEF TypeOK, Orders
<1>2. CASE events' = events /\ slot' = slot /\ Range(Flight') \subseteq Range(Flight)
  BY <1>2 DEF UsedInv, AcksInOrder
<1>3. CASE SendOrder
  <2>1. /\ Flight' = IF upstream THEN Append(Flight, slot + 1) ELSE Flight
        /\ slot + 1 \in Orders /\ events' = events
    BY <1>3, SendQueues DEF SendOrder
  <2>2. Range(Flight') \subseteq Range(Flight) \cup {slot + 1}
    BY <1>1, <2>1, AppendRange
  <2>3. ASSUME NEW i \in DOMAIN events, events[i].ack # NoAck
        PROVE  events[i].ack < slot + 1 /\ events[i].ack <= slot + 1
    <3>1. events[i] \in [order : Orders, ack : Orders \cup {NoAck}]
      <4>1. events \in Seq([order : Orders, ack : Orders \cup {NoAck}])
        BY DEF TypeOK
      <4>2. i \in 1..Len(events)
        BY <2>3, <4>1
      <4>3. QED
        BY <4>1, <4>2, ElementOfSeq
    <3>2. events[i].ack \in Nat /\ events[i].ack <= slot
      BY <1>1, <2>3, <3>1 DEF UsedInv
    <3>3. QED
      BY <1>1, <3>2
  <2>4. QED
    BY <1>3, <2>1, <2>2, <2>3 DEF SendOrder, UsedInv, AcksInOrder
<1>4. CASE SendFails
  <2>1. slot + 1 \in Orders /\ RecordResponse(slot + 1, NoAck) /\ Flight' = Flight /\ slot' = slot + 1
    BY <1>1, <1>4 DEF SendFails, Flight
  <2>2. slot \in Nat /\ slot' \in Nat /\ slot <= slot'
    BY <1>1, <2>1
  <2>3. QED
    BY <2>1, <2>2, UseAck
<1>5. CASE Receive
  <2>1. /\ receiving # 0 /\ Finish /\ answers # <<>> /\ answers' = Tail(answers)
        /\ UNCHANGED <<pending, requests, slot>>
    BY <1>5 DEF Receive
  <2>2. Flight # <<>> /\ Head(answers) = Head(Flight) /\ Flight' = Tail(Flight)
    BY <2>1, ReceiveQueues
  <2>3. Waiting # <<>> /\ receiving = Head(Waiting)
    BY <2>1, FinishQueues
  <2>4. Range(Flight) = {Head(Flight)} \cup Range(Flight')
    BY <1>1, <2>2, TailRange
  <2>5. /\ Len(Flight) \in Nat \ {0} /\ Head(Flight) = Flight[1] /\ DOMAIN Flight = 1..Len(Flight)
        /\ DOMAIN Flight' = 1..(Len(Flight) - 1)
        /\ \A i \in 1..(Len(Flight) - 1) : i + 1 \in 1..Len(Flight) /\ Flight'[i] = Flight[i + 1]
        /\ Len(Waiting) \in Nat \ {0} /\ Head(Waiting) = Waiting[1]
        /\ DOMAIN Waiting = 1..Len(Waiting)
    BY <1>1, <2>2, <2>3, TailItems
  <2>6. Flight[1] <= Waiting[1] /\ Flight[1] \in Range(Flight) /\ Flight[1] <= slot
    BY <2>5 DEF PairingInv, Range
  <2>7. \A k \in Range(Flight') : Flight[1] < k
    BY <2>5 DEF PairingInv, Ascending, Range
  <2>8. receiving \in Orders /\ Head(answers) \in Orders
    BY <1>1, <2>1 DEF TypeOK
  <2>9. PICK ack \in {Head(answers), NoAck} : RecordResponse(receiving, ack)
    BY <1>5 DEF Receive
  <2>10. slot \in Nat /\ slot' \in Nat /\ slot <= slot'
    BY <1>1, <2>1
  <2>11. /\ ack \in Orders \cup {NoAck} /\ Range(Flight') \subseteq Range(Flight)
         /\ ack # NoAck => /\ ack <= receiving /\ ack <= slot /\ ack \in Range(Flight)
                           /\ \A k \in Range(Flight') : ack < k
    BY <2>2, <2>3, <2>4, <2>5, <2>6, <2>7, <2>8, <2>9
  <2>12. QED
    BY <2>8, <2>9, <2>10, <2>11, UseAck
<1>6. CASE ReceiveNothing
  <2>1. receiving \in Orders /\ RecordResponse(receiving, NoAck) /\ Flight' = Flight /\ slot' = slot
    BY <1>1, <1>6 DEF ReceiveNothing, Flight
  <2>2. slot \in Nat /\ slot' \in Nat /\ slot <= slot'
    BY <1>1, <2>1
  <2>3. QED
    BY <2>1, <2>2, UseAck
<1>7. CASE ReceiveUnexpected
  <2>1. /\ answers # <<>> /\ answers' = Tail(answers) /\ UNCHANGED <<requests, events, slot>>
    BY <1>7 DEF ReceiveUnexpected
  <2>2. Flight # <<>> /\ Flight' = Tail(Flight)
    BY <2>1, ReceiveQueues
  <2>3. QED
    BY <1>1, <1>2, <2>1, <2>2, TailRange
<1>8. CASE LoseContestant \/ Break
  <2>1. /\ Flight' \in Seq(Orders) /\ Len(Flight') \in 0..Len(Flight) /\ events' = events
        /\ slot' = slot
        /\ \A i \in 1..Len(Flight') : Flight'[i] = Flight[i]
    BY <1>8, BreakQueues DEF LoseContestant, Break
  <2>2. DOMAIN Flight' = 1..Len(Flight') /\ DOMAIN Flight = 1..Len(Flight) /\ Len(Flight) \in Nat
    BY <1>1, <2>1
  <2>3. Range(Flight') \subseteq Range(Flight)
    BY <2>1, <2>2 DEF Range
  <2>4. QED
    BY <1>2, <2>1, <2>3
<1>9. CASE Deadline \/ Joined \/ UNCHANGED vars
  BY <1>2, <1>9 DEF Deadline, Joined, vars, Flight
<1>10. CASE TakePending
  BY <1>2, <1>10, TakeQueues DEF TakePending
<1>11. CASE Answer
  BY <1>2, <1>11, AnswerQueues DEF Answer
<1>12. QED
  BY <1>3, <1>4, <1>5, <1>6, <1>7, <1>8, <1>9, <1>10, <1>11 DEF Next, Bot, Receiver

---------------------------------------------------------------------------
(* The theorems. *)

LEMMA BotInit == Init => BotInv
PROOF
<1> SUFFICES ASSUME Init PROVE BotInv
  OBVIOUS
<1>1. /\ Waiting = <<>> /\ Flight = <<>> /\ events = <<>>
      /\ Range(<<>>) = {} /\ DOMAIN <<>> = {} /\ Len(<<>>) = 0
  BY DEF Init, Waiting, Flight, Range
<1>2. TypeOK
  <2>1. \A S : <<>> \in Seq(S)
    OBVIOUS
  <2>2. MaxSlot \in Nat /\ 0 \in 0..MaxSlot /\ 0 \in 0..2 * MaxSlot
    BY SlotAssumption
  <2>3. QED
    BY <2>1, <2>2 DEF Init, TypeOK
<1>3. CountInv
  BY <1>1 DEF Init, CountInv, Recorded
<1>4. PairingInv
  BY <1>1 DEF Init, PairingInv, Ascending
<1>5. UsedInv
  BY <1>1 DEF UsedInv, AcksInOrder
<1>6. QED
  BY <1>2, <1>3, <1>4, <1>5 DEF BotInv

LEMMA BotAlways == Spec => []BotInv
PROOF
<1>1. BotInv /\ [Next]_vars => BotInv'
  BY CountStep, PairingStep, UsedStep DEF BotInv
<1>2. QED
  BY <1>1, BotInit, PTL DEF Spec

\* The types hold: no counter of the bot leaves its range, whatever breaks.
THEOREM TypeCorrect == Spec => []TypeOK
PROOF
<1>1. BotInv => TypeOK
  BY DEF BotInv
<1>2. QED
  BY <1>1, BotAlways, PTL

\* A run that ends has recorded each of its orders exactly once.
THEOREM EveryOrderRecorded == Spec => []OneEventPerOrder
PROOF
<1>1. BotInv => OneEventPerOrder
  <2> SUFFICES ASSUME BotInv, phase = "done"
               PROVE  Len(events) = slot /\ Recorded = 1..slot
    BY DEF OneEventPerOrder, Recorded
  <2>1. ~deaf /\ unfinished = 0 /\ Len(Waiting) = 0 /\ Len(events) + unfinished = slot
    BY DEF BotInv, CountInv
  <2>2. Waiting \in Seq(Orders) /\ Len(events) \in Nat
    BY QueueTypes DEF BotInv, TypeOK
  <2>3. Waiting = <<>> /\ Range(Waiting) = {}
    BY <2>1, <2>2, EmptySeq DEF Range
  <2>4. QED
    <3>1. Recorded \cup Range(Waiting) = 1..slot
      BY <2>1 DEF BotInv, CountInv
    <3>2. Recorded = 1..slot
      BY <2>3, <3>1
    <3>3. Len(events) = slot
      BY <2>1, <2>2
    <3>4. QED
      BY <3>2, <3>3
<1>2. QED
  BY <1>1, BotAlways, PTL

\* Acks are used in the order they came, each once, and none for an order that
\* was sent before the one it answers.
THEOREM AcksKeepOrder == Spec => []AcksInOrder
PROOF
<1>1. BotInv => AcksInOrder
  BY DEF BotInv, UsedInv
<1>2. QED
  BY <1>1, BotAlways, PTL

---------------------------------------------------------------------------
(* How a run comes to its end. *)

\* How many steps of bot and receiver are left at most: a slot costs three (its send,
\* the taking of its order, the end of the wait), an order that waits two, one that is
\* waited for one, the deadline and the end of the join one each.
StepsToGo == 3 * (MaxSlot - slot) + 2 * unfinished - (IF receiving = 0 THEN 0 ELSE 1)
               + (CASE phase = "sending" -> 2 [] phase = "joining" -> 1 [] OTHER -> 0)

\* As long as _recv_loop lives, an item that is not done is one it waits for or will take;
\* once it has died, it waits for none.
JoinIsAnswered ==
  /\ ~deaf /\ unfinished # 0 => receiving # 0 \/ pending # <<>>
  /\ deaf => receiving = 0

RunRunsDown ==
  [][/\ StepsToGo' \in Nat /\ StepsToGo' <= StepsToGo
     /\ Bot \/ Receiver => StepsToGo' < StepsToGo]_vars

DeafFinishesNothing == [][deaf => deaf' /\ unfinished' >= unfinished]_vars

LEMMA StepsToGoIsNumber ==
  ASSUME TypeOK, CountInv
  PROVE  /\ StepsToGo \in Nat
         /\ MaxSlot \in Nat /\ slot \in 0..MaxSlot /\ unfinished \in Nat
         /\ receiving # 0 => unfinished >= 1
         /\ unfinished # 0 => receiving # 0 \/ pending # <<>>
PROOF
<1>1. /\ MaxSlot \in Nat /\ slot \in 0..MaxSlot /\ unfinished \in Nat
      /\ Len(pending) \in Nat /\ unfinished = Len(pending) + (IF receiving = 0 THEN 0 ELSE 1)
  BY QueueTypes DEF TypeOK, CountInv
<1>2. receiving # 0 => unfinished >= 1
  BY <1>1
<1>3. unfinished # 0 => receiving # 0 \/ pending # <<>>
  BY <1>1
<1>4. StepsToGo \in Nat
  BY <1>1, <1>2 DEF StepsToGo
<1>5. QED
  BY <1>1, <1>2, <1>3, <1>4

LEMMA RunStep ==
  ASSUME TypeOK, CountInv, [Next]_vars
  PROVE  /\ StepsToGo' <= StepsToGo
         /\ Bot \/ Receiver => StepsToGo' < StepsToGo
PROOF
<1>1. /\ MaxSlot \in Nat /\ slot \in Nat /\ slot <= MaxSlot /\ unfinished \in Nat
      /\ StepsToGo \in Nat
  BY StepsToGoIsNumber
<1>2. CASE SendOrder
  <2>1. /\ slot' = slot + 1 /\ slot < MaxSlot /\ unfinished' = unfinished + 1
        /\ UNCHANGED <<receiving, phase>>
    BY <1>2 DEF SendOrder
  <2>2. QED
    BY <1>1, <2>1 DEF StepsToGo
<1>3. CASE SendFails
  <2>1. /\ slot' = slot + 1 /\ slot < MaxSlot /\ UNCHANGED <<unfinished, receiving, phase>>
    BY <1>3 DEF SendFails
  <2>2. QED
    BY <1>1, <2>1 DEF StepsToGo
<1>4. CASE Deadline
  BY <1>1, <1>4 DEF Deadline, StepsToGo
<1>5. CASE Joined
  BY <1>1, <1>5 DEF Joined, StepsToGo
<1>6. CASE TakePending
  <2>1. receiving = 0 /\ receiving' # 0 /\ UNCHANGED <<slot, unfinished, phase>>
    BY <1>6, TakeQueues DEF TakePending, Orders
  <2>2. QED
    BY <1>1, <2>1 DEF StepsToGo
<1>7. CASE Receive \/ ReceiveUnexpected \/ ReceiveNothing
  <2>1. /\ receiving # 0 /\ receiving' = 0 /\ unfinished' = unfinished - 1
        /\ UNCHANGED <<slot, phase>>
    BY <1>7 DEF Receive, ReceiveUnexpected, ReceiveNothing, Finish
  <2>2. QED
    BY <1>1, <2>1 DEF StepsToGo
<1>8. CASE Bot \/ Receiver
  BY <1>1, <1>2, <1>3, <1>4, <1>5, <1>6, <1>7, <1>8 DEF Bot, Receiver
<1>9. CASE Answer \/ LoseContestant \/ Break \/ UNCHANGED vars
  <2>1. UNCHANGED <<slot, unfinished, receiving, phase>>
    BY <1>9 DEF Answer, LoseContestant, Break, vars
  <2>2. StepsToGo' = StepsToGo
    BY <2>1 DEF StepsToGo
  <2>3. ~(Bot \/ Receiver) \/ StepsToGo' < StepsToGo
    BY <1>1, <1>2, <1>3, <1>4, <1>5, <1>6, <1>7 DEF Bot, Receiver
  <2>4. QED
    BY <1>1, <2>2, <2>3
<1>10. QED
  BY <1>1, <1>8, <1>9 DEF Next

\* Every step of run_once and of _recv_loop leaves fewer to take, and nothing the
\* contestant or the connection does gives one back: the ranking argument of RunReturns.
THEOREM RunsComeToAnEnd == Spec => RunRunsDown
PROOF
<1>1. BotInv /\ BotInv' /\ [Next]_vars
        => [/\ StepsToGo' \in Nat /\ StepsToGo' <= StepsToGo
            /\ Bot \/ Receiver => StepsToGo' < StepsToGo]_vars
  <2> SUFFICES ASSUME BotInv, BotInv', [Next]_vars
               PROVE  /\ StepsToGo' \in Nat /\ StepsToGo' <= StepsToGo
                      /\ Bot \/ Receiver => StepsToGo' < StepsToGo
    OBVIOUS
  <2>1. /\ slot' \in 0..MaxSlot /\ unfinished' \in Nat /\ MaxSlot \in Nat
        /\ receiving' # 0 => unfinished' >= 1
    <3>1. /\ pending' \in Seq(Orders) /\ receiving' \in {0} \cup Orders
          /\ unfinished' = Len(Waiting')
          /\ slot' \in 0..MaxSlot /\ unfinished' \in 0..MaxSlot
      BY SlotAssumption DEF BotInv, TypeOK, CountInv, Orders
    <3>2. receiving' # 0 => Len(Waiting') = Len(pending') + 1
      BY <3>1, ConsFacts DEF Waiting
    <3>3. Len(pending') \in Nat
      BY <3>1
    <3>4. QED
      BY <3>1, <3>2, <3>3, SlotAssumption
  <2>2. StepsToGo' \in Nat
    BY <2>1 DEF StepsToGo
  <2>3. TypeOK /\ CountInv
    BY DEF BotInv
  <2>4. QED
    BY <2>2, <2>3, RunStep
<1>2. QED
  BY <1>1, BotAlways, PTL DEF Spec, RunRunsDown

\* pending.join() is always answered while _recv_loop lives: what is not done is an order
\* it waits for, with a timeout, or one it can take.
THEOREM JoinHasAnAnswer == Spec => []JoinIsAnswered
PROOF
<1>1. Init => (deaf => receiving = 0)
  BY DEF Init
<1>2. (deaf => receiving = 0) /\ [Next]_vars => (deaf => receiving = 0)'
  BY DEF Next, Bot, Receiver, SendOrder, SendFails, Deadline, Joined, TakePending, Receive,
     ReceiveUnexpected, ReceiveNothing, Finish, Answer, LoseContestant, Break, vars
<1>3. BotInv /\ (deaf => receiving = 0) => JoinIsAnswered
  BY StepsToGoIsNumber DEF BotInv, JoinIsAnswered
<1>4. QED
  BY <1>1, <1>2, <1>3, BotAlways, PTL DEF Spec

\* Once _recv_loop has died nothing is task_done any more: the join of a run with an
\* order that waits never returns, which is why RunReturns leaves these runs out.
THEOREM NothingIsDoneDeaf == Spec => DeafFinishesNothing
PROOF
<1>1. BotInv /\ JoinIsAnswered /\ [Next]_vars
        => [deaf => deaf' /\ unfinished' >= unfinished]_vars
  <2> SUFFICES ASSUME BotInv, JoinIsAnswered, [Next]_vars, deaf
               PROVE  deaf' /\ unfinished' >= unfinished
    OBVIOUS
  <2>1. receiving = 0 /\ unfinished \in Nat
    BY StepsToGoIsNumber DEF JoinIsAnswered, BotInv
  <2>2. deaf' /\ (unfinished' = unfinished \/ unfinished' = unfinished + 1)
    BY <2>1 DEF Next, Bot, Receiver, SendOrder, SendFails, Deadline, Joined, TakePending,
       Receive, ReceiveUnexpected, ReceiveNothing, Answer, LoseContestant, Break, vars
  <2>3. QED
    BY <2>1, <2>2
<1>2. QED
  BY <1>1, BotAlways, JoinHasAnAnswer, PTL DEF Spec, DeafFinishesNothing
=============================================================================
