------------------------ MODULE SnapshotQueueProofs ------------------------
(***************************************************************************)
(* Theorems about the way of a row to the database, for any submissions,   *)
(* numbers of rows, sizes of the queue and the batch, and crashes.         *)
(***************************************************************************)
EXTENDS SnapshotQueue, TLAPS

---------------------------------------------------------------------------
(* The inductive invariant. *)

\* A batch is flushed when it is full; nothing is held by a process that is down.
TypeInv ==
  /\ TypeOK
  /\ writer = "get" => Len(batch) < BatchSize
  /\ writer = "down" => batch = <<>> /\ queue = <<>> /\ upserted = 0 /\ crashes # 0

Below(A, B) == \A a \in A, b \in B : a < b

\* Rows keep the order in which they were made: those in the table before those
\* of the batch before those of the queue.  Once it is inserted the batch is the
\* end of the table.
OrderInv ==
  /\ Ascending(table) /\ Ascending(batch) /\ Ascending(queue)
  /\ Below(InSeq(table) \cup InSeq(batch), InSeq(queue))
  /\ writer # "upsert" => Below(InSeq(table), InSeq(batch))
  /\ writer = "upsert" =>
       /\ InSeq(batch) \subseteq InSeq(table)
       /\ Below(InSeq(table) \ InSeq(batch), InSeq(batch))

\* The rows whose turn to be upserted has come.
Reached == IF writer = "upsert"
           THEN InSeq(table) \ {batch[i] : i \in {j \in DOMAIN batch : j > upserted}}
           ELSE InSeq(table)

IsLatest(s, rows) ==
  IF rows = {} THEN correctness[s] = 0
  ELSE correctness[s] \in rows /\ \A r \in rows : r <= correctness[s]

LatestInv == crashes = 0 => \A s \in Subs : IsLatest(s, {r \in Reached : owner[r] = s})

QueueInv == TypeInv /\ OrderInv /\ RowsAddUp /\ LatestInv

---------------------------------------------------------------------------
(* Sequences of rows, the sets of their elements and their order. *)

LEMMA AppendFacts ==
  ASSUME NEW S, NEW s \in Seq(S), NEW x \in S
  PROVE  /\ Append(s, x) \in Seq(S) /\ Len(Append(s, x)) = Len(s) + 1 /\ Len(s) \in Nat
         /\ InSeq(Append(s, x)) = InSeq(s) \cup {x}
         /\ DOMAIN s = 1..Len(s) /\ \A i \in 1..Len(s) : Append(s, x)[i] = s[i]
PROOF
<1>1. /\ Append(s, x) \in Seq(S) /\ Len(Append(s, x)) = Len(s) + 1 /\ Len(s) \in Nat
      /\ DOMAIN s = 1..Len(s) /\ DOMAIN Append(s, x) = 1..(Len(s) + 1)
      /\ \A i \in 1..Len(s) : Append(s, x)[i] = s[i]
      /\ Append(s, x)[Len(s) + 1] = x
  OBVIOUS
<1>2. \A i \in 1..(Len(s) + 1) : i \in 1..Len(s) \/ i = Len(s) + 1
  BY <1>1
<1>3. InSeq(Append(s, x)) = InSeq(s) \cup {x}
  BY <1>1, <1>2 DEF InSeq
<1>4. QED
  BY <1>1, <1>3

LEMMA HeadTailFacts ==
  ASSUME NEW S, NEW s \in Seq(S), s # <<>>
  PROVE  /\ Head(s) \in S /\ Tail(s) \in Seq(S) /\ Len(Tail(s)) = Len(s) - 1 /\ Len(s) \in Nat \ {0}
         /\ InSeq(s) = {Head(s)} \cup InSeq(Tail(s))
PROOF
<1>1. /\ Head(s) \in S /\ Tail(s) \in Seq(S) /\ Len(Tail(s)) = Len(s) - 1 /\ Len(s) \in Nat \ {0}
      /\ DOMAIN s = 1..Len(s) /\ DOMAIN Tail(s) = 1..(Len(s) - 1)
      /\ \A i \in 1..(Len(s) - 1) : Tail(s)[i] = s[i + 1]
      /\ Head(s) = s[1]
  OBVIOUS
<1>2. \A i \in 1..Len(s) : i = 1 \/ (i - 1 \in 1..(Len(s) - 1) /\ s[i] = Tail(s)[i - 1])
  BY <1>1
<1>3. InSeq(s) \subseteq {Head(s)} \cup InSeq(Tail(s))
  <2>1. ASSUME NEW i \in 1..Len(s) PROVE s[i] \in {Head(s)} \cup InSeq(Tail(s))
    <3>1. CASE i = 1
      BY <1>1, <3>1
    <3>2. CASE i - 1 \in DOMAIN Tail(s) /\ s[i] = Tail(s)[i - 1]
      BY <3>2 DEF InSeq
    <3>3. QED
      BY <1>1, <1>2, <3>1, <3>2
  <2>2. QED
    BY <1>1, <2>1 DEF InSeq
<1>4. {Head(s)} \cup InSeq(Tail(s)) \subseteq InSeq(s)
  BY <1>1 DEF InSeq
<1>5. QED
  BY <1>1, <1>3, <1>4

LEMMA ConcatFacts ==
  ASSUME NEW S, NEW s \in Seq(S), NEW t \in Seq(S)
  PROVE  /\ s \o t \in Seq(S)
         /\ InSeq(s \o t) = InSeq(s) \cup InSeq(t)
PROOF
<1>1. /\ s \o t \in Seq(S) /\ Len(s) \in Nat /\ Len(t) \in Nat
      /\ DOMAIN s = 1..Len(s) /\ DOMAIN t = 1..Len(t) /\ DOMAIN (s \o t) = 1..(Len(s) + Len(t))
      /\ \A i \in 1..(Len(s) + Len(t)) :
           (s \o t)[i] = IF i <= Len(s) THEN s[i] ELSE t[i - Len(s)]
  OBVIOUS
<1>2. \A j \in 1..Len(t) : /\ j + Len(s) \in 1..(Len(s) + Len(t))
                           /\ (s \o t)[j + Len(s)] = t[j]
  BY <1>1
<1>3. \A i \in 1..(Len(s) + Len(t)) : i \in 1..Len(s) \/ i - Len(s) \in 1..Len(t)
  BY <1>1
<1>4. \A i \in 1..Len(s) : i \in 1..(Len(s) + Len(t)) /\ (s \o t)[i] = s[i]
  BY <1>1
<1>5. InSeq(s \o t) \subseteq InSeq(s) \cup InSeq(t)
  BY <1>1, <1>3 DEF InSeq
<1>6. InSeq(s) \subseteq InSeq(s \o t)
  BY <1>1, <1>4 DEF InSeq
<1>7. InSeq(t) \subseteq InSeq(s \o t)
  <2>1. \A j \in DOMAIN t : \E i \in DOMAIN (s \o t) : (s \o t)[i] = t[j]
    <3> SUFFICES ASSUME NEW j \in DOMAIN t PROVE \E i \in DOMAIN (s \o t) : (s \o t)[i] = t[j]
      OBVIOUS
    <3>1. j \in 1..Len(t) /\ j + Len(s) \in DOMAIN (s \o t) /\ (s \o t)[j + Len(s)] = t[j]
      BY <1>1, <1>2
    <3> QED BY <3>1
  <2> QED BY <2>1 DEF InSeq
<1>8. QED
  BY <1>1, <1>5, <1>6, <1>7

LEMMA AscendingAppend ==
  ASSUME NEW s \in Seq(Nat), NEW x \in Nat, Ascending(s), Below(InSeq(s), {x})
  PROVE  Ascending(Append(s, x))
PROOF
<1>1. \A i \in DOMAIN s : s[i] < x
  BY DEF Below, InSeq
<1>2. QED
  BY <1>1 DEF Ascending

LEMMA AscendingTail ==
  ASSUME NEW s \in Seq(Nat), s # <<>>, Ascending(s)
  PROVE  Ascending(Tail(s)) /\ Below({Head(s)}, InSeq(Tail(s)))
PROOF
<1>1. \A i \in DOMAIN Tail(s) : i + 1 \in DOMAIN s /\ Tail(s)[i] = s[i + 1] /\ i \in Nat /\ i > 0
  OBVIOUS
<1>2. Head(s) = s[1] /\ 1 \in DOMAIN s
  OBVIOUS
<1>3. Ascending(Tail(s))
  BY <1>1 DEF Ascending
<1>4. \A i \in DOMAIN Tail(s) : Head(s) < Tail(s)[i]
  BY <1>1, <1>2 DEF Ascending
<1>5. QED
  BY <1>3, <1>4 DEF Below, InSeq

LEMMA AscendingConcat ==
  ASSUME NEW s \in Seq(Nat), NEW t \in Seq(Nat), Ascending(s), Ascending(t),
         Below(InSeq(s), InSeq(t))
  PROVE  Ascending(s \o t)
PROOF
<1>1. \A i \in DOMAIN s, j \in DOMAIN t : s[i] < t[j]
  BY DEF Below, InSeq
<1>2. QED
  BY <1>1, SMTT(30) DEF Ascending

---------------------------------------------------------------------------
(* Types. *)

LEMMA RowFacts ==
  ASSUME TypeOK
  PROVE  /\ Len(owner) \in Nat /\ Rows = 1..Len(owner) /\ Rows \subseteq Nat \ {0}
         /\ queue \in Seq(Nat) /\ batch \in Seq(Nat) /\ table \in Seq(Nat)
         /\ InSeq(queue) \subseteq Rows /\ InSeq(batch) \subseteq Rows
         /\ InSeq(table) \subseteq Rows
PROOF
<1>1. owner \in Seq(Subs) /\ Len(owner) \in Nat /\ Rows = 1..Len(owner)
  BY DEF TypeOK, Rows
<1>2. \A s \in Seq(Rows) : s \in Seq(Nat) /\ InSeq(s) \subseteq Rows
  BY <1>1 DEF InSeq
<1>3. QED
  BY <1>1, <1>2 DEF TypeOK

LEMMA Widen ==
  ASSUME NEW S, NEW T, S \subseteq T
  PROVE  Seq(S) \subseteq Seq(T)
OBVIOUS

LEMMA RoomFacts ==
  ASSUME TypeOK
  PROVE  /\ MakeRoom \in Seq(Rows) /\ Len(MakeRoom) \in Nat /\ Len(MakeRoom) <= QueueSize
         /\ InSeq(MakeRoom) \subseteq InSeq(queue)
         /\ dropOldest => Len(MakeRoom) < QueueSize
PROOF
<1>1. queue \in Seq(Rows) /\ Len(queue) \in Nat /\ Len(queue) <= QueueSize /\ QueueSize \in Nat \ {0}
  BY SizesAssumption DEF TypeOK
<1>2. CASE Len(queue) = QueueSize /\ dropOldest
  <2>1. queue # <<>> /\ MakeRoom = Tail(queue)
    BY <1>1, <1>2 DEF MakeRoom
  <2>2. QED
    BY <1>1, <1>2, <2>1, HeadTailFacts
<1>3. CASE ~(Len(queue) = QueueSize /\ dropOldest)
  BY <1>1, <1>3 DEF MakeRoom
<1>4. QED
  BY <1>2, <1>3

LEMMA TypeStep == TypeInv /\ [Next]_vars => TypeInv'
PROOF
<1> SUFFICES ASSUME TypeInv, [Next]_vars PROVE TypeInv'
  OBVIOUS
<1> USE SizesAssumption, RowsAssumption, RowFacts
<1>1. TypeOK /\ Len(batch) \in Nat /\ Len(queue) \in Nat
  BY SMTT(30) DEF TypeInv, TypeOK
<1>2. ASSUME NEW s \in Subs, EnqueueRow(s) PROVE TypeInv'
  <2>1. owner' = Append(owner, s) /\ owner' \in Seq(Subs) /\ Rows' = 1..(Len(owner) + 1)
    BY <1>1, <1>2 DEF EnqueueRow, TypeOK, Rows
  <2>2. Rows \subseteq Rows' /\ Len(owner) + 1 \in Rows'
    BY <1>1, <2>1
  <2>3. MakeRoom \in Seq(Rows') /\ batch \in Seq(Rows') /\ table \in Seq(Rows')
    BY <1>1, <2>2, RoomFacts, Widen DEF TypeOK
  <2>4. queue' \in Seq(Rows') /\ Len(queue') <= QueueSize
    BY <1>1, <1>2, <2>2, <2>3, RoomFacts, AppendFacts DEF EnqueueRow
  <2>5. dropped' \subseteq Rows'
    BY <1>1, <1>2, <2>2, RoomFacts DEF EnqueueRow, TypeOK
  <2>6. TypeOK'
    BY <1>1, <1>2, <2>1, <2>2, <2>3, <2>4, <2>5 DEF EnqueueRow, TypeOK
  <2>7. QED
    BY <1>2, <2>6 DEF EnqueueRow, TypeInv
<1>3. CASE GetRow
  <2>1. /\ Head(queue) \in Rows /\ Tail(queue) \in Seq(Rows) /\ Len(Tail(queue)) <= QueueSize
    BY <1>1, <1>3, HeadTailFacts DEF GetRow, TypeOK
  <2>2. batch' \in Seq(Rows) /\ Len(batch') = Len(batch) + 1
    BY <1>1, <1>3, <2>1, AppendFacts DEF GetRow, TypeOK
  <2>3. Len(batch') <= BatchSize /\ upserted \in 0..Len(batch')
    BY <1>1, <1>3, <2>2 DEF GetRow, TypeOK, TypeInv
  <2>4. Rows' = Rows /\ queue' = Tail(queue) /\ writer' \in {"get", "insert"}
    BY <1>3 DEF GetRow, Rows
  <2>5. TypeOK'
    BY <1>1, <1>3, <2>1, <2>2, <2>3, <2>4 DEF GetRow, TypeOK
  <2>6. QED
    BY <1>1, <1>3, <2>2, <2>5 DEF GetRow, TypeInv
<1>4. CASE GetTimesOut
  BY <1>4 DEF GetTimesOut, TypeInv, TypeOK, Rows
<1>5. CASE InsertBatch
  BY <1>1, <1>5, ConcatFacts DEF InsertBatch, TypeInv, TypeOK, Rows
<1>6. CASE UpsertRow
  <2>1. upserted \in Nat /\ upserted + 1 \in 1..Len(batch) /\ batch[upserted + 1] \in Rows
    BY <1>1, <1>6 DEF UpsertRow, TypeOK
  <2>2. correctness' \in [Subs -> Rows \cup {0}]
    BY <1>1, <1>6, <2>1 DEF UpsertRow, Upserted, TypeOK
  <2>3. QED
    BY <1>1, <1>6, <2>1, <2>2, SMTT(30) DEF UpsertRow, TypeInv, TypeOK, Rows
<1>7. CASE ClearBatch
  BY <1>1, <1>7 DEF ClearBatch, TypeInv, TypeOK, Rows
<1>8. CASE Crash
  BY <1>1, <1>8 DEF Crash, TypeInv, TypeOK, Rows
<1>9. CASE Restart
  BY <1>1, <1>9 DEF Restart, TypeInv, TypeOK, Rows
<1>10. CASE UNCHANGED vars
  BY <1>10 DEF vars, TypeInv, TypeOK, Rows
<1>11. QED
  BY <1>2, <1>3, <1>4, <1>5, <1>6, <1>7, <1>8, <1>9, <1>10 DEF Next, Write

---------------------------------------------------------------------------
(* The order of rows. *)

\* What is left of the queue when room has been made is in order, and younger
\* than what is dropped for it.
LEMMA RoomOrder ==
  ASSUME TypeOK, Ascending(queue)
  PROVE  /\ Ascending(MakeRoom)
         /\ Below(InSeq(queue) \ InSeq(MakeRoom), InSeq(MakeRoom))
PROOF
<1>1. queue \in Seq(Nat) /\ Len(queue) \in Nat /\ QueueSize \in Nat \ {0}
  BY RowFacts, SizesAssumption DEF TypeOK
<1>2. CASE Len(queue) = QueueSize /\ dropOldest
  <2>1. queue # <<>> /\ MakeRoom = Tail(queue)
    BY <1>1, <1>2 DEF MakeRoom
  <2>2. InSeq(queue) \ InSeq(MakeRoom) \subseteq {Head(queue)}
    BY <1>1, <2>1, HeadTailFacts
  <2>3. QED
    BY <1>1, <2>1, <2>2, AscendingTail DEF Below
<1>3. CASE ~(Len(queue) = QueueSize /\ dropOldest)
  BY <1>3 DEF MakeRoom, Below
<1>4. QED
  BY <1>2, <1>3

LEMMA OrderStep == TypeInv /\ OrderInv /\ [Next]_vars => OrderInv'
PROOF
<1> SUFFICES ASSUME TypeInv, OrderInv, [Next]_vars PROVE OrderInv'
  OBVIOUS
<1>1. /\ TypeOK /\ queue \in Seq(Nat) /\ batch \in Seq(Nat) /\ table \in Seq(Nat)
      /\ InSeq(queue) \subseteq Nat /\ InSeq(batch) \subseteq Nat /\ InSeq(table) \subseteq Nat
  BY RowFacts DEF TypeInv
<1>2. ASSUME NEW s \in Subs, EnqueueRow(s) PROVE OrderInv'
  <2> DEFINE row == Len(owner) + 1
  <2>1. /\ row \in Nat /\ InSeq(MakeRoom) \subseteq InSeq(queue) /\ MakeRoom \in Seq(Nat)
        /\ Below(InSeq(table) \cup InSeq(batch) \cup InSeq(queue), {row})
    BY <1>1, RowFacts, RoomFacts DEF Below
  <2>2. queue' = MakeRoom \/ queue' = Append(MakeRoom, row)
    BY <1>2 DEF EnqueueRow
  <2>3. Ascending(queue')
    BY <1>1, <2>1, <2>2, RoomOrder, AscendingAppend DEF OrderInv, Below
  <2>4. InSeq(queue') \subseteq InSeq(queue) \cup {row}
    <3> HIDE DEF row
    <3>1. InSeq(Append(MakeRoom, row)) = InSeq(MakeRoom) \cup {row}
      BY <2>1, AppendFacts
    <3>2. QED
      BY <2>1, <2>2, <3>1
  <2>5. UNCHANGED <<table, batch, writer>>
    BY <1>2 DEF EnqueueRow
  <2>6. QED
    BY <2>1, <2>3, <2>4, <2>5 DEF OrderInv, Below
<1>3. CASE GetRow
  <2>1. /\ queue # <<>> /\ batch' = Append(batch, Head(queue)) /\ queue' = Tail(queue)
        /\ writer = "get" /\ writer' # "upsert" /\ table' = table
    BY <1>3 DEF GetRow
  <2>2. /\ Head(queue) \in Nat /\ InSeq(queue) = {Head(queue)} \cup InSeq(queue')
        /\ InSeq(batch') = InSeq(batch) \cup {Head(queue)}
    BY <1>1, <2>1, HeadTailFacts, AppendFacts
  <2>3. Ascending(batch') /\ Ascending(queue') /\ Below({Head(queue)}, InSeq(queue'))
    BY <1>1, <2>1, <2>2, AscendingAppend, AscendingTail DEF OrderInv, Below
  <2>4. QED
    BY <2>1, <2>2, <2>3 DEF OrderInv, Below
<1>4. CASE GetTimesOut
  BY <1>4 DEF GetTimesOut, OrderInv
<1>5. CASE InsertBatch
  <2>1. table' = table \o batch /\ UNCHANGED <<batch, queue>>
        /\ writer = "insert" /\ writer' = "upsert"
    BY <1>5 DEF InsertBatch
  <2>2. InSeq(table') = InSeq(table) \cup InSeq(batch) /\ Ascending(table')
    BY <1>1, <2>1, ConcatFacts, AscendingConcat DEF OrderInv
  <2>3. QED
    BY <2>1, <2>2 DEF OrderInv, Below
<1>6. CASE UpsertRow
  BY <1>6 DEF UpsertRow, OrderInv
<1>7. CASE queue' \in {queue, <<>>} /\ batch' = <<>> /\ table' = table
  <2>1. InSeq(<<>>) = {} /\ Ascending(<<>>)
    BY DEF InSeq, Ascending
  <2>2. QED
    BY <1>7, <2>1 DEF OrderInv, Below
<1>8. CASE ClearBatch \/ Crash
  BY <1>7, <1>8 DEF ClearBatch, Crash
<1>9. CASE Restart
  BY <1>9 DEF Restart, OrderInv
<1>10. CASE UNCHANGED vars
  BY <1>10 DEF vars, OrderInv
<1>11. QED
  BY <1>2, <1>3, <1>4, <1>5, <1>6, <1>8, <1>9, <1>10 DEF Next, Write

---------------------------------------------------------------------------
(* Where the rows are. *)

LEMMA RowsStep == TypeInv /\ OrderInv /\ RowsAddUp /\ [Next]_vars => RowsAddUp'
PROOF
<1> SUFFICES ASSUME TypeInv, OrderInv, RowsAddUp, [Next]_vars PROVE RowsAddUp'
  OBVIOUS
<1>1. /\ TypeOK /\ queue \in Seq(Nat) /\ batch \in Seq(Nat) /\ table \in Seq(Nat)
      /\ InSeq(queue) \subseteq Nat /\ InSeq(batch) \subseteq Nat /\ InSeq(table) \subseteq Nat
  BY RowFacts DEF TypeInv
<1>2. InSeq(queue) \cap (InSeq(table) \cup InSeq(batch)) = {}
  BY <1>1 DEF OrderInv, Below
<1>3. InSeq(<<>>) = {}
  BY DEF InSeq
<1>4. ASSUME NEW s \in Subs, EnqueueRow(s) PROVE RowsAddUp'
  <2> DEFINE row == Len(owner) + 1
             fits == Len(MakeRoom) < QueueSize
  <2>1. Rows' = Rows \cup {row} /\ row \notin Rows
    <3>1. owner' = Append(owner, s) /\ owner \in Seq(Subs) /\ s \in Subs
      BY <1>1, <1>4 DEF EnqueueRow, TypeOK
    <3>2. QED
      BY <3>1 DEF Rows
  <2>2. InSeq(queue') = IF fits THEN InSeq(MakeRoom) \cup {row} ELSE InSeq(MakeRoom)
    <3>1. MakeRoom \in Seq(Nat) /\ row \in Nat
      BY <1>1, RowFacts, RoomFacts
    <3>2. queue' = IF fits THEN Append(MakeRoom, row) ELSE MakeRoom
      BY <1>4 DEF EnqueueRow
    <3> HIDE DEF row
    <3>3. InSeq(Append(MakeRoom, row)) = InSeq(MakeRoom) \cup {row}
      BY <3>1, AppendFacts
    <3>4. QED
      BY <3>2, <3>3
  <2>3. /\ dropped' = dropped \cup (InSeq(queue) \ InSeq(MakeRoom)) \cup (IF fits THEN {} ELSE {row})
        /\ UNCHANGED <<batch, table, lostRows>>
    BY <1>4 DEF EnqueueRow
  <2>4. InSeq(MakeRoom) \subseteq InSeq(queue)
    BY <1>1, RoomFacts
  <2>5. QED
    BY <1>2, <2>1, <2>2, <2>3, <2>4 DEF RowsAddUp
<1>5. CASE GetRow
  <2>1. /\ queue # <<>> /\ batch' = Append(batch, Head(queue)) /\ queue' = Tail(queue)
        /\ UNCHANGED <<owner, table, dropped, lostRows>>
    BY <1>5 DEF GetRow
  <2>2. /\ InSeq(queue) = {Head(queue)} \cup InSeq(queue')
        /\ InSeq(batch') = InSeq(batch) \cup {Head(queue)}
    BY <1>1, <2>1, HeadTailFacts, AppendFacts
  <2>3. QED
    BY <1>2, <2>1, <2>2 DEF RowsAddUp, Rows
<1>6. CASE InsertBatch
  <2>1. table' = table \o batch /\ UNCHANGED <<owner, queue, batch, dropped, lostRows>>
    BY <1>6 DEF InsertBatch
  <2>2. InSeq(table') = InSeq(table) \cup InSeq(batch)
    BY <1>1, <2>1, ConcatFacts
  <2>3. QED
    BY <2>1, <2>2 DEF RowsAddUp, Rows
<1>7. CASE ClearBatch
  <2>1. InSeq(batch) \subseteq InSeq(table)
    BY <1>7 DEF ClearBatch, OrderInv
  <2>2. QED
    BY <1>3, <1>7, <2>1 DEF ClearBatch, RowsAddUp, Rows
<1>8. CASE Crash
  BY <1>2, <1>3, <1>8 DEF Crash, RowsAddUp, Rows
<1>9. CASE UNCHANGED <<owner, queue, batch, table, dropped, lostRows>>
  BY <1>9 DEF RowsAddUp, Rows
<1>10. CASE GetTimesOut \/ UpsertRow \/ Restart \/ UNCHANGED vars
  BY <1>9, <1>10 DEF GetTimesOut, UpsertRow, Restart, vars
<1>11. QED
  BY <1>4, <1>5, <1>6, <1>7, <1>8, <1>10 DEF Next, Write

---------------------------------------------------------------------------
(* The correctness rows. *)

LEMMA SameLatest ==
  ASSUME TypeInv, LatestInv, Reached' = Reached, UNCHANGED <<correctness, crashes>>,
         \A r \in InSeq(table) : owner'[r] = owner[r]
  PROVE  LatestInv'
PROOF
<1>1. Reached \subseteq InSeq(table)
  BY DEF Reached
<1>2. \A s \in Subs : {r \in Reached : owner[r] = s}' = {r \in Reached : owner[r] = s}
  BY <1>1
<1>3. QED
  BY <1>2 DEF LatestInv, IsLatest

LEMMA LatestStep == TypeInv /\ OrderInv /\ LatestInv /\ [Next]_vars => LatestInv'
PROOF
<1> SUFFICES ASSUME TypeInv, OrderInv, LatestInv, [Next]_vars PROVE LatestInv'
  OBVIOUS
<1>1. /\ TypeOK /\ batch \in Seq(Nat) /\ table \in Seq(Nat) /\ Len(batch) \in Nat
      /\ InSeq(batch) \subseteq Rows /\ InSeq(table) \subseteq Rows /\ Rows \subseteq Nat \ {0}
      /\ DOMAIN batch = 1..Len(batch)
  BY RowFacts DEF TypeInv
<1>2. ASSUME NEW s \in Subs, EnqueueRow(s) PROVE LatestInv'
  <2>1. owner' = Append(owner, s) /\ owner \in Seq(Subs)
    BY <1>1, <1>2 DEF EnqueueRow, TypeOK
  <2>2. \A r \in Rows : owner'[r] = owner[r]
    BY <2>1 DEF Rows
  <2>3. Reached' = Reached /\ UNCHANGED <<correctness, crashes>>
    BY <1>2 DEF EnqueueRow, Reached
  <2>4. QED
    BY <1>1, <2>2, <2>3, SameLatest
<1>3. CASE GetRow \/ GetTimesOut
  BY <1>3, SameLatest DEF GetRow, GetTimesOut, Reached
<1>4. CASE InsertBatch
  <2>1. /\ table' = table \o batch /\ UNCHANGED <<owner, batch, correctness, crashes>>
        /\ writer = "insert" /\ writer' = "upsert" /\ upserted' = 0
    BY <1>4 DEF InsertBatch
  <2>2. InSeq(table') = InSeq(table) \cup InSeq(batch)
    BY <1>1, <2>1, ConcatFacts
  <2>3. InSeq(table) \cap InSeq(batch) = {}
    <3>1. InSeq(table) \subseteq Nat /\ \A a \in InSeq(table), b \in InSeq(batch) : a < b
      BY <1>1, <2>1 DEF OrderInv, Below
    <3>2. QED
      BY <3>1
  <2>4. {batch[i] : i \in {j \in DOMAIN batch : j > 0}} = InSeq(batch)
    BY <1>1 DEF InSeq
  <2>5. Reached' = Reached
    BY <2>1, <2>2, <2>3, <2>4 DEF Reached
  <2>6. QED
    BY <2>1, <2>5, SameLatest
<1>5. CASE UpsertRow
  <2> DEFINE n == upserted + 1
             Later(k) == {batch[i] : i \in {j \in DOMAIN batch : j > k}}
  <2>1. /\ writer = "upsert" /\ writer' = "upsert" /\ upserted' = n /\ n \in DOMAIN batch
        /\ upserted \in Nat /\ UNCHANGED <<owner, batch, table, crashes>>
        /\ correctness' = [correctness EXCEPT ![owner[batch[n]]] = batch[n]]
    BY <1>1, <1>5 DEF UpsertRow, Upserted, TypeOK
  <2>2. PICK b \in InSeq(batch) : b = batch[n]
    BY <2>1 DEF InSeq
  <2>3. b \in InSeq(table) /\ b \in Nat \ {0} /\ owner[b] \in Subs
    <3>1. owner \in Seq(Subs) /\ b \in DOMAIN owner
      BY <1>1, <2>2 DEF TypeOK, Rows
    <3>2. QED
      BY <1>1, <2>1, <2>2, <3>1 DEF OrderInv
  <2>4. Reached = InSeq(table) \ Later(upserted) /\ Reached' = InSeq(table) \ Later(n)
    BY <2>1 DEF Reached
  <2>5. Later(upserted) = Later(n) \cup {b} /\ b \notin Later(n)
    <3>1. \A i \in DOMAIN batch : i > upserted <=> i = n \/ i > n
      BY <1>1, <2>1
    <3>2. \A i \in DOMAIN batch : i > n => batch[n] < batch[i]
      BY <2>1 DEF OrderInv, Ascending
    <3>3. \A i \in DOMAIN batch : batch[i] \in Nat
      BY <1>1
    <3>4. Later(upserted) = Later(n) \cup {b}
      BY <2>1, <2>2, <3>1
    <3>5. b \notin Later(n)
      BY <2>1, <2>2, <2>3, <3>2, <3>3
    <3>6. QED
      BY <3>4, <3>5
  <2>6. Reached' = Reached \cup {b}
    BY <2>3, <2>4, <2>5
  <2>7. ASSUME NEW r \in Reached PROVE r < b
    <3>1. CASE r \notin InSeq(batch)
      BY <2>1, <2>2, <2>4, <3>1 DEF OrderInv, Below
    <3>2. CASE r \in InSeq(batch)
      <4>1. PICK i \in DOMAIN batch : r = batch[i]
        BY <3>2 DEF InSeq
      <4>2. ~(i > upserted)
        BY <2>4, <4>1
      <4>3. i < n
        BY <1>1, <2>1, <4>2
      <4>4. QED
        BY <2>1, <2>2, <4>1, <4>3 DEF OrderInv, Ascending
    <3>3. QED
      BY <3>1, <3>2
  <2>8. SUFFICES ASSUME crashes = 0, NEW s \in Subs
                 PROVE  IsLatest(s, {r \in Reached : owner[r] = s})'
    BY <2>1 DEF LatestInv
  <2>9. IsLatest(s, {r \in Reached : owner[r] = s})
    BY <2>8 DEF LatestInv
  <2>10. DOMAIN correctness = Subs
    BY <1>1 DEF TypeOK
  <2>11. Reached \subseteq Nat
    BY <1>1, <2>4
  <2>12. CASE owner[b] = s
    <3>1. correctness'[s] = b
      BY <2>1, <2>2, <2>10, <2>12
    <3>2. b \in {r \in Reached' : owner'[r] = s}
      BY <2>1, <2>6, <2>12
    <3>3. \A r \in Reached' : r <= b
      BY <2>3, <2>6, <2>7, <2>11
    <3>4. QED
      BY <3>1, <3>2, <3>3 DEF IsLatest
  <2>13. CASE owner[b] # s
    <3>1. correctness'[s] = correctness[s]
      BY <2>1, <2>2, <2>10, <2>13
    <3>2. {r \in Reached' : owner'[r] = s} = {r \in Reached : owner[r] = s}
      BY <2>1, <2>6, <2>13
    <3>3. QED
      BY <2>9, <3>1, <3>2 DEF IsLatest
  <2>14. QED
    BY <2>12, <2>13
<1>6. CASE ClearBatch
  <2>1. {j \in DOMAIN batch : j > upserted} = {}
    BY <1>1, <1>6 DEF ClearBatch
  <2>2. Reached' = Reached
    BY <1>6, <2>1 DEF ClearBatch, Reached
  <2>3. QED
    BY <1>6, <2>2, SameLatest DEF ClearBatch
<1>7. CASE Crash \/ Restart
  BY <1>1, <1>7 DEF Crash, Restart, LatestInv, TypeInv, TypeOK
<1>8. CASE UNCHANGED vars
  BY <1>8, SameLatest DEF vars, Reached
<1>9. QED
  BY <1>2, <1>3, <1>4, <1>5, <1>6, <1>7, <1>8 DEF Next, Write

---------------------------------------------------------------------------
(* The theorems. *)

LEMMA QueueInit == Init => QueueInv
PROOF
<1> SUFFICES ASSUME Init PROVE QueueInv
  OBVIOUS
<1>1. Rows = {} /\ InSeq(<<>>) = {} /\ <<>> \in Seq(Rows) /\ <<>> \in Seq(Subs)
  BY DEF Init, Rows, InSeq
<1>2. TypeInv
  BY <1>1, SizesAssumption, RowsAssumption DEF Init, TypeInv, TypeOK
<1>3. OrderInv /\ RowsAddUp
  BY <1>1 DEF Init, OrderInv, Ascending, Below, RowsAddUp
<1>4. LatestInv
  BY <1>1 DEF Init, LatestInv, IsLatest, Reached
<1>5. QED
  BY <1>2, <1>3, <1>4 DEF QueueInv

LEMMA QueueAlways == Spec => []QueueInv
PROOF
<1>1. QueueInv /\ [Next]_vars => QueueInv'
  BY TypeStep, OrderStep, RowsStep, LatestStep DEF QueueInv
<1>2. QED
  BY <1>1, QueueInit, PTL DEF Spec

\* The queue and the batch never exceed their sizes, and hold rows that were made.
THEOREM TypeCorrect == Spec => []TypeOK
PROOF
<1>1. QueueInv => TypeOK
  BY DEF QueueInv, TypeInv
<1>2. QED
  BY <1>1, QueueAlways, PTL

\* Rows reach the table in the order of time, each at most once.
THEOREM TableInOrder == Spec => []RowsInOrder
PROOF
<1>1. QueueInv => RowsInOrder
  BY DEF QueueInv, OrderInv, RowsInOrder
<1>2. QED
  BY <1>1, QueueAlways, PTL

\* Every row made is in exactly one place, whatever is dropped and whenever the
\* process dies.
THEOREM NoRowUnaccounted == Spec => []RowsAddUp
PROOF
<1>1. QueueInv => RowsAddUp
  BY DEF QueueInv
<1>2. QED
  BY <1>1, QueueAlways, PTL

\* As long as the process lives, the correctness rows agree with the table
\* between batches.
THEOREM UpsertsKeepLatest == Spec => []CorrectnessIsLatest
PROOF
<1>1. QueueInv => CorrectnessIsLatest
  BY DEF QueueInv, LatestInv, IsLatest, Reached, CorrectnessIsLatest
<1>2. QED
  BY <1>1, QueueAlways, PTL

\* Under drop_oldest what is dropped is older than all that stays queued.
THEOREM DropsTheOldest == Spec => OnlyOldestDropped
PROOF
<1>1. QueueInv /\ [Next]_vars
        => [dropOldest => \A d \in dropped' \ dropped :
                            \A i \in DOMAIN queue' : d < queue'[i]]_vars
  <2> SUFFICES ASSUME QueueInv, [Next]_vars, dropOldest, NEW d \in dropped' \ dropped,
                      NEW i \in DOMAIN queue'
               PROVE  d < queue'[i]
    OBVIOUS
  <2>1. TypeOK /\ Ascending(queue)
    BY DEF QueueInv, TypeInv, OrderInv
  <2>2. PICK s \in Subs : EnqueueRow(s)
    BY DEF Next, Write, vars, GetRow, GetTimesOut, InsertBatch, UpsertRow, ClearBatch,
           Crash, Restart
  <2> DEFINE row == Len(owner) + 1
  <2>3. /\ Len(MakeRoom) < QueueSize /\ MakeRoom \in Seq(Nat) /\ row \in Nat
        /\ InSeq(queue) \subseteq Rows /\ Rows = 1..Len(owner) /\ Len(owner) \in Nat
    BY <2>1, RoomFacts, RowFacts
  <2>4. queue' = Append(MakeRoom, row) /\ d \in InSeq(queue) \ InSeq(MakeRoom)
    BY <2>2, <2>3 DEF EnqueueRow
  <2>5. d < row
    BY <2>3, <2>4
  <2>6. queue'[i] \in InSeq(MakeRoom) \cup {row}
    <3> HIDE DEF row
    <3>1. InSeq(queue') = InSeq(MakeRoom) \cup {row}
      BY <2>3, <2>4, AppendFacts
    <3>2. QED
      BY <3>1 DEF InSeq
  <2>7. QED
    BY <2>1, <2>4, <2>5, <2>6, RoomOrder DEF Below
<1>2. QED
  BY <1>1, QueueAlways, PTL DEF Spec, OnlyOldestDropped

---------------------------------------------------------------------------
(* How the writer's work comes to an end.                                  *)

\* How many steps of the writer are left, at most: a row of the queue costs at
\* most five (the timeout, the get, the insert, its upsert and the clearing).
BatchSteps == CASE writer = "get"    -> IF batch = <<>> THEN 0 ELSE Len(batch) + 3
                [] writer = "insert" -> Len(batch) + 2
                [] writer = "upsert" -> (Len(batch) - upserted) + 1
                [] OTHER             -> 0
StepsLeft == 5 * Len(queue) + BatchSteps

\* With no step left there is no row that waits, in the queue or in the batch.
NothingWaits == StepsLeft = 0 => Rows = InSeq(table) \cup dropped \cup lostRows

\* The writer runs only down, and only a new row winds it up.
WritesRunDown == [][/\ StepsLeft' \in Nat
                    /\ Write => StepsLeft' < StepsLeft
                    /\ owner' = owner => StepsLeft' <= StepsLeft]_vars

LEMMA StepsAreNumber ==
  ASSUME TypeInv
  PROVE  /\ StepsLeft \in Nat /\ BatchSteps \in Nat
         /\ Len(queue) \in Nat /\ Len(batch) \in Nat /\ upserted \in 0..Len(batch)
PROOF
<1>1. Len(queue) \in Nat /\ Len(batch) \in Nat /\ upserted \in 0..Len(batch)
  BY SMTT(30) DEF TypeInv, TypeOK
<1>2. BatchSteps \in Nat
  BY <1>1, SMTT(30) DEF BatchSteps, TypeInv, TypeOK
<1>3. QED
  BY <1>1, <1>2 DEF StepsLeft

LEMMA WriteRunsDown ==
  ASSUME TypeInv, Write
  PROVE  StepsLeft' < StepsLeft
PROOF
<1>1. TypeInv' /\ TypeOK
  BY TypeStep DEF Next, TypeInv
<1>2. /\ Len(queue) \in Nat /\ Len(batch) \in Nat /\ upserted \in 0..Len(batch)
  BY StepsAreNumber
<1>3. CASE GetRow
  <2>1. Len(queue') = Len(queue) - 1 /\ queue # <<>>
    BY <1>1, <1>3, HeadTailFacts DEF GetRow, TypeOK
  <2>2. Len(batch') = Len(batch) + 1 /\ batch' # <<>>
    <3>1. Head(queue) \in Rows /\ batch \in Seq(Rows)
      BY <1>1, <1>3, HeadTailFacts DEF GetRow, TypeOK
    <3>2. QED
      BY <1>3, <3>1, AppendFacts DEF GetRow
  <2>3. batch = <<>> => Len(batch) = 0
    OBVIOUS
  <2>4. writer = "get" /\ writer' \in {"get", "insert"}
    BY <1>3 DEF GetRow
  <2>5. BatchSteps >= IF batch = <<>> THEN 0 ELSE Len(batch) + 3
    BY <1>2, <2>4 DEF BatchSteps
  <2>6. BatchSteps' <= (Len(batch) + 1) + 3 /\ BatchSteps' \in Nat
    BY <1>2, <2>2, <2>4 DEF BatchSteps
  <2>7. BatchSteps \in Nat /\ BatchSteps' < BatchSteps + 5
    BY <1>2, <2>3, <2>5, <2>6, StepsAreNumber
  <2>8. QED
    BY <1>2, <2>1, <2>6, <2>7 DEF StepsLeft
<1>4. CASE GetTimesOut
  BY <1>2, <1>4 DEF GetTimesOut, StepsLeft, BatchSteps
<1>5. CASE InsertBatch
  BY <1>2, <1>5 DEF InsertBatch, StepsLeft, BatchSteps
<1>6. CASE UpsertRow
  BY <1>2, <1>6 DEF UpsertRow, StepsLeft, BatchSteps
<1>7. CASE ClearBatch
  BY <1>2, <1>7 DEF ClearBatch, StepsLeft, BatchSteps
<1>8. QED
  BY <1>3, <1>4, <1>5, <1>6, <1>7 DEF Write

\* Each step of the writer leaves fewer to take, and no row that is not made
\* anew, no crash and no restart adds one: the ranking argument of RowsAreSettled.
THEOREM WriterRunsDown == Spec => WritesRunDown
PROOF
<1>1. TypeInv /\ [Next]_vars
        => [/\ StepsLeft' \in Nat
            /\ Write => StepsLeft' < StepsLeft
            /\ owner' = owner => StepsLeft' <= StepsLeft]_vars
  <2> SUFFICES ASSUME TypeInv, [Next]_vars
               PROVE  /\ StepsLeft' \in Nat
                      /\ Write => StepsLeft' < StepsLeft
                      /\ owner' = owner => StepsLeft' <= StepsLeft
    OBVIOUS
  <2>1. StepsLeft' \in Nat /\ StepsLeft \in Nat
    <3>1. TypeInv'
      BY TypeStep
    <3>2. Len(queue)' \in Nat /\ Len(batch)' \in Nat /\ upserted' \in 0..Len(batch')
      BY <3>1, SMTT(30) DEF TypeInv, TypeOK
    <3>3. BatchSteps' \in Nat
      BY <3>1, <3>2, SMTT(30) DEF BatchSteps, TypeInv, TypeOK
    <3>4. QED
      BY <3>2, <3>3, StepsAreNumber DEF StepsLeft
  <2>2. /\ Len(queue) \in Nat /\ BatchSteps \in Nat
    BY StepsAreNumber
  <2>3. Write => StepsLeft' < StepsLeft
    BY WriteRunsDown
  <2>4. ASSUME owner' = owner PROVE StepsLeft' <= StepsLeft
    <3>1. CASE Write
      BY <2>1, <2>3, <3>1
    <3>2. ASSUME NEW s \in Subs, EnqueueRow(s) PROVE FALSE
      <4>1. owner \in Seq(Subs) /\ owner' = Append(owner, s)
        BY <3>2 DEF EnqueueRow, TypeInv, TypeOK
      <4>2. Len(owner') = Len(owner) + 1 /\ Len(owner) \in Nat
        BY <4>1
      <4>3. QED
        BY <2>4, <4>2
    <3>3. CASE Crash
      BY <2>2, <3>3 DEF Crash, StepsLeft, BatchSteps
    <3>4. CASE Restart
      <4>1. batch = <<>> /\ batch' = batch /\ queue' = queue
        BY <3>4 DEF Restart, TypeInv
      <4>2. BatchSteps' = 0
        BY <3>4, <4>1 DEF Restart, BatchSteps
      <4>3. QED
        BY <2>2, <4>1, <4>2 DEF StepsLeft
    <3>5. CASE UNCHANGED vars
      BY <2>1, <3>5 DEF vars, StepsLeft, BatchSteps
    <3>6. QED
      BY <3>1, <3>2, <3>3, <3>4, <3>5 DEF Next
  <2>5. QED
    BY <2>1, <2>3, <2>4
<1>2. QueueInv => TypeInv
  BY DEF QueueInv
<1>3. QED
  BY <1>1, <1>2, QueueAlways, PTL DEF Spec, WritesRunDown

\* A writer that has no step left has settled every row: no batch keeps a row
\* back while the queue is empty.
THEOREM NoRowIsKeptBack == Spec => []NothingWaits
PROOF
<1>1. QueueInv => NothingWaits
  <2> SUFFICES ASSUME QueueInv, StepsLeft = 0
               PROVE  Rows = InSeq(table) \cup dropped \cup lostRows
    BY DEF NothingWaits
  <2>1. TypeInv /\ TypeOK /\ RowsAddUp
    BY DEF QueueInv, TypeInv
  <2>2. Len(queue) \in Nat /\ Len(batch) \in Nat /\ BatchSteps \in Nat /\ upserted \in 0..Len(batch)
    BY <2>1, StepsAreNumber
  <2>3. Len(queue) = 0 /\ BatchSteps = 0
    BY <2>2 DEF StepsLeft
  <2>4. queue = <<>> /\ batch = <<>>
    <3>1. queue \in Seq(Rows)
      BY <2>1 DEF TypeOK
    <3>2. writer \in {"get", "down"} => batch = <<>>
      BY <2>1, <2>2, <2>3 DEF BatchSteps, TypeInv
    <3>3. writer \in {"get", "down"}
      BY <2>1, <2>2, <2>3 DEF BatchSteps, TypeOK
    <3>4. QED
      BY <2>3, <3>1, <3>2, <3>3
  <2>5. InSeq(queue) = {} /\ InSeq(batch) = {}
    BY <2>4 DEF InSeq
  <2>6. QED
    BY <2>1, <2>5 DEF RowsAddUp
<1>2. QED
  BY <1>1, QueueAlways, PTL
=============================================================================
