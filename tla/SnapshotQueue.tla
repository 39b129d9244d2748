--------------------------- MODULE SnapshotQueue ---------------------------
(***************************************************************************)
(* The way of a snapshot row from flush_snapshots to TimescaleDB:          *)
(* db_queue, an asyncio.Queue of bounded size, and the coroutine db_writer *)
(* of services/ingester/main.py, which collects rows in a batch, inserts   *)
(* the batch and then upserts one correctness row for each of its rows.    *)
(* Rows are numbered in the order flush_snapshots makes them; row n is of  *)
(* submission owner[n].                                                    *)
(***************************************************************************)
EXTENDS Naturals, Sequences, FiniteSets

CONSTANTS Subs,
          MaxRows,     \* bound: rows made
          QueueSize,   \* maxsize of db_queue
          BatchSize,   \* BATCH_SIZE
          MaxCrashes   \* bound: how often the process dies

ASSUME RowsAssumption == MaxRows \in Nat /\ MaxCrashes \in Nat
ASSUME SizesAssumption == QueueSize \in Nat \ {0} /\ BatchSize \in Nat \ {0}

VARIABLES dropOldest,   \* DROP_POLICY = "drop_oldest", for good
          owner,        \* the submission of each row made so far
          queue,        \* db_queue
          batch,        \* db_writer's batch
          writer,       \* where db_writer is: "get" "insert" "upsert" "down"
          upserted,     \* how many rows of the batch have been upserted
          table,        \* latency_snapshots, in the order inserted
          correctness,  \* correctness_results: the row upserted last, 0 for none
          dropped,      \* rows taken off, or kept off, the full queue
          lostRows,     \* rows that died with the process
          crashes

vars == <<dropOldest, owner, queue, batch, writer, upserted, table, correctness, dropped,
          lostRows, crashes>>

Rows == DOMAIN owner
InSeq(s) == {s[i] : i \in DOMAIN s}

Init == /\ dropOldest \in BOOLEAN
        /\ owner = <<>> /\ queue = <<>> /\ batch = <<>>
        /\ writer = "get" /\ upserted = 0
        /\ table = <<>>
        /\ correctness = [s \in Subs |-> 0]
        /\ dropped = {} /\ lostRows = {}
        /\ crashes = 0

\* Variant for mutation runs: the newest of the waiting rows goes.
MakeRoom_Newest == IF Len(queue) = QueueSize /\ dropOldest
                   THEN SubSeq(queue, 1, Len(queue) - 1) ELSE queue

\* A full queue loses its oldest row to make room, under drop_oldest.
MakeRoom == IF Len(queue) = QueueSize /\ dropOldest THEN Tail(queue) ELSE queue

\* flush_snapshots: put_nowait, which refuses the row when there is no room.
EnqueueRow(s) ==
  /\ writer # "down"
  /\ Len(owner) < MaxRows
  /\ owner' = Append(owner, s)
  /\ LET row == Len(owner) + 1
         fits == Len(MakeRoom) < QueueSize
     IN /\ queue' = IF fits THEN Append(MakeRoom, row) ELSE MakeRoom
        /\ dropped' = dropped \cup (InSeq(queue) \ InSeq(MakeRoom))
                              \cup (IF fits THEN {} ELSE {row})
  /\ UNCHANGED <<dropOldest, batch, writer, upserted, table, correctness, lostRows, crashes>>

\* A row arrives within the timeout.  The batch is flushed when it is full, or
\* when the last flush was long enough ago.
GetRow ==
  /\ writer = "get"
  /\ queue # <<>>
  /\ batch' = Append(batch, Head(queue))
  /\ queue' = Tail(queue)
  /\ \E elapsed \in BOOLEAN :
       writer' = IF Len(batch') >= BatchSize \/ elapsed THEN "insert" ELSE "get"
  /\ UNCHANGED <<dropOldest, owner, upserted, table, correctness, dropped,
                 lostRows, crashes>>

\* Variant for mutation runs: only a full batch is flushed.
GetTimesOut_NoFlush ==
  writer = "get" /\ queue = <<>> /\ batch # <<>> /\ UNCHANGED vars

\* No row arrives for the whole timeout, so the last flush was at least as long
\* ago: a batch that is not empty is flushed.
GetTimesOut ==
  /\ writer = "get"
  /\ queue = <<>>
  /\ batch # <<>>
  /\ writer' = "insert"
  /\ UNCHANGED <<dropOldest, owner, queue, batch, upserted, table, correctness, dropped,
                 lostRows, crashes>>

\* Variant for mutation runs: off by one.
InsertBatch_Short ==
  /\ writer = "insert"
  /\ table' = table \o SubSeq(batch, 1, BatchSize - 1)
  /\ writer' = "upsert"
  /\ upserted' = 0
  /\ UNCHANGED <<dropOldest, owner, queue, batch, correctness, dropped,
                 lostRows, crashes>>

\* executemany: all of the batch or, when it raises, nothing (see Crash).
InsertBatch ==
  /\ writer = "insert"
  /\ table' = table \o batch
  /\ writer' = "upsert"
  /\ upserted' = 0
  /\ UNCHANGED <<dropOldest, owner, queue, batch, correctness, dropped,
                 lostRows, crashes>>

\* Variant for mutation runs: the upsert keeps what it finds.
Upserted_First(row) == IF correctness[owner[row]] = 0
                       THEN [correctness EXCEPT ![owner[row]] = row] ELSE correctness

\* ON CONFLICT DO UPDATE.
Upserted(row) == [correctness EXCEPT ![owner[row]] = row]

UpsertRow ==
  /\ writer = "upsert"
  /\ upserted < Len(batch)
  /\ upserted' = upserted + 1
  /\ correctness' = Upserted(batch[upserted + 1])
  /\ UNCHANGED <<dropOldest, owner, queue, batch, writer, table, dropped, lostRows, crashes>>

\* Variant for mutation runs: the batch is not cleared.
ClearBatch_Not ==
  /\ writer = "upsert"
  /\ upserted = Len(batch)
  /\ writer' = "get"
  /\ UNCHANGED <<dropOldest, owner, queue, batch, upserted, table, correctness, dropped,
                 lostRows, crashes>>

ClearBatch ==
  /\ writer = "upsert"
  /\ upserted = Len(batch)
  /\ batch' = <<>>
  /\ upserted' = 0
  /\ writer' = "get"
  /\ UNCHANGED <<dropOldest, owner, queue, table, correctness, dropped,
                 lostRows, crashes>>

\* The process is killed, or an exception of a coroutine ends it: what it held
\* is gone.
Crash ==
  /\ writer # "down"
  /\ crashes < MaxCrashes
  /\ crashes' = crashes + 1
  /\ lostRows' = lostRows \cup ((InSeq(queue) \cup InSeq(batch)) \ InSeq(table))
  /\ queue' = <<>> /\ batch' = <<>> /\ upserted' = 0
  /\ writer' = "down"
  /\ UNCHANGED <<dropOldest, owner, table, correctness, dropped>>

Restart ==
  /\ writer = "down"
  /\ writer' = "get"
  /\ UNCHANGED <<dropOldest, owner, queue, batch, upserted, table, correctness, dropped,
                 lostRows, crashes>>

Write == GetRow \/ GetTimesOut \/ InsertBatch \/ UpsertRow \/ ClearBatch

Next == (\E s \in Subs : EnqueueRow(s)) \/ Write \/ Crash \/ Restart

Spec == Init /\ [][Next]_vars

\* The event loop runs db_writer, its timeout expires and the database answers;
\* Docker restarts the process.
FairSpec == Spec /\ WF_vars(Write) /\ WF_vars(Restart)

---------------------------------------------------------------------------
(* Properties. *)

TypeOK ==
  /\ dropOldest \in BOOLEAN
  /\ owner \in Seq(Subs)
  /\ queue \in Seq(Rows) /\ Len(queue) <= QueueSize
  /\ batch \in Seq(Rows) /\ Len(batch) <= BatchSize
  /\ writer \in {"get", "insert", "upsert", "down"}
  /\ upserted \in 0..Len(batch)
  /\ table \in Seq(Rows)
  /\ correctness \in [Subs -> Rows \cup {0}]
  /\ dropped \subseteq Rows /\ lostRows \subseteq Rows
  /\ crashes \in 0..MaxCrashes

Ascending(s) == \A i, j \in DOMAIN s : i < j => s[i] < s[j]

\* The table receives rows in the order of time and each at most once, over
\* drops, batches, crashes and restarts.
RowsInOrder == Ascending(table)

\* Every row made is in exactly one place: on its way, in the table, dropped,
\* or lost with the process (a batch between insert and clear is in the table).
RowsAddUp ==
  LET onTheWay == InSeq(queue) \cup (InSeq(batch) \ InSeq(table))
  IN /\ Rows = onTheWay \cup InSeq(table) \cup dropped \cup lostRows
     /\ dropped \cap (onTheWay \cup InSeq(table) \cup lostRows) = {}
     /\ lostRows \cap (onTheWay \cup InSeq(table)) = {}

\* drop_oldest: a row is dropped only when every row still queued is younger,
\* so that under overload the queue holds the most recent rows.
OnlyOldestDropped ==
  [][dropOldest =>
       \A d \in dropped' \ dropped : \A i \in DOMAIN queue' : d < queue'[i]]_vars

\* Between batches the correctness row of a submission comes from the last of
\* its rows in the table, unless the process died between the two statements.
CorrectnessIsLatest ==
  writer = "get" /\ crashes = 0 =>
    \A s \in Subs : LET rows == {r \in InSeq(table) : owner[r] = s}
                    IN IF rows = {} THEN correctness[s] = 0
                       ELSE correctness[s] \in rows /\ \A r \in rows : r <= correctness[s]

\* Every row is written, dropped or lost in the end: no row waits for ever in
\* a batch that never fills up.
RowsAreSettled ==
  \A r \in 1..MaxRows : r \in Rows ~> r \in InSeq(table) \cup dropped \cup lostRows
=============================================================================
