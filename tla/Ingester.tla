------------------------------ MODULE Ingester ------------------------------
(***************************************************************************)
(* The ingester, services/ingester/main.py with histogram.py: one process, *)
(* one event loop, two of its coroutines (the third, db_writer, is in      *)
(* SnapshotQueue).  consume_loop reads the streams events:<sid> and counts *)
(* the events in trackers; flush_snapshots publishes each tracker's window *)
(* on the leaderboard and resets it.  A coroutine runs undisturbed from    *)
(* one await to the next, so an action is one such stretch and the two     *)
(* interleave at awaits only.                                              *)
(*                                                                         *)
(* Redis outlives the process; trackers, error counts and last_ids do not. *)
(* Docker restarts the process when it dies (restart: unless-stopped).     *)
(***************************************************************************)
EXTENDS Naturals, Sequences, FiniteSets, Functions

CONSTANTS Subs,         \* submission ids
          MaxEvents,    \* bound: events the bots emit
          ReadCount,    \* xread's count, per stream
          MaxLen,       \* xadd's maxlen: Redis may trim a longer stream to it
          MaxCrashes,   \* bound: how often the process is killed
          None

ASSUME BoundsAssumption == MaxEvents \in Nat /\ MaxCrashes \in Nat
ASSUME ReadCountAssumption == ReadCount \in Nat \ {0}
ASSUME MaxLenAssumption == MaxLen \in Nat

Snapshot == [sub : Subs, count : Nat, measured : Nat, errors : Nat, attempts : Nat, serial : Nat]

ASSUME NoneAssumption == None \notin Subs \cup Snapshot

VARIABLES
  \* Redis
  stream,       \* events:<sid>: was each order acked, or not
  trimmed,      \* how many events have been trimmed from its head
  savedOffset,  \* the hash ingester:offsets: the last id saved, 0 for none
  board,        \* the sorted set leaderboard: every member ever added
  \* the process
  lastId,       \* self.last_ids
  tracked,      \* the keys of self.trackers
  eventCount,   \* tracker.event_count
  measured,     \* how many latencies the tracker's histograms hold
  errorCount,   \* self.error_counts
  \* consume_loop
  consumer,     \* where it is: "down" "load" "read" "process" "save"
  from, got,    \* what xread returned lies after from, up to got: of each stream
                \* still to handle; got is 0 for the others
  saving,       \* the stream whose offset is being saved
  \* flush_snapshots
  flusher,      \* where it is: "down" "sleep" "pick" "counted" "scored" "published"
  todo,         \* trackers this round has still to look at
  snap,         \* the snapshot on its way to the board
  \* what an observer counts
  times,        \* how many times each event has been counted in a tracker
  processed,    \* events counted since the process started
  published,    \* events of the snapshots put on the board since then
  lost,         \* events a reset has wiped that no snapshot holds, since then
  crashes

redisVars == <<stream, trimmed, savedOffset, board>>
processVars == <<lastId, tracked, eventCount, measured, errorCount>>
consumeVars == <<consumer, from, got, saving>>
flushVars == <<flusher, todo, snap>>
observed == <<times, processed, published, lost, crashes>>
vars == <<redisVars, processVars, consumeVars, flushVars, observed>>

Zero == [s \in Subs |-> 0]

Init == /\ stream = [s \in Subs |-> <<>>]
        /\ trimmed = Zero /\ savedOffset = Zero
        /\ board = {}
        /\ lastId = Zero /\ tracked = {}
        /\ eventCount = Zero /\ measured = Zero /\ errorCount = Zero
        /\ consumer = "load" /\ from = Zero /\ got = Zero /\ saving = None
        /\ flusher = "sleep" /\ todo = {} /\ snap = None
        /\ processed = Zero /\ published = Zero /\ lost = Zero
        /\ times = [s \in Subs |-> <<>>]
        /\ crashes = 0

---------------------------------------------------------------------------
(* The bots. *)

\* xadd events:<sid>: every attempt gives one event, with or without an ack.
\* maxlen is approximate: Redis trims when it pleases, and never below MaxLen.
Emit(s, acked) ==
  /\ SumFunction([t \in Subs |-> Len(stream[t])]) < MaxEvents
  /\ stream' = [stream EXCEPT ![s] = Append(@, acked)]
  /\ \/ UNCHANGED trimmed
     \/ \E n \in trimmed[s] + 1..Len(stream[s]) + 1 :
          n + MaxLen <= Len(stream[s]) + 1 /\ trimmed' = [trimmed EXCEPT ![s] = n]
  /\ times' = [times EXCEPT ![s] = Append(@, 0)]
  /\ UNCHANGED <<savedOffset, board, processVars, consumeVars, flushVars,
                 processed, published, lost, crashes>>

---------------------------------------------------------------------------
(* consume_loop. *)

LoadOffsets ==
  /\ consumer = "load"
  /\ lastId' = savedOffset
  /\ consumer' = "read"
  /\ UNCHANGED <<redisVars, tracked, eventCount, measured, errorCount, from, got,
                 saving, flushVars, observed>>

ReadAfter(s) == IF lastId[s] < trimmed[s] THEN trimmed[s] ELSE lastId[s]

ReadUpTo(id, last) == IF id + ReadCount <= last THEN id + ReadCount ELSE last

\* Variant for mutation runs: the offset is saved when the messages arrive.
ReadStreams_SavesFirst ==
  /\ consumer = "read"
  /\ \E s \in Subs : ReadAfter(s) < Len(stream[s])
  /\ from' = [s \in Subs |-> ReadAfter(s)]
  /\ got' = [s \in Subs |-> IF ReadAfter(s) = Len(stream[s]) THEN 0
                            ELSE ReadUpTo(ReadAfter(s), Len(stream[s]))]
  /\ savedOffset' = [s \in Subs |-> IF got'[s] = 0 THEN savedOffset[s] ELSE got'[s]]
  /\ consumer' = "process"
  /\ UNCHANGED <<stream, trimmed, board, processVars, saving, flushVars, observed>>

\* discover_streams and xread: of each stream the messages after last_ids, at
\* most ReadCount of them, without those that have been trimmed; streams without
\* any are not in the answer.
ReadStreams ==
  /\ consumer = "read"
  /\ \E s \in Subs : ReadAfter(s) < Len(stream[s])
  /\ from' = [s \in Subs |-> ReadAfter(s)]
  /\ got' = [s \in Subs |-> IF ReadAfter(s) = Len(stream[s]) THEN 0
                            ELSE ReadUpTo(ReadAfter(s), Len(stream[s]))]
  /\ consumer' = "process"
  /\ UNCHANGED <<redisVars, processVars, saving, flushVars, observed>>

\* Variant for mutation runs: counts from the start of the stream.
Unacked_FromStart(s, first, last) == Cardinality({i \in 1..last : stream[s][i] = FALSE})

Unacked(s, first, last) == Cardinality({i \in first..last : stream[s][i] = FALSE})

\* After the await of xlen: every message of the stream goes through
\* process_event, and save_offset sets last_ids, before the next await.  (An
\* event without an ack has no latency: it is counted and not measured.)
ProcessMessages(s) ==
  /\ consumer = "process"
  /\ got[s] # 0
  /\ LET first == from[s] + 1
         count == got[s] - from[s]
         unacked == Unacked(s, first, got[s])
     IN /\ tracked' = tracked \cup {s}
        /\ eventCount' = [eventCount EXCEPT ![s] = @ + count]
        /\ measured' = [measured EXCEPT ![s] = @ + (count - unacked)]
        /\ errorCount' = [errorCount EXCEPT ![s] = @ + unacked]
        /\ times' = [times EXCEPT ![s] = [i \in DOMAIN @ |->
                       IF i \in first..got[s] THEN @[i] + 1 ELSE @[i]]]
        /\ processed' = [processed EXCEPT ![s] = @ + count]
  /\ lastId' = [lastId EXCEPT ![s] = got[s]]
  /\ saving' = s
  /\ consumer' = "save"
  /\ UNCHANGED <<redisVars, from, got, flushVars, published, lost, crashes>>

\* Variant for mutation runs: the assignment goes the other way.
SaveOffset_WrongWay ==
  /\ consumer = "save"
  /\ lastId' = [lastId EXCEPT ![saving] = savedOffset[saving]]
  /\ got' = [got EXCEPT ![saving] = 0]
  /\ consumer' = IF \E s \in Subs \ {saving} : got[s] # 0 THEN "process" ELSE "read"
  /\ saving' = None
  /\ UNCHANGED <<redisVars, tracked, eventCount, measured, errorCount, from, flushVars,
                 observed>>

\* hset ingester:offsets, and on to the next stream of xread's answer.
SaveOffset ==
  /\ consumer = "save"
  /\ savedOffset' = [savedOffset EXCEPT ![saving] = lastId[saving]]
  /\ got' = [got EXCEPT ![saving] = 0]
  /\ consumer' = IF \E s \in Subs \ {saving} : got[s] # 0 THEN "process" ELSE "read"
  /\ saving' = None
  /\ UNCHANGED <<stream, trimmed, board, processVars, from, flushVars, observed>>

Consume == LoadOffsets \/ ReadStreams \/ (\E s \in Subs : ProcessMessages(s)) \/ SaveOffset

---------------------------------------------------------------------------
(* flush_snapshots. *)

StartRound ==
  /\ flusher = "sleep"
  /\ tracked # {}
  /\ todo' = tracked
  /\ flusher' = "pick"
  /\ UNCHANGED <<redisVars, processVars, consumeVars, snap, observed>>

\* Variant for mutation runs: one round only.
EndRound_Stops ==
  /\ flusher = "pick"
  /\ todo = {}
  /\ flusher' = "down"
  /\ UNCHANGED <<redisVars, processVars, consumeVars, todo, snap, observed>>

EndRound ==
  /\ flusher = "pick"
  /\ todo = {}
  /\ flusher' = "sleep"
  /\ UNCHANGED <<redisVars, processVars, consumeVars, todo, snap, observed>>

\* tracker.snapshot(): an empty window is skipped, for another one the name is
\* fetched.
TakeSnapshot(s) ==
  /\ flusher = "pick"
  /\ s \in todo
  /\ IF eventCount[s] = 0
     THEN todo' = todo \ {s} /\ UNCHANGED <<flusher, snap>>
     ELSE /\ snap' = [sub |-> s, count |-> eventCount[s], measured |-> measured[s],
                      errors |-> 0, attempts |-> 0, serial |-> Cardinality(board)]
          /\ flusher' = "counted"
          /\ UNCHANGED todo
  /\ UNCHANGED <<redisVars, processVars, consumeVars, observed>>

\* After the await of the name: the error count is read and the error rate
\* computed, as errors / attempts.
ReadErrors ==
  /\ flusher = "counted"
  /\ LET errors == errorCount[snap.sub]
     IN snap' = [snap EXCEPT !.errors = errors, !.attempts = snap.count + errors]
  /\ flusher' = "scored"
  /\ UNCHANGED <<redisVars, processVars, consumeVars, todo, observed>>

\* zadd: the member is the payload's JSON, new with every flush.
PublishSnapshot ==
  /\ flusher = "scored"
  /\ board' = board \cup {snap}
  /\ published' = [published EXCEPT ![snap.sub] = @ + snap.count]
  /\ flusher' = "published"
  /\ UNCHANGED <<stream, trimmed, savedOffset, processVars, consumeVars, todo, snap,
                 times, processed, lost, crashes>>

\* Variant for mutation runs: no reset.
Cleared_Nothing(f, s) == f

Cleared(f, s) == [f EXCEPT ![s] = 0]

\* After the await of snapshot:latest: the row is queued and the window reset,
\* with whatever consume_loop has counted in it since the snapshot.  The
\* histograms are not reset.
ResetWindow ==
  /\ flusher = "published"
  /\ eventCount' = Cleared(eventCount, snap.sub)
  /\ errorCount' = Cleared(errorCount, snap.sub)
  /\ lost' = [lost EXCEPT ![snap.sub] = @ + (eventCount[snap.sub] - snap.count)]
  /\ todo' = todo \ {snap.sub}
  /\ snap' = None
  /\ flusher' = "pick"
  /\ UNCHANGED <<redisVars, lastId, tracked, measured, consumeVars,
                 times, processed, published, crashes>>

Flush == \/ StartRound \/ EndRound \/ (\E s \in Subs : TakeSnapshot(s))
         \/ ReadErrors \/ PublishSnapshot \/ ResetWindow

---------------------------------------------------------------------------
(* The process. *)

\* Killed between any two awaits; an exception in any coroutine ends the
\* process, too (gather).
Crash ==
  /\ consumer # "down"
  /\ crashes < MaxCrashes
  /\ crashes' = crashes + 1
  /\ lastId' = Zero /\ tracked' = {}
  /\ eventCount' = Zero /\ measured' = Zero /\ errorCount' = Zero
  /\ consumer' = "down" /\ from' = Zero /\ got' = Zero /\ saving' = None
  /\ flusher' = "down" /\ todo' = {} /\ snap' = None
  /\ processed' = Zero /\ published' = Zero /\ lost' = Zero
  /\ UNCHANGED <<redisVars, times>>

Restart ==
  /\ consumer = "down" /\ flusher = "down"
  /\ consumer' = "load" /\ flusher' = "sleep"
  /\ UNCHANGED <<redisVars, processVars, from, got, saving, todo, snap, observed>>

Next == \/ \E s \in Subs, acked \in BOOLEAN : Emit(s, acked)
        \/ Consume \/ Flush \/ Crash \/ Restart

Spec == Init /\ [][Next]_vars

\* The event loop runs each of its coroutines, and Docker restarts the process.
FairSpec == Spec /\ WF_vars(Consume) /\ WF_vars(Flush) /\ WF_vars(Restart)

---------------------------------------------------------------------------
(* Properties. *)

TypeOK ==
  /\ stream \in [Subs -> Seq(BOOLEAN)]
  /\ trimmed \in [Subs -> Nat] /\ from \in [Subs -> Nat]
  /\ savedOffset \in [Subs -> Nat] /\ lastId \in [Subs -> Nat] /\ got \in [Subs -> Nat]
  /\ board \subseteq Snapshot
  /\ tracked \subseteq Subs /\ todo \subseteq tracked
  /\ eventCount \in [Subs -> Nat] /\ measured \in [Subs -> Nat] /\ errorCount \in [Subs -> Nat]
  /\ consumer \in {"down", "load", "read", "process", "save"}
  /\ flusher \in {"down", "sleep", "pick", "counted", "scored", "published"}
  /\ saving \in Subs \cup {None} /\ (consumer = "save" <=> saving # None)
  /\ snap \in Snapshot \cup {None}
  /\ (flusher \in {"counted", "scored", "published"} <=> snap # None)
  /\ times \in [Subs -> Seq(Nat)]
  /\ processed \in [Subs -> Nat] /\ published \in [Subs -> Nat] /\ lost \in [Subs -> Nat]
  /\ crashes \in 0..MaxCrashes

\* The durable offset never runs ahead of the work: every event it covers has
\* been counted, in this process or in one that died, or was trimmed before it
\* could be read.  A restart resumes from the offset and skips no event itself.
NoEventSkipped ==
  \A s \in Subs : \A i \in 1..savedOffset[s] :
    i \in DOMAIN times[s] /\ (times[s][i] >= 1 \/ i <= trimmed[s])

\* An event is counted again only by a process that started after a crash
\* between counting it and saving the offset: at most once per process.
OncePerProcess == \A s \in Subs : \A i \in DOMAIN times[s] : times[s][i] <= 1 + crashes

\* Every event the process has counted is in exactly one of three places: in
\* one published snapshot, in the open window, or among those counted between
\* a snapshot and the reset that follows it.  No event is in two snapshots.
WindowAccounting ==
  \A s \in Subs :
    LET inBoth == IF flusher = "published" /\ snap.sub = s THEN snap.count ELSE 0
    IN published[s] + lost[s] + (eventCount[s] - inBoth) = processed[s]

\* The leaderboard charges a submission for each unacked event at most as often
\* as the event was counted: the errors of all its snapshots and those waiting
\* in the open window are no more than that, though the flusher reads the error
\* count an await after the window and wipes it two awaits later.
ErrorsCountedOnce ==
  \A s \in Subs :
    LET inBoth == IF flusher = "published" /\ snap.sub = s THEN snap.errors ELSE 0
        charged == SumFunctionOnSet([e \in board |-> e.errors], {e \in board : e.sub = s})
        counted == SumFunctionOnSet(times[s], {i \in DOMAIN times[s] : ~stream[s][i]})
    IN charged + errorCount[s] - inBoth <= counted

\* Every event is counted, whatever crashes come between, unless it is trimmed.
EveryEventCounted ==
  \A s \in Subs : \A i \in 1..MaxEvents :
    i \in DOMAIN times[s] ~> i \in DOMAIN times[s] /\ (times[s][i] >= 1 \/ i <= trimmed[s])

\* A submission with events gets on the leaderboard.
ReachesBoard == \A s \in Subs : stream[s] # <<>> ~> \E e \in board : e.sub = s

\* Neither coroutine starves the other: a window with events in it is flushed
\* and reset, or ends with its process.
WindowIsFlushed == \A s \in Subs : eventCount[s] > 0 ~> eventCount[s] = 0
=============================================================================
