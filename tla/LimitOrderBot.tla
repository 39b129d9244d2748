--------------------------- MODULE LimitOrderBot ---------------------------
(***************************************************************************)
(* bots/limit_order_bot.py: run_once sends an order per slot, _recv_loop   *)
(* pairs what comes back with what was sent, by position, and each order   *)
(* becomes one LatencyEvent.  Here the bot talks to the contestant itself: *)
(* it answers every order in turn, in its own time, and may die without    *)
(* the bot's noticing; the connection may break.  ProxiedBot puts the      *)
(* proxy between them.  An order is its slot.                              *)
(***************************************************************************)
EXTENDS Integers, Sequences, FiniteSets

CONSTANTS MaxSlot,    \* bound: slots before the deadline
          MaxBreaks,  \* bound: 1 if contestant and connection may misbehave, or 0
          NoAck       \* an event without ack_ts_ns

ASSUME SlotAssumption == MaxSlot \in Nat /\ MaxBreaks \in {0, 1} /\ NoAck \notin Nat

VARIABLES
  phase,      \* run_once: "sending" "joining" "done" "raised"
  slot,       \* the last slot sent
  pending,    \* the queue pending
  receiving,  \* what _recv_loop has taken from it, or 0
  deaf,       \* an exception has ended _recv_loop
  unfinished, \* items put and not yet task_done
  events,     \* the events recorded: the order and the order its ack was for
  errors,
  connected,  \* the bot's connection
  upstream,   \* is there a contestant at the other end
  requests,   \* on their way to the contestant
  answers     \* acks on their way to the bot

wire == <<connected, upstream, requests, answers>>
vars == <<phase, slot, pending, receiving, deaf, unfinished, events, errors, wire>>

Init ==
  /\ phase = "sending" /\ slot = 0
  /\ pending = <<>> /\ receiving = 0 /\ deaf = FALSE /\ unfinished = 0
  /\ events = <<>> /\ errors = 0
  /\ connected = TRUE /\ upstream = TRUE /\ requests = <<>> /\ answers = <<>>

RecordResponse(order, ack) == events' = Append(events, [order |-> order, ack |-> ack])

SendOrder ==
  /\ phase = "sending" /\ slot < MaxSlot /\ connected
  /\ slot' = slot + 1
  /\ requests' = IF upstream THEN Append(requests, slot') ELSE requests
  /\ pending' = Append(pending, slot')
  /\ unfinished' = unfinished + 1
  /\ UNCHANGED <<phase, receiving, deaf, events, errors, connected, upstream, answers>>

\* Variant for mutation runs: an order that could not be sent leaves no event.
SendFails_Unrecorded ==
  /\ phase = "sending" /\ slot < MaxSlot /\ ~connected
  /\ slot' = slot + 1
  /\ errors' = errors + 1
  /\ UNCHANGED <<phase, pending, receiving, deaf, unfinished, events, wire>>

\* ws.send raises: counted here, and by record_response a second time.
SendFails ==
  /\ phase = "sending" /\ slot < MaxSlot /\ ~connected
  /\ slot' = slot + 1
  /\ errors' = errors + 2
  /\ RecordResponse(slot', NoAck)
  /\ UNCHANGED <<phase, pending, receiving, deaf, unfinished, wire>>

\* The deadline passes; pending.join() begins.
Deadline ==
  /\ phase = "sending"
  /\ phase' = "joining"
  /\ UNCHANGED <<slot, pending, receiving, deaf, unfinished, events, errors, wire>>

\* It returns, and the receiver is cancelled; one that has died is awaited, and
\* its exception raised.
Joined ==
  /\ phase = "joining" /\ unfinished = 0
  /\ phase' = IF deaf THEN "raised" ELSE "done"
  /\ UNCHANGED <<slot, pending, receiving, deaf, unfinished, events, errors, wire>>

---------------------------------------------------------------------------
(* _recv_loop. *)

TakePending ==
  /\ phase \in {"sending", "joining"} /\ ~deaf /\ receiving = 0 /\ pending # <<>>
  /\ receiving' = Head(pending) /\ pending' = Tail(pending)
  /\ UNCHANGED <<phase, slot, deaf, unfinished, events, errors, wire>>

\* Variant for mutation runs: task_done is called twice.
Finish_Twice == receiving' = 0 /\ unfinished' = unfinished - 2

Finish == receiving' = 0 /\ unfinished' = unfinished - 1

\* Variant for mutation runs: the ack stays in the buffer.
Receive_Keeps ==
  /\ receiving # 0 /\ answers # <<>>
  /\ RecordResponse(receiving, Head(answers))
  /\ Finish
  /\ UNCHANGED <<phase, slot, pending, deaf, errors, wire>>

\* The next ack is taken to be the one of the order waited for.  One that
\* cannot be read counts as an error, and leaves an event without an ack.
Receive ==
  /\ receiving # 0 /\ answers # <<>>
  /\ \E readable \in BOOLEAN :
       /\ RecordResponse(receiving, IF readable THEN Head(answers) ELSE NoAck)
       /\ errors' = IF readable THEN errors ELSE errors + 1
  /\ answers' = Tail(answers)
  /\ Finish
  /\ UNCHANGED <<phase, slot, pending, deaf, connected, upstream, requests>>

\* It is JSON and no object, or holds a fill that is none: the AttributeError
\* is caught nowhere, and the loop ends with it.
ReceiveUnexpected ==
  /\ receiving # 0 /\ answers # <<>> /\ MaxBreaks > 0
  /\ answers' = Tail(answers)
  /\ Finish
  /\ deaf' = TRUE
  /\ UNCHANGED <<phase, slot, pending, events, errors, connected, upstream, requests>>

\* Variant for mutation runs: there is no timeout, only the closed connection.
ReceiveNothing_NoTimeout ==
  /\ receiving # 0 /\ answers = <<>> /\ ~connected
  /\ RecordResponse(receiving, NoAck)
  /\ errors' = errors + 1
  /\ Finish
  /\ UNCHANGED <<phase, slot, pending, deaf, wire>>

\* Five seconds have passed, or the connection is closed.  An ack may have
\* come and not be read: the API builds images on the event loop that runs its
\* bots, and timers expire meanwhile.
ReceiveNothing ==
  /\ receiving # 0
  /\ RecordResponse(receiving, NoAck)
  /\ errors' = errors + 1
  /\ Finish
  /\ UNCHANGED <<phase, slot, pending, deaf, wire>>

---------------------------------------------------------------------------
(* The contestant and the connection. *)

Prefixes(s) == {SubSeq(s, 1, n) : n \in 0..Len(s)}

Answer ==
  /\ upstream /\ requests # <<>>
  /\ answers' = Append(answers, Head(requests)) /\ requests' = Tail(requests)
  /\ UNCHANGED <<phase, slot, pending, receiving, deaf, unfinished, events, errors, connected,
                 upstream>>

\* The contestant dies, or more of what it has sent is lost.
LoseContestant ==
  /\ connected /\ MaxBreaks > 0
  /\ upstream' = FALSE /\ requests' = <<>>
  /\ answers' \in Prefixes(answers)
  /\ UNCHANGED <<phase, slot, pending, receiving, deaf, unfinished, events, errors, connected>>

\* The connection breaks, or the bot, at its end, closes it: what it has not got by
\* then is lost.
Break ==
  /\ connected /\ (MaxBreaks > 0 \/ phase \in {"done", "raised"})
  /\ connected' = FALSE /\ upstream' = FALSE /\ requests' = <<>>
  /\ answers' \in Prefixes(answers)
  /\ UNCHANGED <<phase, slot, pending, receiving, deaf, unfinished, events, errors>>

Bot == SendOrder \/ SendFails \/ Deadline \/ Joined
Receiver == TakePending \/ Receive \/ ReceiveUnexpected \/ ReceiveNothing

Next == Bot \/ Receiver \/ Answer \/ LoseContestant \/ Break

Spec == Init /\ [][Next]_vars

\* Time passes: the deadline and each timeout come.  The contestant need never
\* answer.
FairSpec == Spec /\ WF_vars(Bot) /\ WF_vars(Receiver)

---------------------------------------------------------------------------
(* Properties. *)

Orders == 1..MaxSlot

TypeOK ==
  /\ phase \in {"sending", "joining", "done", "raised"} /\ deaf \in BOOLEAN
  /\ slot \in 0..MaxSlot
  /\ pending \in Seq(Orders) /\ receiving \in 0..MaxSlot /\ unfinished \in 0..MaxSlot
  /\ events \in Seq([order : Orders, ack : Orders \cup {NoAck}])
  /\ errors \in 0..2 * MaxSlot
  /\ connected \in BOOLEAN /\ upstream \in BOOLEAN
  /\ requests \in Seq(Orders) /\ answers \in Seq(Orders)

\* When the run has ended every slot has left exactly one event, those sent,
\* those timed out and those a closed connection refused: what error_rate and
\* throughput are computed from.
OneEventPerOrder ==
  phase = "done" =>
    /\ Len(events) = slot
    /\ {events[i].order : i \in DOMAIN events} = 1..slot

\* An ack is used once, in the order it came, and never for an order sent
\* before the one it answers.
AcksInOrder ==
  LET acked == {i \in DOMAIN events : events[i].ack # NoAck} IN
  /\ \A i \in acked : events[i].ack <= events[i].order
  /\ \A i, j \in acked : i < j => events[i].ack < events[j].ack

\* The run ends even if the contestant never answers or the connection breaks,
\* unless a frame has ended the loop that answers pending.join().
RunReturns == <>(phase = "done" \/ deaf)

\* The ack that gives an order its latency is that order's.
AckOfOwnOrder == \A i \in DOMAIN events : events[i].ack \in {events[i].order, NoAck}
=============================================================================
