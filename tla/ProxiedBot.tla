----------------------------- MODULE ProxiedBot -----------------------------
(***************************************************************************)
(* The bot behind the edge proxy: LimitOrderBot together with one          *)
(* connection of proxy_ws in services/ws_proxy/main.py, and the contestant *)
(* at its other end.  The bot's connected, requests and answers are the    *)
(* client leg.  Two tasks forward frames, each holding one at a time, and  *)
(* the first to end takes the connection down.                             *)
(***************************************************************************)
EXTENDS LimitOrderBot

VARIABLES
  relay,           \* proxy_ws: "connecting" "relaying" "closing" "over"
  tasks,           \* client_to_upstream and upstream_to_client: those that run
  forwarding,      \* the frame client_to_upstream holds, or 0
  returning,       \* the frame upstream_to_client holds, or 0
  upstreamOpen,    \* the upstream leg
  toContestant, fromContestant,  \* frames on it
  alive            \* the contestant

legs == <<upstreamOpen, toContestant, fromContestant, alive>>
relayVars == <<relay, tasks, forwarding, returning>>
runVars == <<phase, slot, pending, receiving, deaf, unfinished, events, errors, upstream>>
proxyVars == <<relayVars, legs>>
allVars == <<vars, proxyVars>>

ProxiedInit ==
  /\ Init
  /\ relay = "connecting" /\ tasks = {} /\ forwarding = 0 /\ returning = 0
  /\ upstreamOpen = FALSE /\ toContestant = <<>> /\ fromContestant = <<>>
  /\ alive = TRUE

---------------------------------------------------------------------------
(* proxy_ws.  The client has been accepted already. *)

\* websockets.connect succeeds, and the two tasks are created.
ConnectUpstream ==
  /\ relay = "connecting" /\ alive
  /\ relay' = "relaying" /\ upstreamOpen' = TRUE /\ tasks' = {"up", "down"}
  /\ UNCHANGED <<vars, forwarding, returning, toContestant, fromContestant, alive>>

\* It raises: the client, which knows of nothing yet, is closed with 1011.
ConnectFails ==
  /\ relay = "connecting" /\ ~alive
  /\ relay' = "over" /\ connected' = FALSE /\ requests' = <<>>
  /\ UNCHANGED <<runVars, answers, tasks, forwarding, returning, legs>>

\* client_to_upstream: receive_text, which ends the task when the client is
\* gone and nothing is left to receive.
TakeFromClient ==
  /\ "up" \in tasks /\ forwarding = 0
  /\ IF requests # <<>>
     THEN /\ forwarding' = Head(requests) /\ requests' = Tail(requests)
          /\ UNCHANGED tasks
     ELSE /\ ~connected /\ tasks' = tasks \ {"up"}
          /\ UNCHANGED <<forwarding, requests>>
  /\ UNCHANGED <<runVars, connected, answers, relay, returning, legs>>

\* upstream.send, which raises out of the task when that leg is closed.
Forward ==
  /\ "up" \in tasks /\ forwarding # 0
  /\ forwarding' = 0
  /\ IF upstreamOpen
     THEN toContestant' = Append(toContestant, forwarding) /\ UNCHANGED tasks
     ELSE tasks' = tasks \ {"up"} /\ UNCHANGED toContestant
  /\ UNCHANGED <<vars, relay, returning, upstreamOpen, fromContestant, alive>>

\* upstream_to_client: the next message, or the end of the loop.
TakeFromContestant ==
  /\ "down" \in tasks /\ returning = 0
  /\ IF fromContestant # <<>>
     THEN /\ returning' = Head(fromContestant) /\ fromContestant' = Tail(fromContestant)
          /\ UNCHANGED tasks
     ELSE /\ ~upstreamOpen /\ tasks' = tasks \ {"down"}
          /\ UNCHANGED <<returning, fromContestant>>
  /\ UNCHANGED <<vars, relay, forwarding, upstreamOpen, toContestant, alive>>

\* Variant for mutation runs: a frame is put in front of those on their way.
Return_Overtakes ==
  /\ "down" \in tasks /\ returning # 0
  /\ returning' = 0
  /\ IF connected
     THEN answers' = <<returning>> \o answers /\ UNCHANGED tasks
     ELSE tasks' = tasks \ {"down"} /\ UNCHANGED answers
  /\ UNCHANGED <<runVars, connected, requests, relay, forwarding, legs>>

\* send_text to the client, which raises when it is gone.
Return ==
  /\ "down" \in tasks /\ returning # 0
  /\ returning' = 0
  /\ IF connected
     THEN answers' = Append(answers, returning) /\ UNCHANGED tasks
     ELSE tasks' = tasks \ {"down"} /\ UNCHANGED answers
  /\ UNCHANGED <<runVars, connected, requests, relay, forwarding, legs>>

\* Variant for mutation runs: asyncio.ALL_COMPLETED.
WaitReturns_All ==
  /\ relay = "relaying" /\ tasks = {}
  /\ relay' = "closing"
  /\ UNCHANGED <<vars, tasks, forwarding, returning, legs>>

\* FIRST_COMPLETED: the other task is cancelled, and what it holds is lost.
WaitReturns ==
  /\ relay = "relaying" /\ tasks # {"up", "down"}
  /\ relay' = "closing" /\ tasks' = {} /\ forwarding' = 0 /\ returning' = 0
  /\ UNCHANGED <<vars, legs>>

\* The upstream leg is closed on the way out of the block, and the client's when
\* the handler returns.
CloseLegs ==
  /\ relay = "closing"
  /\ relay' = "over"
  /\ upstreamOpen' = FALSE /\ toContestant' = <<>> /\ fromContestant' = <<>>
  /\ connected' = FALSE /\ requests' = <<>>
  /\ UNCHANGED <<runVars, answers, tasks, forwarding, returning, alive>>

Relay ==
  \/ ConnectUpstream \/ ConnectFails \/ TakeFromClient \/ Forward \/ TakeFromContestant
  \/ Return \/ WaitReturns \/ CloseLegs

---------------------------------------------------------------------------
(* The contestant, and the client leg. *)

Reply ==
  /\ upstreamOpen /\ toContestant # <<>>
  /\ fromContestant' = Append(fromContestant, Head(toContestant))
  /\ toContestant' = Tail(toContestant)
  /\ UNCHANGED <<vars, relayVars, upstreamOpen, alive>>

\* It dies, with what is on the way to it and some of what it has sent.
ContestantDies ==
  /\ alive /\ MaxBreaks > 0
  /\ alive' = FALSE /\ upstreamOpen' = FALSE /\ toContestant' = <<>>
  /\ fromContestant' \in Prefixes(fromContestant)
  /\ UNCHANGED <<vars, relayVars>>

\* The client leg breaks, or the bot, at its end, closes it.
ClientLeaves ==
  /\ connected /\ (MaxBreaks > 0 \/ phase \in {"done", "raised"})
  /\ connected' = FALSE
  /\ requests' \in Prefixes(requests) /\ answers' \in Prefixes(answers)
  /\ UNCHANGED <<runVars, proxyVars>>

ProxiedNext ==
  \/ (Bot \/ Receiver) /\ UNCHANGED proxyVars
  \/ Relay \/ Reply \/ ContestantDies \/ ClientLeaves

ProxiedSpec == ProxiedInit /\ [][ProxiedNext]_allVars

\* As for the bot alone, and the proxy's event loop runs its tasks.  The
\* contestant need never answer.
ProxiedFairSpec ==
  /\ ProxiedSpec
  /\ WF_allVars(Bot /\ UNCHANGED proxyVars) /\ WF_allVars(Receiver /\ UNCHANGED proxyVars)
  /\ WF_allVars(Relay)
  /\ WF_allVars(phase \in {"done", "raised"} /\ ClientLeaves)

---------------------------------------------------------------------------
(* Properties. *)

Frames == 0..MaxSlot

ProxiedTypeOK ==
  /\ TypeOK
  /\ relay \in {"connecting", "relaying", "closing", "over"}
  /\ tasks \subseteq {"up", "down"} /\ (tasks # {} => relay = "relaying")
  /\ forwarding \in Frames /\ returning \in Frames
  /\ upstreamOpen \in BOOLEAN /\ alive \in BOOLEAN
  /\ toContestant \in Seq(Orders) /\ fromContestant \in Seq(Orders)

Held(frame) == IF frame = 0 THEN <<>> ELSE <<frame>>

\* Can what the bot sends now still reach the contestant?
Through ==
  connected /\ ((relay = "connecting" /\ alive) \/ (relay = "relaying" /\ upstreamOpen))

\* What the bot sent and was answered is on its way wherever it is between the two.
WiredRequests == IF Through THEN toContestant \o Held(forwarding) \o requests ELSE <<>>
WiredAnswers == IF connected /\ "down" \in tasks
                THEN answers \o Held(returning) \o fromContestant ELSE answers

Direct == INSTANCE LimitOrderBot WITH
  upstream <- Through, requests <- WiredRequests, answers <- WiredAnswers

\* The proxy is a wire: whatever the order in which its tasks run, fail and are
\* cancelled, the bot meets nothing that it would not meet on a connection of
\* its own to the contestant.  No frame is lost while both legs are up, and none
\* is doubled or overtakes another.
ProxyIsAWire == Direct!Spec

\* The two legs fall together: when a bot leaves or a contestant dies the other
\* side is let go of, though it may never send another frame.
LegsFallTogether ==
  relay = "relaying" /\ ~(connected /\ upstreamOpen) ~> ~connected /\ ~upstreamOpen
=============================================================================
