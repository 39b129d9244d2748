-------------------------- MODULE ProxiedBotProofs --------------------------
(***************************************************************************)
(* Theorems about the bot behind the proxy, for any number of slots: the   *)
(* proxy is a wire, so that what is proved of the bot alone holds here,    *)
(* and a connection that is relayed comes to its end.                      *)
(***************************************************************************)
EXTENDS ProxiedBot, LimitOrderBotProofs

---------------------------------------------------------------------------
(* The inductive invariant of the wire. *)

\* Each end of the two legs, with what the tasks of the proxy hold.
WireTypes ==
  /\ phase \in {"sending", "joining", "done", "raised"}
  /\ slot \in 0..MaxSlot /\ upstream = TRUE
  /\ connected \in BOOLEAN /\ requests \in Seq(Orders) /\ answers \in Seq(Orders)
  /\ relay \in {"connecting", "relaying", "closing", "over"}
  /\ tasks \subseteq {"up", "down"}
  /\ forwarding \in Frames /\ returning \in Frames
  /\ upstreamOpen \in BOOLEAN /\ alive \in BOOLEAN
  /\ toContestant \in Seq(Orders) /\ fromContestant \in Seq(Orders)

\* The upstream leg is up while the contestant lives and the proxy relays.  A task
\* ends only when one of the legs is down.
RelayInv ==
  /\ ~alive => MaxBreaks > 0 /\ ~upstreamOpen
  /\ relay = "connecting" => ~upstreamOpen /\ toContestant = <<>> /\ fromContestant = <<>>
  /\ relay = "relaying" /\ ~upstreamOpen => ~alive
  /\ relay = "relaying" /\ tasks # {"up", "down"} => ~connected \/ ~alive
  /\ relay # "relaying" => tasks = {} /\ forwarding = 0 /\ returning = 0
  /\ relay = "closing" => ~connected \/ ~alive
  /\ relay = "over" => ~connected /\ ~upstreamOpen

WireInv == WireTypes /\ RelayInv

LEMMA WireInit == ProxiedInit => WireInv
PROOF
<1>1. \A S : <<>> \in Seq(S)
  OBVIOUS
<1>2. MaxSlot \in Nat /\ 0 \in 0..MaxSlot
  BY SlotAssumption
<1>3. QED
  BY <1>1, <1>2 DEF ProxiedInit, Init, WireInv, WireTypes, RelayInv, Frames

LEMMA OrderFacts ==
  /\ MaxSlot \in Nat /\ Frames = {0} \cup Orders /\ 0 \notin Orders
  /\ \A s \in Seq(Orders) : s # <<>> => Head(s) \in Orders /\ Tail(s) \in Seq(Orders)
  /\ \A s \in Seq(Orders), x \in Orders : Append(s, x) \in Seq(Orders)
  /\ <<>> \in Seq(Orders)
  /\ \A s \in Seq(Orders) : \A p \in Prefixes(s) : p \in Seq(Orders)
PROOF
<1>1. MaxSlot \in Nat /\ Frames = {0} \cup Orders /\ 0 \notin Orders
  BY SlotAssumption DEF Frames, Orders
<1>2. \A s \in Seq(Orders) : \A p \in Prefixes(s) : p \in Seq(Orders)
  BY PrefixFacts
<1>3. QED
  BY <1>1, <1>2

LEMMA WireStep == WireInv /\ [ProxiedNext]_allVars => WireInv'
PROOF
<1> SUFFICES ASSUME WireInv, [ProxiedNext]_allVars PROVE WireInv'
  OBVIOUS
<1> USE OrderFacts DEF runVars, relayVars, legs
<1>1. CASE (Bot \/ Receiver) /\ UNCHANGED proxyVars
  <2>1. UNCHANGED <<relay, tasks, forwarding, returning, upstreamOpen, toContestant,
                    fromContestant, alive>>
    BY <1>1 DEF proxyVars
  <2>2. CASE SendOrder
    <3>1. slot + 1 \in Orders /\ slot + 1 \in 0..MaxSlot
      BY <2>2 DEF SendOrder, WireInv, WireTypes, Orders
    <3>2. QED
      BY <2>1, <2>2, <3>1 DEF SendOrder, WireInv, WireTypes, RelayInv
  <2>3. CASE SendFails
    <3>1. slot + 1 \in 0..MaxSlot
      BY <2>3 DEF SendFails, WireInv, WireTypes
    <3>2. QED
      BY <2>1, <2>3, <3>1 DEF SendFails, wire, WireInv, WireTypes, RelayInv
  <2>4. ASSUME /\ phase' \in {"sending", "joining", "done", "raised"} /\ slot' = slot
               /\ UNCHANGED <<connected, upstream, requests>> /\ answers' \in Seq(Orders)
        PROVE  WireInv'
    BY <2>1, <2>4 DEF WireInv, WireTypes, RelayInv
  <2>5. CASE Deadline \/ Joined \/ TakePending \/ ReceiveNothing
    <3>1. /\ phase' \in {"sending", "joining", "done", "raised"} /\ slot' = slot
          /\ UNCHANGED <<connected, upstream, requests>> /\ answers' = answers
      BY <2>5 DEF Deadline, Joined, TakePending, ReceiveNothing, wire, WireInv, WireTypes
    <3>2. answers' \in Seq(Orders)
      BY <3>1 DEF WireInv, WireTypes
    <3>3. QED
      BY <2>4, <3>1, <3>2
  <2>6. CASE Receive \/ ReceiveUnexpected
    <3>1. /\ phase' \in {"sending", "joining", "done", "raised"} /\ slot' = slot
          /\ UNCHANGED <<connected, upstream, requests>>
          /\ answers # <<>> /\ answers' = Tail(answers)
      BY <2>6 DEF Receive, ReceiveUnexpected, WireInv, WireTypes
    <3>2. answers' \in Seq(Orders)
      BY <3>1 DEF WireInv, WireTypes
    <3>3. QED
      BY <2>4, <3>1, <3>2
  <2>7. QED
    BY <1>1, <2>2, <2>3, <2>4, <2>5, <2>6 DEF Bot, Receiver
<1> USE DEF WireInv, WireTypes, RelayInv, vars, wire
<1>2. CASE ConnectUpstream
  BY <1>2 DEF ConnectUpstream
<1>3. CASE ConnectFails
  BY <1>3 DEF ConnectFails
<1>4. CASE TakeFromClient
  <2>1. CASE requests # <<>>
    BY <1>4, <2>1 DEF TakeFromClient
  <2>2. CASE requests = <<>>
    BY <1>4, <2>2 DEF TakeFromClient
  <2>3. QED
    BY <2>1, <2>2
<1>5. CASE Forward
  <2>1. CASE upstreamOpen
    BY <1>5, <2>1 DEF Forward
  <2>2. CASE ~upstreamOpen
    BY <1>5, <2>2 DEF Forward
  <2>3. QED
    BY <2>1, <2>2
<1>6. CASE TakeFromContestant
  <2>1. CASE fromContestant # <<>>
    BY <1>6, <2>1 DEF TakeFromContestant
  <2>2. CASE fromContestant = <<>>
    BY <1>6, <2>2 DEF TakeFromContestant
  <2>3. QED
    BY <2>1, <2>2
<1>7. CASE Return
  <2>1. CASE connected
    BY <1>7, <2>1 DEF Return
  <2>2. CASE ~connected
    BY <1>7, <2>2 DEF Return
  <2>3. QED
    BY <2>1, <2>2
<1>8. CASE WaitReturns
  BY <1>8 DEF WaitReturns
<1>9. CASE CloseLegs
  BY <1>9 DEF CloseLegs
<1>10. CASE Reply
  BY <1>10 DEF Reply
<1>11. CASE ContestantDies
  <2>1. fromContestant' \in Seq(Orders) /\ (relay = "connecting" => fromContestant' = <<>>)
    <3>1. fromContestant' \in Prefixes(fromContestant)
      BY <1>11 DEF ContestantDies
    <3>2. fromContestant' \in Seq(Orders) /\ Len(fromContestant') \in 0..Len(fromContestant)
      BY <3>1, PrefixFacts
    <3>3. fromContestant = <<>> => fromContestant' = <<>>
      BY <3>2, EmptySeq
    <3>4. QED
      BY <3>2, <3>3
  <2>2. /\ alive /\ MaxBreaks > 0 /\ ~alive' /\ ~upstreamOpen' /\ toContestant' = <<>>
        /\ UNCHANGED <<phase, slot, upstream, connected, requests, answers, relay, tasks,
                       forwarding, returning>>
    BY <1>11 DEF ContestantDies
  <2>3. upstreamOpen' \in BOOLEAN /\ alive' \in BOOLEAN
    BY <1>11 DEF ContestantDies
  <2>4. QED
    BY <2>1, <2>2, <2>3
<1>12. CASE ClientLeaves
  BY <1>12 DEF ClientLeaves, proxyVars
<1>13. CASE UNCHANGED allVars
  BY <1>13 DEF allVars, proxyVars
<1>14. QED
  BY <1>1, <1>2, <1>3, <1>4, <1>5, <1>6, <1>7, <1>8, <1>9, <1>10, <1>11, <1>12, <1>13
  DEF ProxiedNext, Relay
---------------------------------------------------------------------------
(* What the tasks do to the frames of one direction, in the order of their way:  *)
(* those of one leg, the one held, those of the other.                      *)

LEMMA HeldFacts ==
  ASSUME NEW frame \in Frames
  PROVE  /\ Held(frame) \in Seq(Orders) /\ Held(0) = <<>>
         /\ frame # 0 => frame \in Orders /\ Held(frame) = <<frame>>
<1>1. <<>> \in Seq(Orders) /\ \A x \in Orders : <<x>> \in Seq(Orders)
  OBVIOUS
<1>2. QED
  BY <1>1, OrderFacts DEF Held

LEMMA AppendAsConcat ==
  ASSUME NEW S, NEW s \in Seq(S), NEW x \in S
  PROVE  s \o <<x>> = Append(s, x)
<1>1. <<>> \in Seq(S) /\ Append(<<>>, x) = <<x>>
  OBVIOUS
<1>2. s \o <<x>> = Append(s \o <<>>, x)
  BY <1>1, PushOntoSecond
<1>3. QED
  BY <1>2, ConcatEmptySeq

\* A task takes the next frame: all are where they were, in their order.
LEMMA FrameTaken ==
  ASSUME NEW s \in Seq(Orders), NEW t \in Seq(Orders), t # <<>>
  PROVE  s \o Held(Head(t)) \o Tail(t) = s \o Held(0) \o t
<1>1. Head(t) \in Orders /\ Tail(t) \in Seq(Orders) /\ Held(0) = <<>> /\ Held(Head(t)) = <<Head(t)>>
  BY OrderFacts, HeldFacts
<1>2. s \o Held(Head(t)) = Append(s, Head(t)) /\ s \o Held(0) = s
  BY <1>1, AppendAsConcat, ConcatEmptySeq
<1>3. QED
  BY <1>2, MoveHead

\* It passes it on.
LEMMA FramePassed ==
  ASSUME NEW s \in Seq(Orders), NEW t \in Seq(Orders), NEW frame \in Frames, frame # 0
  PROVE  Append(s, frame) \o Held(0) \o t = s \o Held(frame) \o t
<1>1. frame \in Orders /\ Held(frame) = <<frame>> /\ Held(0) = <<>>
  BY HeldFacts
<1>2. Append(s, frame) \in Seq(Orders) /\ Append(s, frame) \o Held(0) = Append(s, frame)
  BY <1>1, ConcatEmptySeq
<1>3. QED
  BY <1>1, <1>2, AppendAsConcat

LEMMA WholePrefix ==
  ASSUME NEW S, NEW s \in Seq(S)
  PROVE  s \in Prefixes(s)
<1>1. Len(s) \in 0..Len(s) /\ SubSeq(s, 1, Len(s)) = s
  OBVIOUS
<1>2. QED
  BY <1>1 DEF Prefixes

LEMMA PrefixOfSecond ==
  ASSUME NEW S, NEW s \in Seq(S), NEW t \in Seq(S), NEW p \in Prefixes(t)
  PROVE  s \o p \in Prefixes(s \o t)
<1>1. /\ p \in Seq(S) /\ Len(p) \in 0..Len(t) /\ Len(s) \in Nat /\ Len(t) \in Nat
      /\ \A i \in 1..Len(p) : p[i] = t[i]
  BY PrefixFacts
<1> DEFINE n == Len(s) + Len(p)
<1>2. /\ s \o t \in Seq(S) /\ s \o p \in Seq(S) /\ n \in 0..Len(s \o t) /\ Len(s \o p) = n
  BY <1>1
<1>3. \A i \in 1..n : (s \o p)[i] = (s \o t)[i]
  BY <1>1
<1> HIDE DEF n
<1>4. /\ SubSeq(s \o t, 1, n) \in Seq(S) /\ Len(SubSeq(s \o t, 1, n)) = n
      /\ \A i \in 1..n : SubSeq(s \o t, 1, n)[i] = (s \o t)[i]
  BY <1>2
<1>5. s \o p = SubSeq(s \o t, 1, n)
  BY <1>2, <1>3, <1>4, SeqEqual
<1>6. QED
  BY <1>2, <1>5 DEF Prefixes

LEMMA WiredTypes ==
  ASSUME WireInv
  PROVE  /\ toContestant \o Held(forwarding) \in Seq(Orders)
         /\ answers \o Held(returning) \in Seq(Orders)
         /\ WiredRequests \in Seq(Orders) /\ WiredAnswers \in Seq(Orders)
         /\ answers \in Prefixes(WiredAnswers) /\ Prefixes(answers) \subseteq Prefixes(WiredAnswers)
<1>1. /\ toContestant \in Seq(Orders) /\ Held(forwarding) \in Seq(Orders) /\ requests \in Seq(Orders)
      /\ answers \in Seq(Orders) /\ Held(returning) \in Seq(Orders) /\ fromContestant \in Seq(Orders)
  BY HeldFacts DEF WireInv, WireTypes
<1>2. toContestant \o Held(forwarding) \in Seq(Orders) /\ answers \o Held(returning) \in Seq(Orders)
  BY <1>1
<1>3. /\ toContestant \o Held(forwarding) \o requests \in Seq(Orders) /\ <<>> \in Seq(Orders)
      /\ answers \o Held(returning) \o fromContestant \in Seq(Orders)
  BY <1>1, <1>2
<1>4. \A p \in Prefixes(answers) : p \in Prefixes(answers \o Held(returning) \o fromContestant)
  BY <1>1, <1>2, PrefixOfConcat
<1>5. answers \in Prefixes(answers)
  BY <1>1, WholePrefix
<1>6. QED
  BY <1>1, <1>2, <1>3, <1>4, <1>5 DEF WiredRequests, WiredAnswers
---------------------------------------------------------------------------
(* Every step of the bot, the proxy and the contestant is a step of the bot on a *)
(* connection of its own, or none.                                          *)

botVars == <<phase, slot, pending, receiving, deaf, unfinished, events, errors>>

LEMMA NoStep ==
  ASSUME UNCHANGED <<botVars, connected>>, Through' = Through,
         WiredRequests' = WiredRequests, WiredAnswers' = WiredAnswers
  PROVE  UNCHANGED Direct!vars
BY DEF botVars, Direct!vars, Direct!wire

LEMMA LosingStep ==
  ASSUME UNCHANGED <<botVars, connected>>, connected, MaxBreaks > 0, Through' = FALSE,
         WiredAnswers' \in Prefixes(WiredAnswers)
  PROVE  Direct!LoseContestant
<1>1. WiredRequests' = <<>>
  BY DEF WiredRequests
<1>2. QED
  BY <1>1 DEF botVars, Direct!LoseContestant, Direct!Prefixes, Prefixes

LEMMA BreakingStep ==
  ASSUME UNCHANGED botVars, connected, MaxBreaks > 0 \/ phase \in {"done", "raised"},
         connected' = FALSE, WiredAnswers' \in Prefixes(WiredAnswers)
  PROVE  Direct!Break
<1>1. Through' = FALSE /\ WiredRequests' = <<>>
  BY DEF Through, WiredRequests
<1>2. QED
  BY <1>1 DEF botVars, Direct!Break, Direct!Prefixes, Prefixes

\* What the bot and its receiver do is what they do on the wire.
LEMMA BotSteps ==
  ASSUME WireInv, Bot \/ Receiver, UNCHANGED proxyVars
  PROVE  Direct!Next
<1>1. UNCHANGED <<relay, tasks, forwarding, returning, upstreamOpen, toContestant, fromContestant,
                  alive>>
  BY DEF proxyVars, relayVars, legs
<1>2. /\ requests \in Seq(Orders) /\ answers \in Seq(Orders) /\ fromContestant \in Seq(Orders)
      /\ Held(returning) \in Seq(Orders) /\ toContestant \o Held(forwarding) \in Seq(Orders)
      /\ answers \o Held(returning) \in Seq(Orders) /\ upstream = TRUE
  BY HeldFacts, WiredTypes DEF WireInv, WireTypes
<1>3. CASE SendOrder
  <2>1. /\ connected' = connected /\ answers' = answers /\ slot + 1 \in Orders /\ slot' = slot + 1
        /\ requests' = Append(requests, slot')
    BY <1>2, <1>3, SlotAssumption DEF SendOrder, WireInv, WireTypes, Orders
  <2>2. Through' = Through /\ WiredAnswers' = WiredAnswers
    BY <1>1, <2>1 DEF Through, WiredAnswers
  <2>3. WiredRequests' = IF Through THEN Append(WiredRequests, slot') ELSE WiredRequests
    <3>1. slot' \in Orders /\ UNCHANGED <<toContestant, forwarding>>
      BY <1>1, <2>1
    <3>2. toContestant \o Held(forwarding) \o Append(requests, slot')
            = Append(toContestant \o Held(forwarding) \o requests, slot')
      BY <1>2, <3>1, PushOntoSecond, SMTT(30)
    <3>3. QED
      BY <2>1, <2>2, <3>1, <3>2 DEF WiredRequests
  <2>4. Direct!SendOrder
    BY <1>3, <2>2, <2>3 DEF SendOrder, Direct!SendOrder
  <2>5. QED
    BY <2>4 DEF Direct!Next, Direct!Bot
<1>4. CASE SendFails \/ Deadline \/ Joined \/ TakePending \/ ReceiveNothing
  <2>1. UNCHANGED <<connected, requests, answers>>
    BY <1>4 DEF SendFails, Deadline, Joined, TakePending, ReceiveNothing, wire
  <2>2. UNCHANGED <<connected, Through, WiredRequests, WiredAnswers>>
    BY <1>1, <2>1 DEF Through, WiredRequests, WiredAnswers
  <2>3. UNCHANGED Direct!wire
    BY <2>2 DEF Direct!wire
  <2>4. /\ SendFails => Direct!SendFails
        /\ Deadline => Direct!Deadline
        /\ Joined => Direct!Joined
        /\ TakePending => Direct!TakePending
        /\ ReceiveNothing => Direct!ReceiveNothing
    BY <2>3 DEF SendFails, Deadline, Joined, TakePending, ReceiveNothing, RecordResponse, Finish,
                Direct!SendFails, Direct!Deadline, Direct!Joined, Direct!TakePending,
                Direct!ReceiveNothing, Direct!RecordResponse, Direct!Finish
  <2>5. QED
    BY <1>4, <2>4 DEF Direct!Next, Direct!Bot, Direct!Receiver
<1>5. CASE Receive \/ ReceiveUnexpected
  <2>1. answers # <<>> /\ answers' = Tail(answers) /\ UNCHANGED <<connected, requests>>
    BY <1>5 DEF Receive, ReceiveUnexpected
  <2>2. UNCHANGED <<Through, WiredRequests>>
    BY <1>1, <2>1 DEF Through, WiredRequests
  <2>3. WiredAnswers # <<>> /\ Head(WiredAnswers) = Head(answers) /\ WiredAnswers' = Tail(WiredAnswers)
    <3>1. /\ answers \o Held(returning) # <<>>
          /\ Head(answers \o Held(returning)) = Head(answers)
          /\ Tail(answers \o Held(returning)) = Tail(answers) \o Held(returning)
      BY <1>2, <2>1, PopFromFirst
    <3>2. /\ answers \o Held(returning) \o fromContestant # <<>>
          /\ Head(answers \o Held(returning) \o fromContestant) = Head(answers \o Held(returning))
          /\ Tail(answers \o Held(returning) \o fromContestant)
               = Tail(answers \o Held(returning)) \o fromContestant
      BY <1>2, <3>1, PopFromFirst, ZenonT(40)
    <3>3. QED
      BY <1>1, <2>1, <3>1, <3>2 DEF WiredAnswers
  <2>4. CASE Receive
    <3>1. Direct!Receive
      BY <2>1, <2>2, <2>3, <2>4
      DEF Receive, RecordResponse, Finish, Direct!Receive, Direct!RecordResponse, Direct!Finish
    <3>2. QED
      BY <3>1 DEF Direct!Next, Direct!Receiver
  <2>5. CASE ReceiveUnexpected
    <3>1. Direct!ReceiveUnexpected
      BY <2>1, <2>2, <2>3, <2>5
      DEF ReceiveUnexpected, Finish, Direct!ReceiveUnexpected, Direct!Finish
    <3>2. QED
      BY <3>1 DEF Direct!Next, Direct!Receiver
  <2>6. QED
    BY <1>5, <2>4, <2>5
<1>6. QED
  BY <1>3, <1>4, <1>5 DEF Bot, Receiver

\* A task of the proxy moves a frame or ends, and the wire does not show it.
LEMMA TaskSteps ==
  ASSUME WireInv, WireInv',
         ConnectUpstream \/ TakeFromClient \/ Forward \/ TakeFromContestant \/ Return
  PROVE  UNCHANGED Direct!vars
<1>1. /\ requests \in Seq(Orders) /\ answers \in Seq(Orders) /\ fromContestant \in Seq(Orders)
      /\ toContestant \in Seq(Orders) /\ forwarding \in Frames /\ returning \in Frames
      /\ Held(returning) \in Seq(Orders) /\ Held(0) = <<>>
      /\ \A s \in Seq(Orders) : s \o <<>> = s
  BY HeldFacts, OrderFacts, ConcatEmptySeq DEF WireInv, WireTypes
<1>2. UNCHANGED <<botVars, connected>>
  BY DEF ConnectUpstream, TakeFromClient, Forward, TakeFromContestant, Return, vars, runVars, botVars,
         wire
<1>3. Through' = Through
  BY DEF ConnectUpstream, TakeFromClient, Forward, TakeFromContestant, Return, vars, wire, legs, Through
<1>4. CASE ConnectUpstream
  <2>1. /\ tasks = {} /\ forwarding = 0 /\ returning = 0 /\ fromContestant = <<>>
        /\ UNCHANGED <<requests, answers, forwarding, returning, toContestant, fromContestant>>
    BY <1>4 DEF ConnectUpstream, WireInv, RelayInv, vars, wire
  <2>2. WiredRequests' = WiredRequests /\ WiredAnswers' = WiredAnswers
    BY <1>1, <1>3, <2>1 DEF WiredRequests, WiredAnswers
  <2>3. QED
    BY <1>2, <1>3, <2>2, NoStep
<1>5. CASE TakeFromClient
  <2>1. WiredAnswers' = WiredAnswers
    BY <1>5 DEF TakeFromClient, legs, WiredAnswers
  <2>2. WiredRequests' = WiredRequests
    <3>1. UNCHANGED <<toContestant, connected>> /\ forwarding = 0
      BY <1>5 DEF TakeFromClient, legs
    <3>2. CASE requests # <<>>
      <4>1. forwarding' = Head(requests) /\ requests' = Tail(requests)
        BY <1>5, <3>2 DEF TakeFromClient
      <4>2. toContestant \o Held(forwarding') \o requests' = toContestant \o Held(forwarding) \o requests
        BY <1>1, <3>1, <3>2, <4>1, FrameTaken
      <4>3. QED
        BY <1>3, <3>1, <4>2 DEF WiredRequests
    <3>3. CASE requests = <<>>
      BY <1>3, <1>5, <3>3 DEF TakeFromClient, WiredRequests, Through
    <3>4. QED
      BY <3>2, <3>3
  <2>3. QED
    BY <1>2, <1>3, <2>1, <2>2, NoStep
<1>6. CASE Forward
  <2>1. WiredAnswers' = WiredAnswers
    BY <1>6 DEF Forward, vars, wire, WiredAnswers
  <2>2. WiredRequests' = WiredRequests
    <3>1. UNCHANGED <<requests, connected>> /\ forwarding # 0 /\ forwarding' = 0
      BY <1>6 DEF Forward, vars, wire
    <3>2. CASE upstreamOpen
      <4>1. toContestant' = Append(toContestant, forwarding)
        BY <1>6, <3>2 DEF Forward
      <4>2. toContestant' \o Held(forwarding') \o requests' = toContestant \o Held(forwarding) \o requests
        BY <1>1, <3>1, <4>1, FramePassed
      <4>3. QED
        BY <1>3, <4>2 DEF WiredRequests
    <3>3. CASE ~upstreamOpen
      <4>1. ~Through
        BY <1>6, <3>3 DEF Forward, WireInv, RelayInv, Through
      <4>2. QED
        BY <1>3, <4>1 DEF WiredRequests
    <3>4. QED
      BY <3>2, <3>3
  <2>3. QED
    BY <1>2, <1>3, <2>1, <2>2, NoStep
<1>7. CASE TakeFromContestant
  <2>1. WiredRequests' = WiredRequests
    BY <1>3, <1>7 DEF TakeFromContestant, vars, wire, WiredRequests
  <2>2. WiredAnswers' = WiredAnswers
    <3>1. UNCHANGED <<answers, connected>> /\ returning = 0 /\ "down" \in tasks
      BY <1>7 DEF TakeFromContestant, vars, wire
    <3>2. CASE fromContestant # <<>>
      <4>1. returning' = Head(fromContestant) /\ fromContestant' = Tail(fromContestant) /\ tasks' = tasks
        BY <1>7, <3>2 DEF TakeFromContestant
      <4>2. answers \o Held(returning') \o fromContestant' = answers \o Held(returning) \o fromContestant
        BY <1>1, <3>1, <3>2, <4>1, FrameTaken
      <4>3. QED
        BY <3>1, <4>1, <4>2 DEF WiredAnswers
    <3>3. CASE fromContestant = <<>>
      <4>1. tasks' = tasks \ {"down"}
        BY <1>7, <3>3 DEF TakeFromContestant
      <4>2. QED
        BY <1>1, <3>1, <3>3, <4>1 DEF WiredAnswers
    <3>4. QED
      BY <3>2, <3>3
  <2>3. QED
    BY <1>2, <1>3, <2>1, <2>2, NoStep
<1>8. CASE Return
  <2>1. WiredRequests' = WiredRequests
    BY <1>3, <1>8 DEF Return, legs, WiredRequests
  <2>2. WiredAnswers' = WiredAnswers
    <3>1. UNCHANGED <<connected, fromContestant>> /\ returning # 0 /\ returning' = 0 /\ "down" \in tasks
      BY <1>8 DEF Return, legs
    <3>2. CASE connected
      <4>1. answers' = Append(answers, returning) /\ tasks' = tasks
        BY <1>8, <3>2 DEF Return
      <4>2. answers' \o Held(returning') \o fromContestant' = answers \o Held(returning) \o fromContestant
        BY <1>1, <3>1, <4>1, FramePassed
      <4>3. connected' = connected /\ ("down" \in tasks' <=> "down" \in tasks)
        BY <3>1, <4>1
      <4>4. QED
        BY <3>1, <3>2, <4>2, <4>3 DEF WiredAnswers
    <3>3. CASE ~connected
      BY <1>8, <3>1, <3>3 DEF Return, WiredAnswers
    <3>4. QED
      BY <3>2, <3>3
  <2>3. QED
    BY <1>2, <1>3, <2>1, <2>2, NoStep
<1>9. QED
  BY <1>4, <1>5, <1>6, <1>7, <1>8
\* A leg falls: the bot loses its contestant, or its connection.
LEMMA LegSteps ==
  ASSUME WireInv, WireInv',
         ConnectFails \/ WaitReturns \/ CloseLegs \/ ContestantDies \/ ClientLeaves
  PROVE  [Direct!Next]_Direct!vars
<1>1. UNCHANGED botVars
  BY DEF ConnectFails, WaitReturns, CloseLegs, ContestantDies, ClientLeaves, vars, runVars, botVars
<1>2. /\ answers \in Prefixes(WiredAnswers) /\ Prefixes(answers) \subseteq Prefixes(WiredAnswers)
      /\ answers \o Held(returning) \in Seq(Orders) /\ fromContestant \in Seq(Orders)
      /\ connected \in BOOLEAN
  BY WiredTypes DEF WireInv, WireTypes
<1>3. ASSUME connected, MaxBreaks > 0, connected' = connected, Through' = FALSE,
             WiredAnswers' \in Prefixes(WiredAnswers)
      PROVE  Direct!Next
  BY <1>1, <1>3, LosingStep DEF Direct!Next
<1>4. ASSUME connected, MaxBreaks > 0 \/ phase \in {"done", "raised"}, connected' = FALSE,
             WiredAnswers' \in Prefixes(WiredAnswers)
      PROVE  Direct!Next
  BY <1>1, <1>4, BreakingStep DEF Direct!Next
<1>5. ASSUME ~connected, ~connected', answers' = answers
      PROVE  UNCHANGED Direct!vars
  <2>1. Through' = Through /\ WiredRequests' = WiredRequests /\ WiredAnswers' = WiredAnswers
    BY <1>5 DEF Through, WiredRequests, WiredAnswers
  <2>2. connected' \in BOOLEAN /\ connected' = connected
    BY <1>2, <1>5 DEF WireInv, WireTypes
  <2>3. QED
    BY <1>1, <2>1, <2>2, NoStep
<1>6. CASE ConnectFails
  <2>1. ~alive /\ MaxBreaks > 0 /\ tasks = {} /\ connected' = FALSE /\ answers' = answers /\ tasks' = tasks
    BY <1>6 DEF ConnectFails, WireInv, RelayInv
  <2>2. WiredAnswers' = answers
    BY <2>1 DEF WiredAnswers
  <2>3. QED
    BY <1>2, <1>4, <1>5, <2>1, <2>2
<1>7. CASE WaitReturns
  <2>1. /\ relay' = "closing" /\ tasks' = {} /\ UNCHANGED <<connected, answers>>
        /\ ~connected \/ ~alive
    BY <1>7 DEF WaitReturns, vars, wire, WireInv, RelayInv
  <2>2. WiredAnswers' = answers /\ Through' = FALSE
    BY <2>1 DEF WiredAnswers, Through
  <2>3. ~alive => MaxBreaks > 0
    BY DEF WireInv, RelayInv
  <2>4. QED
    BY <1>2, <1>3, <1>5, <2>1, <2>2, <2>3
<1>8. CASE CloseLegs
  <2>1. /\ ~connected \/ ~alive
        /\ connected' = FALSE /\ answers' = answers /\ (~alive => MaxBreaks > 0)
    BY <1>8 DEF CloseLegs, WireInv, RelayInv
  <2>2. WiredAnswers' = answers
    BY <2>1 DEF WiredAnswers
  <2>3. QED
    BY <1>2, <1>4, <1>5, <2>1, <2>2
<1>9. CASE ContestantDies
  <2>1. /\ MaxBreaks > 0 /\ ~alive' /\ ~upstreamOpen'
        /\ UNCHANGED <<connected, answers, relay, tasks, returning>>
        /\ fromContestant' \in Prefixes(fromContestant)
    BY <1>9 DEF ContestantDies, vars, wire, relayVars
  <2>2. Through' = FALSE
    BY <2>1 DEF Through
  <2>3. answers \o Held(returning) \o fromContestant'
          \in Prefixes(answers \o Held(returning) \o fromContestant)
    BY <1>2, <2>1, PrefixOfSecond
  <2>4. connected => WiredAnswers' \in Prefixes(WiredAnswers)
    <3>1. CASE connected /\ "down" \in tasks
      BY <2>1, <2>3, <3>1 DEF WiredAnswers
    <3>2. CASE ~("down" \in tasks)
      <4>1. WiredAnswers' = answers
        BY <2>1, <3>2 DEF WiredAnswers
      <4>2. QED
        BY <1>2, <4>1
    <3>3. QED
      BY <3>1, <3>2
  <2>5. CASE connected
    BY <1>3, <2>1, <2>2, <2>4, <2>5
  <2>6. CASE ~connected
    BY <1>5, <2>1, <2>6
  <2>7. QED
    BY <2>5, <2>6
<1>10. CASE ClientLeaves
  <2>1. /\ connected /\ (MaxBreaks > 0 \/ phase \in {"done", "raised"}) /\ connected' = FALSE
        /\ answers' \in Prefixes(answers)
    BY <1>10 DEF ClientLeaves
  <2>2. WiredAnswers' = answers'
    BY <2>1 DEF WiredAnswers
  <2>3. QED
    BY <1>2, <1>4, <2>1, <2>2
<1>11. QED
  BY <1>6, <1>7, <1>8, <1>9, <1>10

\* An answer of the contestant is one, unless the proxy is on its way out.
LEMMA ReplyStep ==
  ASSUME WireInv, Reply
  PROVE  [Direct!Next]_Direct!vars
<1>1. /\ upstreamOpen /\ toContestant # <<>>
      /\ fromContestant' = Append(fromContestant, Head(toContestant))
      /\ toContestant' = Tail(toContestant)
      /\ UNCHANGED <<phase, slot, pending, receiving, deaf, unfinished, events, errors, connected,
                     requests, answers, relay, tasks, forwarding, returning, upstreamOpen, alive>>
  BY DEF Reply, vars, wire, relayVars
<1>2. UNCHANGED <<botVars, connected, Through>>
  BY <1>1 DEF botVars, Through
<1>3. CASE Through
  <2>1. connected /\ relay = "relaying" /\ "down" \in tasks
    BY <1>1, <1>3 DEF Through, WireInv, WireTypes, RelayInv
  <2>2. /\ toContestant \in Seq(Orders) /\ Held(forwarding) \in Seq(Orders) /\ requests \in Seq(Orders)
        /\ answers \o Held(returning) \in Seq(Orders) /\ fromContestant \in Seq(Orders)
        /\ toContestant \o Held(forwarding) \in Seq(Orders) /\ Head(toContestant) \in Orders
    BY <1>1, HeldFacts, OrderFacts, WiredTypes DEF WireInv, WireTypes
  <2>3. /\ toContestant \o Held(forwarding) # <<>>
        /\ Head(toContestant \o Held(forwarding)) = Head(toContestant)
        /\ Tail(toContestant \o Held(forwarding)) = Tail(toContestant) \o Held(forwarding)
    BY <1>1, <2>2, PopFromFirst
  <2>4. /\ toContestant \o Held(forwarding) \o requests # <<>>
        /\ Head(toContestant \o Held(forwarding) \o requests) = Head(toContestant \o Held(forwarding))
        /\ Tail(toContestant \o Held(forwarding) \o requests)
             = Tail(toContestant \o Held(forwarding)) \o requests
    BY <2>2, <2>3, PopFromFirst, ZenonT(40)
  <2>5. /\ WiredRequests # <<>> /\ Head(WiredRequests) = Head(toContestant)
        /\ WiredRequests' = Tail(WiredRequests)
    BY <1>1, <1>2, <1>3, <2>3, <2>4 DEF WiredRequests
  <2>6. answers \o Held(returning) \o Append(fromContestant, Head(toContestant))
          = Append(answers \o Held(returning) \o fromContestant, Head(toContestant))
    BY <2>2, PushOntoSecond, SMTT(30)
  <2>7. WiredAnswers' = Append(WiredAnswers, Head(WiredRequests))
    BY <1>1, <2>1, <2>5, <2>6 DEF WiredAnswers
  <2>8. Direct!Answer
    BY <1>1, <1>2, <1>3, <2>5, <2>7 DEF Direct!Answer
  <2>9. QED
    BY <2>8 DEF Direct!Next
<1>4. CASE ~Through
  <2>1. WiredRequests' = WiredRequests
    BY <1>2, <1>4 DEF WiredRequests
  <2>2. ~(connected /\ "down" \in tasks)
    BY <1>1, <1>4 DEF Through, WireInv, RelayInv
  <2>3. WiredAnswers' = WiredAnswers
    BY <1>1, <2>2 DEF WiredAnswers
  <2>4. QED
    BY <1>2, <2>1, <2>3, NoStep
<1>5. QED
  BY <1>3, <1>4

LEMMA WireRefines == WireInv /\ WireInv' /\ [ProxiedNext]_allVars => [Direct!Next]_Direct!vars
PROOF
<1> SUFFICES ASSUME WireInv, WireInv', [ProxiedNext]_allVars PROVE [Direct!Next]_Direct!vars
  OBVIOUS
<1>1. CASE (Bot \/ Receiver) /\ UNCHANGED proxyVars
  BY <1>1, BotSteps
<1>2. CASE ConnectUpstream \/ TakeFromClient \/ Forward \/ TakeFromContestant \/ Return
  BY <1>2, TaskSteps
<1>3. CASE ConnectFails \/ WaitReturns \/ CloseLegs \/ ContestantDies \/ ClientLeaves
  BY <1>3, LegSteps
<1>4. CASE Reply
  BY <1>4, ReplyStep
<1>5. CASE UNCHANGED allVars
  <2>1. UNCHANGED <<botVars, connected, Through, WiredRequests, WiredAnswers>>
    BY <1>5 DEF allVars, vars, wire, proxyVars, relayVars, legs, botVars, Through, WiredRequests,
                WiredAnswers
  <2>2. QED
    BY <2>1, NoStep
<1>6. QED
  BY <1>1, <1>2, <1>3, <1>4, <1>5 DEF ProxiedNext, Relay

LEMMA WireInitRefines == ProxiedInit => Direct!Init
PROOF
<1> SUFFICES ASSUME ProxiedInit PROVE Direct!Init
  OBVIOUS
<1>1. Through = TRUE /\ WiredAnswers = <<>>
  BY DEF ProxiedInit, Init, Through, WiredAnswers
<1>2. WiredRequests = <<>>
  <2>1. Held(forwarding) = <<>> /\ toContestant = <<>> /\ requests = <<>>
    BY HeldFacts, OrderFacts DEF ProxiedInit, Init
  <2>2. <<>> \in Seq(Orders) /\ <<>> \o <<>> = <<>>
    BY ConcatEmptySeq, OrderFacts
  <2>3. QED
    BY <1>1, <2>1, <2>2 DEF WiredRequests
<1>3. QED
  BY <1>1, <1>2 DEF ProxiedInit, Init, Direct!Init

---------------------------------------------------------------------------
(* The theorems. *)

LEMMA WireAlways == ProxiedSpec => []WireInv
PROOF
BY WireInit, WireStep, PTL DEF ProxiedSpec

\* The proxy is a wire: the bot behind it meets nothing that it would not meet on a
\* connection of its own, whatever the order in which the proxy's tasks take
\* frames, raise, end and are cancelled.
THEOREM ProxyCarriesAll == ProxiedSpec => ProxyIsAWire
PROOF
<1>1. ProxiedSpec => Direct!Spec
  BY WireInitRefines, WireRefines, WireAlways, PTL DEF ProxiedSpec, Direct!Spec
<1>2. QED
  BY <1>1 DEF ProxyIsAWire

---------------------------------------------------------------------------
(* What is proved of the bot holds of the bot behind the proxy. *)

Wired == INSTANCE LimitOrderBotProofs WITH
  upstream <- Through, requests <- WiredRequests, answers <- WiredAnswers

LEMMA ProxiedIsWired == ProxiedSpec => Wired!Spec
PROOF
<1>1. Direct!Init => Wired!Init
  BY DEF Direct!Init, Wired!Init
<1>2. [Direct!Next]_Direct!vars => [Wired!Next]_Wired!vars
  BY DEF Direct!Next, Wired!Next, Direct!vars, Wired!vars, Direct!wire, Wired!wire,
    Direct!Bot, Wired!Bot, Direct!Receiver, Wired!Receiver,
    Direct!SendOrder, Wired!SendOrder, Direct!SendFails, Wired!SendFails,
    Direct!Deadline, Wired!Deadline, Direct!Joined, Wired!Joined,
    Direct!TakePending, Wired!TakePending, Direct!Receive, Wired!Receive,
    Direct!ReceiveUnexpected, Wired!ReceiveUnexpected,
    Direct!ReceiveNothing, Wired!ReceiveNothing, Direct!Answer, Wired!Answer,
    Direct!LoseContestant, Wired!LoseContestant, Direct!Break, Wired!Break,
    Direct!Prefixes, Wired!Prefixes, Direct!Finish, Wired!Finish,
    Direct!RecordResponse, Wired!RecordResponse
<1>3. ProxiedSpec => Direct!Spec
  BY ProxyCarriesAll DEF ProxyIsAWire
<1>4. QED
  BY <1>1, <1>2, <1>3, PTL DEF Direct!Spec, Wired!Spec

\* Behind the proxy too, a run that ends has recorded each order once.
THEOREM ProxiedOrdersRecorded == ProxiedSpec => []OneEventPerOrder
PROOF
<1>1. Wired!Spec => []Wired!OneEventPerOrder
  BY Wired!EveryOrderRecorded, SlotAssumption, PTL DEF SlotAssumption
<1>2. Wired!OneEventPerOrder => OneEventPerOrder
  BY DEF Wired!OneEventPerOrder, OneEventPerOrder
<1>3. QED
  BY <1>1, <1>2, ProxiedIsWired, PTL

\* And no ack is used twice, out of order, or for an order sent before its own.
THEOREM ProxiedAcksKeepOrder == ProxiedSpec => []AcksInOrder
PROOF
<1>1. Wired!Spec => []Wired!AcksInOrder
  BY Wired!AcksKeepOrder, SlotAssumption, PTL DEF SlotAssumption
<1>2. Wired!AcksInOrder => AcksInOrder
  BY DEF Wired!AcksInOrder, AcksInOrder
<1>3. QED
  BY <1>1, <1>2, ProxiedIsWired, PTL

\* Behind the proxy, too, the steps of bot and receiver run down, whatever the proxy and
\* the contestant do in between, and the join is answered as long as the receiver lives.
THEOREM ProxiedRunsComeToAnEnd == ProxiedSpec => Wired!RunRunsDown /\ []Wired!JoinIsAnswered
PROOF
<1>1. Wired!Spec => Wired!RunRunsDown
  BY Wired!RunsComeToAnEnd, SlotAssumption, PTL DEF SlotAssumption
<1>2. Wired!Spec => []Wired!JoinIsAnswered
  BY Wired!JoinHasAnAnswer, SlotAssumption, PTL DEF SlotAssumption
<1>3. QED
  BY <1>1, <1>2, ProxiedIsWired, PTL

\* The types hold of bot, proxy and legs: each task holds one frame at most, and tasks
\* run only while the connection is relayed.
THEOREM ProxiedTypeCorrect == ProxiedSpec => []ProxiedTypeOK
PROOF
<1>1. Wired!Spec => []Wired!TypeOK
  BY Wired!TypeCorrect, SlotAssumption, PTL DEF SlotAssumption
<1>2. Wired!TypeOK /\ WireInv => ProxiedTypeOK
  BY DEF Wired!TypeOK, Wired!Orders, WireInv, WireTypes, RelayInv, ProxiedTypeOK, TypeOK, Orders
<1>3. QED
  BY <1>1, <1>2, WireAlways, ProxiedIsWired, PTL

---------------------------------------------------------------------------
(* How the relay comes to its end. *)

\* How many steps of the proxy are left at most: a frame has four of them before it,
\* from the bot to the contestant and its answer back; a task ends once, and the relay
\* is connected, waited for and closed once.
FramesToGo == 4 * (MaxSlot - slot) + 4 * Len(requests)
                + 2 * Len(toContestant) + 2 * Len(fromContestant)
HandsToGo == (IF forwarding = 0 THEN 0 ELSE 3) + (IF returning = 0 THEN 0 ELSE 1)
TasksToGo == (IF "up" \in tasks THEN 1 ELSE 0) + (IF "down" \in tasks THEN 1 ELSE 0)
StagesToGo == CASE relay = "connecting" -> 5
                [] relay = "relaying"   -> 2
                [] relay = "closing"    -> 1
                [] OTHER                -> 0
RelayToGo == FramesToGo + HandsToGo + TasksToGo + StagesToGo

RelayRunsDown ==
  [][/\ RelayToGo' <= RelayToGo
     /\ Relay => RelayToGo' \in Nat /\ RelayToGo' < RelayToGo]_allVars

BothLegsDown == relay = "over" => ~connected /\ ~upstreamOpen

\* What the rank is made of.
LEMMA RelayNumbers ==
  ASSUME WireInv
  PROVE  /\ MaxSlot \in Nat /\ slot \in 0..MaxSlot
         /\ Len(requests) \in Nat /\ Len(toContestant) \in Nat /\ Len(fromContestant) \in Nat
         /\ FramesToGo \in Nat /\ HandsToGo \in Nat /\ TasksToGo \in Nat /\ StagesToGo \in Nat
         /\ RelayToGo \in Nat
PROOF
<1>1. /\ MaxSlot \in Nat /\ slot \in 0..MaxSlot
      /\ Len(requests) \in Nat /\ Len(toContestant) \in Nat /\ Len(fromContestant) \in Nat
  BY SlotAssumption DEF WireInv, WireTypes
<1>2. FramesToGo \in Nat
  BY <1>1 DEF FramesToGo
<1>3. HandsToGo \in Nat /\ TasksToGo \in Nat
  BY DEF HandsToGo, TasksToGo
<1>4. StagesToGo \in Nat
  BY DEF StagesToGo, WireInv, WireTypes
<1>5. QED
  BY <1>1, <1>2, <1>3, <1>4 DEF RelayToGo

LEMMA RelayStep ==
  ASSUME WireInv, Relay
  PROVE  RelayToGo' < RelayToGo
PROOF
<1>1. /\ MaxSlot \in Nat /\ slot \in 0..MaxSlot
      /\ Len(requests) \in Nat /\ Len(toContestant) \in Nat /\ Len(fromContestant) \in Nat
      /\ FramesToGo \in Nat /\ HandsToGo \in Nat /\ TasksToGo \in Nat /\ StagesToGo \in Nat
  BY RelayNumbers
<1>2. /\ requests \in Seq(Orders) /\ toContestant \in Seq(Orders)
      /\ fromContestant \in Seq(Orders) /\ returning \in Frames /\ forwarding \in Frames
  BY DEF WireInv, WireTypes
<1>3. \A s \in Seq(Orders) : s # <<>> => Len(Tail(s)) = Len(s) - 1 /\ Len(s) \in Nat \ {0}
  OBVIOUS
<1>4. CASE ConnectUpstream
  <2>1. /\ relay = "connecting" /\ tasks = {} /\ relay' = "relaying" /\ tasks' = {"up", "down"}
        /\ UNCHANGED <<slot, requests, forwarding, toContestant, fromContestant, returning>>
    BY <1>4 DEF ConnectUpstream, WireInv, RelayInv, vars, wire
  <2>2. FramesToGo' = FramesToGo
    BY <1>1, <2>1 DEF FramesToGo
  <2>3. HandsToGo' = HandsToGo
    BY <1>1, <2>1 DEF HandsToGo
  <2>4. TasksToGo' = TasksToGo + 2
    BY <1>1, <2>1 DEF TasksToGo
  <2>5. StagesToGo' = StagesToGo - 3
    BY <1>1, <2>1 DEF StagesToGo
  <2>6. QED
    BY <1>1, <2>2, <2>3, <2>4, <2>5 DEF RelayToGo
<1>5. CASE ConnectFails
  <2>1. /\ relay = "connecting" /\ relay' = "over" /\ Len(requests') = 0
        /\ UNCHANGED <<slot, forwarding, toContestant, fromContestant, returning, tasks>>
    BY <1>5 DEF ConnectFails, runVars, legs
  <2>2. PICK f \in Nat : FramesToGo' = FramesToGo - f
    <3>1. FramesToGo' \in Int /\ FramesToGo' <= FramesToGo
      BY <1>1, <2>1 DEF FramesToGo
    <3>2. QED
      BY <1>1, <3>1
  <2>3. HandsToGo' = HandsToGo
    BY <1>1, <2>1 DEF HandsToGo
  <2>4. TasksToGo' = TasksToGo
    BY <1>1, <2>1 DEF TasksToGo
  <2>5. StagesToGo' = StagesToGo - 5
    BY <1>1, <2>1 DEF StagesToGo
  <2>6. QED
    BY <1>1, <2>2, <2>3, <2>4, <2>5 DEF RelayToGo
<1>6. CASE TakeFromClient
  <2>1. /\ "up" \in tasks /\ forwarding = 0
        /\ UNCHANGED <<slot, relay, returning, toContestant, fromContestant>>
    BY <1>6 DEF TakeFromClient, runVars, legs
  <2>2. CASE requests # <<>>
    <3>1. /\ Len(requests') = Len(requests) - 1 /\ tasks' = tasks
      BY <1>2, <1>3, <1>6, <2>2 DEF TakeFromClient
    <3>2. FramesToGo' = FramesToGo - 4
      BY <1>1, <2>1, <3>1 DEF FramesToGo
    <3>3. PICK h \in Nat : HandsToGo' = HandsToGo + 3 - h
      BY <1>1, <2>1, <3>1 DEF HandsToGo
    <3>4. TasksToGo' = TasksToGo
      BY <1>1, <2>1, <3>1 DEF TasksToGo
    <3>5. StagesToGo' = StagesToGo
      BY <1>1, <2>1, <3>1 DEF StagesToGo
    <3>6. QED
      BY <1>1, <3>2, <3>3, <3>4, <3>5 DEF RelayToGo
  <2>3. CASE requests = <<>>
    <3>1. tasks' = tasks \ {"up"} /\ UNCHANGED <<forwarding, requests>>
      BY <1>6, <2>3 DEF TakeFromClient
    <3>2. FramesToGo' = FramesToGo
      BY <1>1, <2>1, <3>1 DEF FramesToGo
    <3>3. HandsToGo' = HandsToGo
      BY <1>1, <2>1, <3>1 DEF HandsToGo
    <3>4. TasksToGo' = TasksToGo - 1
      BY <1>1, <2>1, <3>1 DEF TasksToGo
    <3>5. StagesToGo' = StagesToGo
      BY <1>1, <2>1, <3>1 DEF StagesToGo
    <3>6. QED
      BY <1>1, <3>2, <3>3, <3>4, <3>5 DEF RelayToGo
  <2>4. QED
    BY <2>2, <2>3
<1>7. CASE Forward
  <2>1. /\ "up" \in tasks /\ forwarding # 0 /\ forwarding' = 0
        /\ UNCHANGED <<slot, relay, returning, requests, fromContestant>>
    BY <1>7 DEF Forward, vars, wire
  <2>2. CASE upstreamOpen
    <3>1. tasks' = tasks /\ toContestant' = Append(toContestant, forwarding)
      BY <1>7, <2>2 DEF Forward
    <3>2. Len(toContestant') = Len(toContestant) + 1
      BY <1>2, <3>1
    <3>3. FramesToGo' = FramesToGo + 2
      BY <1>1, <2>1, <3>1, <3>2 DEF FramesToGo
    <3>4. HandsToGo' = HandsToGo - 3
      BY <1>1, <2>1, <3>1, <3>2 DEF HandsToGo
    <3>5. TasksToGo' = TasksToGo
      BY <1>1, <2>1, <3>1, <3>2 DEF TasksToGo
    <3>6. StagesToGo' = StagesToGo
      BY <1>1, <2>1, <3>1, <3>2 DEF StagesToGo
    <3>7. QED
      BY <1>1, <3>3, <3>4, <3>5, <3>6 DEF RelayToGo
  <2>3. CASE ~upstreamOpen
    <3>1. tasks' = tasks \ {"up"} /\ UNCHANGED toContestant
      BY <1>7, <2>3 DEF Forward
    <3>2. FramesToGo' = FramesToGo
      BY <1>1, <2>1, <3>1 DEF FramesToGo
    <3>3. HandsToGo' = HandsToGo - 3
      BY <1>1, <2>1, <3>1 DEF HandsToGo
    <3>4. TasksToGo' = TasksToGo - 1
      BY <1>1, <2>1, <3>1 DEF TasksToGo
    <3>5. StagesToGo' = StagesToGo
      BY <1>1, <2>1, <3>1 DEF StagesToGo
    <3>6. QED
      BY <1>1, <3>2, <3>3, <3>4, <3>5 DEF RelayToGo
  <2>4. QED
    BY <2>2, <2>3
<1>8. CASE TakeFromContestant
  <2>1. /\ "down" \in tasks /\ returning = 0
        /\ UNCHANGED <<slot, relay, forwarding, requests, toContestant>>
    BY <1>8 DEF TakeFromContestant, vars, wire
  <2>2. CASE fromContestant # <<>>
    <3>1. /\ Len(fromContestant') = Len(fromContestant) - 1 /\ tasks' = tasks
      BY <1>2, <1>3, <1>8, <2>2 DEF TakeFromContestant
    <3>2. FramesToGo' = FramesToGo - 2
      BY <1>1, <2>1, <3>1 DEF FramesToGo
    <3>3. PICK h \in Nat : HandsToGo' = HandsToGo + 1 - h
      BY <1>1, <2>1, <3>1 DEF HandsToGo
    <3>4. TasksToGo' = TasksToGo
      BY <1>1, <2>1, <3>1 DEF TasksToGo
    <3>5. StagesToGo' = StagesToGo
      BY <1>1, <2>1, <3>1 DEF StagesToGo
    <3>6. QED
      BY <1>1, <3>2, <3>3, <3>4, <3>5 DEF RelayToGo
  <2>3. CASE fromContestant = <<>>
    <3>1. tasks' = tasks \ {"down"} /\ UNCHANGED <<returning, fromContestant>>
      BY <1>8, <2>3 DEF TakeFromContestant
    <3>2. FramesToGo' = FramesToGo
      BY <1>1, <2>1, <3>1 DEF FramesToGo
    <3>3. HandsToGo' = HandsToGo
      BY <1>1, <2>1, <3>1 DEF HandsToGo
    <3>4. TasksToGo' = TasksToGo - 1
      BY <1>1, <2>1, <3>1 DEF TasksToGo
    <3>5. StagesToGo' = StagesToGo
      BY <1>1, <2>1, <3>1 DEF StagesToGo
    <3>6. QED
      BY <1>1, <3>2, <3>3, <3>4, <3>5 DEF RelayToGo
  <2>4. QED
    BY <2>2, <2>3
<1>9. CASE Return
  <2>1. /\ "down" \in tasks /\ returning # 0 /\ returning' = 0
        /\ tasks' = tasks \/ tasks' = tasks \ {"down"}
        /\ UNCHANGED <<slot, relay, forwarding, requests, toContestant, fromContestant>>
    BY <1>9 DEF Return, runVars, legs
  <2>2. FramesToGo' = FramesToGo
    BY <1>1, <2>1 DEF FramesToGo
  <2>3. HandsToGo' = HandsToGo - 1
    BY <1>1, <2>1 DEF HandsToGo
  <2>4. PICK t \in Nat : TasksToGo' = TasksToGo - t
    BY <1>1, <2>1 DEF TasksToGo
  <2>5. StagesToGo' = StagesToGo
    BY <1>1, <2>1 DEF StagesToGo
  <2>6. QED
    BY <1>1, <2>2, <2>3, <2>4, <2>5 DEF RelayToGo
<1>10. CASE WaitReturns
  <2>1. /\ relay = "relaying" /\ relay' = "closing" /\ tasks' = {}
        /\ forwarding' = 0 /\ returning' = 0
        /\ UNCHANGED <<slot, requests, toContestant, fromContestant>>
    BY <1>10 DEF WaitReturns, vars, wire, legs
  <2>2. FramesToGo' = FramesToGo
    BY <1>1, <2>1 DEF FramesToGo
  <2>3. PICK h \in Nat : HandsToGo' = HandsToGo - h
    BY <1>1, <2>1 DEF HandsToGo
  <2>4. PICK t \in Nat : TasksToGo' = TasksToGo - t
    BY <1>1, <2>1 DEF TasksToGo
  <2>5. StagesToGo' = StagesToGo - 1
    BY <1>1, <2>1 DEF StagesToGo
  <2>6. QED
    BY <1>1, <2>2, <2>3, <2>4, <2>5 DEF RelayToGo
<1>11. CASE CloseLegs
  <2>1. /\ relay = "closing" /\ relay' = "over"
        /\ Len(requests') = 0 /\ Len(toContestant') = 0 /\ Len(fromContestant') = 0
        /\ UNCHANGED <<slot, tasks, forwarding, returning>>
    BY <1>11 DEF CloseLegs, runVars
  <2>2. PICK f \in Nat : FramesToGo' = FramesToGo - f
    <3>1. FramesToGo' \in Int /\ FramesToGo' <= FramesToGo
      BY <1>1, <2>1 DEF FramesToGo
    <3>2. QED
      BY <1>1, <3>1
  <2>3. HandsToGo' = HandsToGo
    BY <1>1, <2>1 DEF HandsToGo
  <2>4. TasksToGo' = TasksToGo
    BY <1>1, <2>1 DEF TasksToGo
  <2>5. StagesToGo' = StagesToGo - 1
    BY <1>1, <2>1 DEF StagesToGo
  <2>6. QED
    BY <1>1, <2>2, <2>3, <2>4, <2>5 DEF RelayToGo
<1>12. QED
  BY <1>4, <1>5, <1>6, <1>7, <1>8, <1>9, <1>10, <1>11 DEF Relay

\* Nothing outside the proxy gives it more to do than an order was worth.
LEMMA OutsideStep ==
  ASSUME WireInv, [ProxiedNext]_allVars, ~Relay
  PROVE  RelayToGo' <= RelayToGo
PROOF
<1>1. /\ MaxSlot \in Nat /\ slot \in 0..MaxSlot
      /\ Len(requests) \in Nat /\ Len(toContestant) \in Nat /\ Len(fromContestant) \in Nat
      /\ FramesToGo \in Nat /\ HandsToGo \in Nat /\ TasksToGo \in Nat /\ StagesToGo \in Nat
  BY RelayNumbers
<1>2. /\ requests \in Seq(Orders) /\ toContestant \in Seq(Orders)
      /\ fromContestant \in Seq(Orders) /\ answers \in Seq(Orders)
  BY DEF WireInv, WireTypes
\* It leaves the proxy as it is, and its frames no farther from their end.
<1>3. ASSUME UNCHANGED <<relay, tasks, forwarding, returning>>,
             FramesToGo' \in Int, FramesToGo' <= FramesToGo
      PROVE  RelayToGo' <= RelayToGo
  <2>1. HandsToGo' = HandsToGo /\ TasksToGo' = TasksToGo /\ StagesToGo' = StagesToGo
    BY <1>3 DEF HandsToGo, TasksToGo, StagesToGo
  <2>2. PICK f \in Nat : FramesToGo' = FramesToGo - f
    BY <1>1, <1>3
  <2>3. QED
    BY <1>1, <2>1, <2>2 DEF RelayToGo
<1>4. CASE (Bot \/ Receiver) /\ UNCHANGED proxyVars
  <2>1. UNCHANGED <<relay, tasks, forwarding, returning, toContestant, fromContestant>>
    BY <1>4 DEF proxyVars, relayVars, legs
  <2>2. FramesToGo' \in Int /\ FramesToGo' <= FramesToGo
    <3>1. CASE SendOrder
      <4>1. slot' = slot + 1 /\ requests' \in {requests, Append(requests, slot + 1)}
        BY <3>1 DEF SendOrder
      <4>2. slot + 1 \in Orders
        BY <1>1, <3>1 DEF SendOrder, Orders
      <4>3. Len(Append(requests, slot + 1)) = Len(requests) + 1
        BY <1>2, <4>2
      <4>4. Len(requests') <= Len(requests) + 1 /\ Len(requests') \in Nat
        BY <1>1, <4>1, <4>3
      <4>5. QED
        BY <1>1, <2>1, <4>1, <4>4 DEF FramesToGo
    <3>2. CASE SendFails
      <4>1. slot' = slot + 1 /\ requests' = requests
        BY <3>2 DEF SendFails, wire
      <4>2. QED
        BY <1>1, <2>1, <4>1 DEF FramesToGo
    <3>3. CASE Deadline \/ Joined \/ Receiver
      <4>1. slot' = slot /\ requests' = requests
        BY <3>3 DEF Deadline, Joined, Receiver, TakePending, Receive, ReceiveUnexpected,
           ReceiveNothing, wire
      <4>2. QED
        BY <1>1, <2>1, <4>1 DEF FramesToGo
    <3>4. QED
      BY <1>4, <3>1, <3>2, <3>3 DEF Bot
  <2>3. QED
    BY <1>3, <2>1, <2>2
<1>5. CASE Reply \/ ContestantDies \/ ClientLeaves \/ UNCHANGED allVars
  <2>1. UNCHANGED <<slot, relay, tasks, forwarding, returning>>
    BY <1>5 DEF Reply, ContestantDies, ClientLeaves, allVars, vars, wire, runVars, proxyVars,
       relayVars, legs
  <2>2. CASE Reply
    <3>1. /\ Len(toContestant') = Len(toContestant) - 1
          /\ Len(fromContestant') = Len(fromContestant) + 1 /\ requests' = requests
      BY <1>2, <2>2 DEF Reply, vars, wire
    <3>2. FramesToGo' = FramesToGo
      BY <1>1, <2>1, <3>1 DEF FramesToGo
    <3>3. QED
      BY <1>1, <1>3, <2>1, <3>2
  <2>3. CASE ContestantDies
    <3>1. Len(toContestant') = 0 /\ Len(fromContestant') \in 0..Len(fromContestant)
      BY <1>2, <2>3, PrefixFacts DEF ContestantDies
    <3>2. requests' = requests
      BY <2>3 DEF ContestantDies, vars, wire
    <3>3. FramesToGo' \in Int /\ FramesToGo' <= FramesToGo
      BY <1>1, <2>1, <3>1, <3>2 DEF FramesToGo
    <3>4. QED
      BY <1>3, <2>1, <3>3
  <2>4. CASE ClientLeaves
    <3>1. Len(requests') \in 0..Len(requests)
      BY <1>2, <2>4, PrefixFacts DEF ClientLeaves
    <3>2. UNCHANGED <<toContestant, fromContestant>>
      BY <2>4 DEF ClientLeaves, proxyVars, legs
    <3>3. FramesToGo' \in Int /\ FramesToGo' <= FramesToGo
      BY <1>1, <2>1, <3>1, <3>2 DEF FramesToGo
    <3>4. QED
      BY <1>3, <2>1, <3>3
  <2>5. CASE UNCHANGED allVars
    <3>1. FramesToGo' = FramesToGo
      BY <2>5 DEF FramesToGo, allVars, vars, wire, proxyVars, legs
    <3>2. QED
      BY <1>1, <1>3, <2>1, <3>1
  <2>6. QED
    BY <1>5, <2>2, <2>3, <2>4, <2>5
<1>6. QED
  BY <1>4, <1>5 DEF ProxiedNext

\* The proxy comes to an end with a connection: each of its steps leaves it fewer, no
\* frame and no failure gives one back, and when it is over both legs are down.  Besides
\* fairness this is what LegsFallTogether rests on.
THEOREM RelayComesToAnEnd == ProxiedSpec => RelayRunsDown /\ []BothLegsDown
PROOF
<1>1. WireInv /\ WireInv' /\ [ProxiedNext]_allVars
        => [/\ RelayToGo' <= RelayToGo
            /\ Relay => RelayToGo' \in Nat /\ RelayToGo' < RelayToGo]_allVars
  <2> SUFFICES ASSUME WireInv, WireInv', [ProxiedNext]_allVars
               PROVE  /\ RelayToGo' <= RelayToGo
                      /\ Relay => RelayToGo' \in Nat /\ RelayToGo' < RelayToGo
    OBVIOUS
  <2>1. RelayToGo' \in Nat
    <3>1. /\ MaxSlot \in Nat /\ slot' \in 0..MaxSlot
          /\ Len(requests') \in Nat /\ Len(toContestant') \in Nat /\ Len(fromContestant') \in Nat
      BY SlotAssumption DEF WireInv, WireTypes
    <3>2. FramesToGo' \in Nat
      BY <3>1 DEF FramesToGo
    <3>3. HandsToGo' \in Nat /\ TasksToGo' \in Nat
      BY DEF HandsToGo, TasksToGo
    <3>4. StagesToGo' \in Nat
      BY DEF StagesToGo, WireInv, WireTypes
    <3>5. PICK f \in Nat, h \in Nat, t \in Nat, s \in Nat :
            FramesToGo' = f /\ HandsToGo' = h /\ TasksToGo' = t /\ StagesToGo' = s
      BY <3>2, <3>3, <3>4
    <3>6. QED
      BY <3>5 DEF RelayToGo
  <2>2. RelayToGo \in Nat
    BY RelayNumbers
  <2>3. CASE Relay
    <3>1. RelayToGo' < RelayToGo
      BY <2>3, RelayStep
    <3>2. QED
      BY <2>1, <2>2, <3>1
  <2>4. CASE ~Relay
    BY <2>4, OutsideStep
  <2>5. QED
    BY <2>3, <2>4
<1>2. WireInv => BothLegsDown
  BY DEF WireInv, RelayInv, BothLegsDown
<1>3. QED
  BY <1>1, <1>2, WireAlways, PTL DEF ProxiedSpec, RelayRunsDown
=============================================================================
