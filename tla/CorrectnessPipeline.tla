------------------------ MODULE CorrectnessPipeline ------------------------
(***************************************************************************)
(* How a submission gets its correctness score.  The bot                   *)
(* (bots/limit_order_bot.py) sends orders to the contestant and copies     *)
(* them to the stream orders:<sid>; it copies the fills in the acks to     *)
(* contestant_fills:<sid> and one event per order to events:<sid>.  Each   *)
(* copy is a task of its own that nobody waits for.  Sends may fail and    *)
(* acks may be lost: the order is in the stream all the same, and leaves   *)
(* an event and no fills.  The validator (services/validator/worker.py)    *)
(* polls: it replays the orders in the reference engine, compares the      *)
(* fills and stores the rate.                                              *)
(*                                                                         *)
(* The bot's orders are limit orders under fresh ids: for those the        *)
(* reference engine and the example contestant give the same fills         *)
(* (EngineAgreement), and one operator, ServeOrder, stands for both.       *)
(***************************************************************************)
EXTENDS ExampleEngine

CONSTANTS Setups,       \* the surroundings to look at, see Setup
          None

\* slots: how many orders a bot sends in a test.  tests (a bound): how many
\* tests are run, one after the other.  honest: does the contestant match
\* orders, or only echo them.  prompt: do writes land in order, and those of
\* orders at once.  cap: how many entries an xrange returns at most.  shown: is
\* the ingester at work, see LiveBoard.  faults (a bound): calls to Redis that
\* raise in the validator, connections that break, acks that are waited for in
\* vain, and calls of test/complete.
Setup == [slots : Nat \ {0}, tests : Nat \ {0}, honest : BOOLEAN, prompt : BOOLEAN,
          cap : Nat \ {0}, shown : BOOLEAN, faults : Nat]

ASSUME SetupsAssumption == Setups \subseteq Setup

\* What None is told apart from: numbers, match_rate, correctness:<sid>, test_status.
Rates == Nat \X Nat
Scores == [rate : Rates, totalOrders : Nat]
Statuses == {"running", "completed", "failed"}

ASSUME NoneAssumption == None \notin Nat \cup Rates \cup Scores \cup Statuses

VARIABLES
  setup,         \* one of Setups, for good
  \* the bot and the contestant
  test,          \* the test that runs or ran last
  ended,         \* how many have ended
  sent,          \* orders of the bot, over all tests
  connected,     \* has the test its connection
  waiting,       \* items of pending
  unanswered,    \* orders delivered whose acks the bot may still read
  orphaned,      \* orders delivered whose acks nobody reads
  served,        \* orders the contestant has served, as they came
  engine,        \* its engine
  pendingOrders, pendingFills, pendingEvents,  \* writes that have not landed
  testStatus,    \* one of Statuses
  owed,          \* history: orders sent when a test was first said to be completed
  lossAt,        \* history: the first test that lost an order or an ack, 0 for none
  \* Redis
  orders,        \* orders:<sid>, an order by its number
  fills,         \* contestant_fills:<sid>
  events,        \* the length of events:<sid>
  score,         \* correctness:<sid>, or None: match_rate as a fraction, total_orders
  summary,       \* correctness:json:<sid>, or None: match_rate
  \* the validator
  lastValidatedLen,    \* last_validated_len, None for no entry
  completedValidated,  \* is it in completed_validated
  validator,     \* what it does next: "poll" "len" "orders" "replay" "fills"
                 \* "events" "store" "summarise" "remember"
  status, streamLen, ref, contestant, eventsLen,  \* its locals
  taken, replayed, refEngine,  \* the orders read, those replayed, the engine
  failures

Slots == setup.slots
Tests == setup.tests
Honest == setup.honest
Prompt == setup.prompt
ReadCap == setup.cap
MaxFailures == setup.faults

testVars == <<setup, test, ended>>
said == <<testStatus, owed>>
link == <<connected, waiting, unanswered, orphaned>>
contestantVars == <<served, engine>>
pendingWrites == <<pendingOrders, pendingFills, pendingEvents>>
botVars == <<testVars, sent, link, contestantVars, pendingWrites, said, lossAt>>
streamVars == <<orders, fills, events>>
replay == <<taken, replayed, refEngine>>
locals == <<status, streamLen, replay, ref, contestant, eventsLen>>
memory == <<lastValidatedLen, completedValidated>>
stored == <<score, summary>>
validatorVars == <<stored, memory, validator, locals, failures>>
vars == <<botVars, streamVars, validatorVars>>

Init ==
  /\ setup \in Setups
  /\ test = 1 /\ ended = 0 /\ sent = 0 /\ served = <<>> /\ engine = EmptyEngine
  /\ connected = TRUE /\ waiting = 0 /\ unanswered = {} /\ orphaned = {}
  /\ testStatus = "running" /\ owed = None /\ lossAt = 0
  /\ pendingOrders = {} /\ pendingFills = {} /\ pendingEvents = 0
  /\ orders = <<>> /\ fills = <<>> /\ events = 0
  /\ score = None /\ summary = None
  /\ lastValidatedLen = None /\ completedValidated = FALSE
  /\ validator = "poll"
  /\ status = None /\ streamLen = 0
  /\ taken = <<>> /\ replayed = 0 /\ refEngine = EmptyEngine
  /\ ref = <<>> /\ contestant = <<>> /\ eventsLen = 0
  /\ failures = 0

---------------------------------------------------------------------------
(* The bot. *)

\* How many orders there are once the test that runs has sent them all.
LastOrder == Slots * test

\* Every test begins at slot 1; sides alternate, prices go round.
NumberedOrder(n) ==
  LET slot == ((n - 1) % Slots) + 1
  IN [id |-> n, side |-> IF slot % 2 = 0 THEN "buy" ELSE "sell",
      price |-> 100 + (slot % 10), qty |-> 1, ts |-> n]

\* The order that reached the stream as the nth.
OrderAt(stream, n) == [NumberedOrder(stream[n]) EXCEPT !.ts = n]

\* Fills between the orders of a stream, by order id.
ById(trades, stream) ==
  [i \in DOMAIN trades |-> [trades[i] EXCEPT !.buy = stream[@], !.sell = stream[@]]]

\* The order's write is a task from before the send, whatever becomes of that.
WriteOrder(n) ==
  IF Prompt THEN orders' = Append(orders, n) /\ UNCHANGED pendingOrders
            ELSE pendingOrders' = pendingOrders \cup {n} /\ UNCHANGED orders

\* record_response leaves an event of every order.
WriteEvent == pendingEvents' = pendingEvents + 1

NoteLoss == lossAt' = IF lossAt = 0 THEN test ELSE lossAt

SendOrder ==
  /\ sent < LastOrder /\ connected
  /\ sent' = sent + 1
  /\ WriteOrder(sent')
  /\ waiting' = waiting + 1 /\ unanswered' = unanswered \cup {sent'}
  /\ UNCHANGED <<testVars, connected, orphaned, contestantVars, pendingFills, pendingEvents,
                 said, lossAt, fills, events, validatorVars>>

\* The send raises: the contestant never gets the order, and there is no ack of it.
SendFails ==
  /\ sent < LastOrder /\ ~connected
  /\ sent' = sent + 1
  /\ WriteOrder(sent') /\ WriteEvent /\ NoteLoss
  /\ UNCHANGED <<testVars, link, contestantVars, pendingFills, said, fills, events,
                 validatorVars>>

\* The contestant takes up one more order; an echo has no engine.
Serve(n) ==
  /\ served' = Append(served, n)
  /\ engine' = IF Honest THEN ServeOrder(engine, OrderAt(served', Len(served'))) ELSE engine

\* The contestant serves the oldest order and record_response handles the ack, for
\* whichever order it is taken: one write for each fill, one for the event.  What an
\* honest contestant sends can be read, and an echo's acks have no fills.
RecordResponse ==
  /\ waiting > 0 /\ waiting' = waiting - 1
  /\ \E n \in unanswered :
       /\ \A m \in unanswered : n <= m
       /\ Serve(n)
       /\ unanswered' = unanswered \ {n}
  /\ pendingFills' = pendingFills \cup (Len(engine.fills) + 1 .. Len(engine'.fills))
  /\ WriteEvent
  /\ UNCHANGED <<testVars, sent, connected, orphaned, pendingOrders, said, lossAt, streamVars,
                 validatorVars>>

\* recv raises, as there is no connection and nothing left to be read of it.
RecordNothing ==
  /\ ~connected /\ unanswered = {}
  /\ waiting > 0 /\ waiting' = waiting - 1
  /\ WriteEvent /\ NoteLoss
  /\ UNCHANGED <<testVars, sent, connected, unanswered, orphaned, contestantVars,
                 pendingOrders, pendingFills, said, streamVars, validatorVars>>

\* recv times out.  The ack may still come: it is taken for that of a later order, or
\* left unread when the run ends.
AckTimesOut ==
  /\ connected
  /\ waiting > 0 /\ waiting' = waiting - 1
  /\ failures < MaxFailures /\ failures' = failures + 1
  /\ WriteEvent /\ NoteLoss
  /\ UNCHANGED <<testVars, sent, connected, unanswered, orphaned, contestantVars,
                 pendingOrders, pendingFills, said, streamVars, stored, memory, validator,
                 locals>>

\* The connection breaks: the first acks may be there already, the others never come.
ConnectionBreaks ==
  /\ connected /\ connected' = FALSE
  /\ failures < MaxFailures /\ failures' = failures + 1
  /\ \E lost \in SUBSET unanswered :
       /\ \A n \in lost, m \in unanswered \ lost : m < n
       /\ unanswered' = unanswered \ lost
       /\ orphaned' = orphaned \cup lost
  /\ UNCHANGED <<testVars, sent, waiting, contestantVars, pendingWrites, said, lossAt,
                 streamVars, stored, memory, validator, locals>>

\* An order that came over the connection of an earlier test is served after all;
\* its handler serves them in turn, beside that of the test that runs.
ServeOrphan ==
  /\ Honest
  /\ \E n \in orphaned :
       /\ n <= LastOrder - Slots
       /\ \A m \in orphaned : (m - 1) \div Slots = (n - 1) \div Slots => n <= m
       /\ Serve(n)
       /\ orphaned' = orphaned \ {n}
  /\ UNCHANGED <<testVars, sent, connected, waiting, unanswered, pendingWrites, said, lossAt,
                 streamVars, validatorVars>>

\* Variant for mutation runs: tasks always overtake.
MayLand_Any(x, pending) == x \in pending

\* Tasks run on connections of their own and may overtake each other.
MayLand(x, pending) == x \in pending /\ (Prompt => \A y \in pending : x <= y)

OrderLands ==
  /\ \E n \in pendingOrders :
       /\ MayLand(n, pendingOrders)
       /\ orders' = Append(orders, n)
       /\ pendingOrders' = pendingOrders \ {n}
  /\ UNCHANGED <<testVars, sent, link, contestantVars, pendingFills, pendingEvents, said, lossAt,
                 fills, events, validatorVars>>

FillLands ==
  /\ \E n \in pendingFills :
       /\ MayLand(n, pendingFills)
       /\ fills' = Append(fills, ById(engine.fills, served)[n])
       /\ pendingFills' = pendingFills \ {n}
  /\ UNCHANGED <<testVars, sent, link, contestantVars, pendingOrders, pendingEvents, said, lossAt,
                 orders, events, validatorVars>>

EventLands ==
  /\ pendingEvents > 0
  /\ pendingEvents' = pendingEvents - 1
  /\ events' = events + 1
  /\ UNCHANGED <<testVars, sent, link, contestantVars, pendingOrders, pendingFills, said, lossAt,
                 orders, fills, validatorVars>>

\* test_status is written.
Say(what) ==
  /\ testStatus' = what
  /\ owed' = IF what = "completed" /\ owed = None THEN sent ELSE owed

\* pending.join() returns and run_load_test_task marks the test completed; for the
\* writes still pending and the acks still to come waits nobody.
CompleteTest ==
  /\ ended < test
  /\ sent = LastOrder /\ waiting = 0
  /\ Say("completed") /\ ended' = test
  /\ unanswered' = {} /\ orphaned' = orphaned \cup unanswered
  /\ UNCHANGED <<setup, test, sent, connected, waiting, contestantVars, pendingWrites, lossAt,
                 streamVars, validatorVars>>

\* POST test/complete writes what the caller says, whether the test has ended or not;
\* a load test that raises marks itself as failed, too.
MarkTest ==
  /\ failures < MaxFailures /\ failures' = failures + 1
  /\ Say("completed") \/ Say("failed")
  /\ UNCHANGED <<testVars, sent, link, contestantVars, pendingWrites, lossAt, streamVars, stored,
                 memory, validator, locals>>

\* test/start once more, over a connection of its own: the contestant and the streams
\* go on where they are.
StartAgain ==
  /\ ended = test /\ test < Tests
  /\ Say("running") /\ test' = test + 1
  /\ connected' = TRUE
  /\ UNCHANGED <<setup, ended, sent, waiting, unanswered, orphaned, contestantVars,
                 pendingWrites, lossAt, streamVars, validatorVars>>

Bot ==
  \/ SendOrder \/ SendFails \/ RecordResponse \/ RecordNothing \/ CompleteTest
  \/ OrderLands \/ FillLands \/ EventLands

---------------------------------------------------------------------------
(* The validator. *)

Validating(from, to) == validator = from /\ validator' = to

\* What xrange returns of a stream: the head of it.
ReadStream(stream) == SubSeq(stream, 1, Min({ReadCap, Len(stream)}))

\* The stream has a key, and the submission's test_status is fetched: one that
\* has failed is left alone.
ReadStatus ==
  /\ validator = "poll"
  /\ orders # <<>>
  /\ status' = testStatus
  /\ validator' = IF testStatus = "failed" \/ (testStatus = "completed" /\ completedValidated)
                  THEN "poll" ELSE "len"
  /\ UNCHANGED <<botVars, streamVars, stored, memory, streamLen, replay, ref,
                 contestant, eventsLen, failures>>

\* A stream as long as at the last validation is left alone.
ReadLength ==
  /\ validator = "len"
  /\ streamLen' = Len(orders)
  /\ validator' = IF streamLen' = lastValidatedLen THEN "poll" ELSE "orders"
  /\ UNCHANGED <<botVars, streamVars, stored, memory, status, replay, ref, contestant,
                 eventsLen, failures>>

\* xlen raises: the length is -1 (None here), which skips nothing.
LengthUnknown ==
  /\ Validating("len", "orders")
  /\ failures < MaxFailures
  /\ failures' = failures + 1
  /\ streamLen' = None
  /\ UNCHANGED <<botVars, streamVars, stored, memory, status, replay, ref, contestant,
                 eventsLen>>

ReadOrders ==
  /\ Validating("orders", "replay")
  /\ taken' = ReadStream(orders)
  /\ replayed' = 0 /\ refEngine' = EmptyEngine
  /\ UNCHANGED <<botVars, streamVars, stored, memory, status, streamLen, ref,
                 contestant, eventsLen, failures>>

\* One turn of the replay's loop, which awaits nothing.
ReplayOrder ==
  /\ validator = "replay" /\ replayed < Len(taken)
  /\ replayed' = replayed + 1
  /\ refEngine' = ServeOrder(refEngine, OrderAt(taken, replayed'))
  /\ UNCHANGED <<botVars, streamVars, stored, memory, validator, status, streamLen,
                 taken, ref, contestant, eventsLen, failures>>

EndReplay ==
  /\ Validating("replay", "fills") /\ replayed = Len(taken)
  /\ ref' = ById(refEngine.fills, taken)
  /\ replayed' = 0 /\ refEngine' = EmptyEngine
  /\ UNCHANGED <<botVars, streamVars, stored, memory, status, streamLen, taken,
                 contestant, eventsLen, failures>>

ReadFills ==
  /\ Validating("fills", "events")
  /\ contestant' = ReadStream(fills)
  /\ UNCHANGED <<botVars, streamVars, stored, memory, status, streamLen, replay, ref,
                 eventsLen, failures>>

ReadEvents ==
  /\ Validating("events", "store")
  /\ eventsLen' = events
  /\ UNCHANGED <<botVars, streamVars, stored, memory, status, streamLen, replay, ref,
                 contestant, failures>>

\* diff_fills: fills that agree, position by position.
Matched(reference, theirs) ==
  Cardinality({i \in DOMAIN reference : i \in DOMAIN theirs /\ theirs[i] = reference[i]})

\* Variant for mutation runs: the boost is not halved.
MatchRate_FullBoost(reference, theirs, nEvents, nOrders) ==
  IF nEvents = 0 THEN <<0, 1>>
  ELSE IF reference = <<>> THEN <<1, 1>>
  ELSE IF theirs # <<>> THEN <<Matched(reference, theirs), Len(reference)>>
  ELSE <<IF nEvents <= nOrders THEN nEvents ELSE nOrders, nOrders>>

\* The rate, as <<numerator, denominator>>.  A contestant without any fill gets
\* half the share of orders that have an event.
MatchRate(reference, theirs, nEvents, nOrders) ==
  IF nEvents = 0 THEN <<0, 1>>
  ELSE IF reference = <<>> THEN <<1, 1>>
  ELSE IF theirs # <<>> THEN <<Matched(reference, theirs), Len(reference)>>
  ELSE <<IF nEvents <= nOrders THEN nEvents ELSE nOrders, 2 * nOrders>>

\* The rate is stored under correctness:<sid>, and then in the JSON that the
\* ingester looks at first.
StoreRate ==
  /\ Validating("store", "summarise")
  /\ score' = [rate |-> MatchRate(ref, contestant, eventsLen, Len(taken)),
               totalOrders |-> Len(taken)]
  /\ UNCHANGED <<botVars, streamVars, summary, memory, locals, failures>>

StoreSummary ==
  /\ Validating("summarise", "remember")
  /\ summary' = score.rate
  /\ UNCHANGED <<botVars, streamVars, score, memory, locals, failures>>

\* Variant for mutation runs: the length is read after the work.
Remember_LengthNow ==
  /\ Validating("remember", "poll")
  /\ lastValidatedLen' = Len(orders)
  /\ completedValidated' = (completedValidated \/ status = "completed")
  /\ UNCHANGED <<botVars, streamVars, stored, locals, failures>>

\* What was read before the work is remembered after it.
Remember ==
  /\ Validating("remember", "poll")
  /\ lastValidatedLen' = streamLen
  /\ completedValidated' = (completedValidated \/ status = "completed")
  /\ UNCHANGED <<botVars, streamVars, stored, locals, failures>>

\* A call raises: validator_error is written, nothing is remembered, and the
\* next poll tries again.
ValidationFails ==
  /\ validator \in {"orders", "replay", "fills", "events", "store", "summarise",
                   "remember"}
  /\ failures < MaxFailures
  /\ failures' = failures + 1
  /\ validator' = "poll"
  /\ UNCHANGED <<botVars, streamVars, stored, memory, locals>>

Poll ==
  \/ ReadStatus \/ ReadLength \/ ReadOrders \/ ReplayOrder \/ EndReplay \/ ReadFills
  \/ ReadEvents \/ StoreRate \/ StoreSummary \/ Remember

\* What need not happen.
Trouble ==
  AckTimesOut \/ ConnectionBreaks \/ ServeOrphan \/ MarkTest \/ LengthUnknown \/ ValidationFails

Next == Bot \/ StartAgain \/ Poll \/ Trouble

Spec == Init /\ [][Next]_vars

\* The bot keeps sending and its writes land; the contestant answers as long as it
\* is connected, but for MaxFailures times; the validator keeps polling.
FairSpec == Spec /\ WF_vars(Bot) /\ WF_vars(Poll)

---------------------------------------------------------------------------
(* Properties. *)

\* No earlier test has lost an order or an ack.
Unbroken == lossAt \in {0, test}

\* As long as writes land in order and no earlier test has lost an order or an ack, an
\* honest contestant never has a fill counted against it, however far the streams are
\* when the validator reads the one and then the other, and whatever is lost in the
\* test that runs: where what it has of both has an entry, the entries agree; the rate
\* is short only of fills that were not there yet, or never come.
PrefixesAgree ==
  Honest /\ Prompt /\ Unbroken
    => \A i \in DOMAIN ref \cap DOMAIN contestant : ref[i] = contestant[i]

OwedAreScored ==
  owed # None => score # None /\ score.totalOrders >= Min({owed, ReadCap})

\* Every order sent before a test is first said to be completed is replayed for a stored
\* score in the end, up to the cap, whatever arrives while a validation runs and over
\* failed ones, as long as orders are written at once.  The poll that sees the test
\* completed sees them; what a test sends that was called completed too early need
\* never be scored.  A test marked as failed is none of the validator's.
EveryOrderScored ==
  Prompt /\ owed # None /\ owed # 0 ~> OwedAreScored \/ testStatus = "failed"

\* However late writes land and however many tests are run: once all orders are
\* in the stream they are replayed for a stored score, up to the cap, unless a
\* completed test was scored before or the last one is marked as failed.
ArrivalsScored ==
  Len(orders) = Slots * Tests
    ~> \/ completedValidated \/ testStatus = "failed"
       \/ score # None /\ score.totalOrders = Min({Slots * Tests, ReadCap})

Partial(rate) == rate # None /\ rate[1] * 2 <= rate[2]

\* A contestant that fills nothing ends with half the points at most, although a poll
\* before the first crossing orders gives it all of them: unless its test was called
\* completed before they were sent.
EchoGetsHalf ==
  <>[](~Honest /\ Prompt /\ testStatus # "failed" /\ owed # None /\ owed >= 2
         => score # None /\ Partial(score.rate))
=============================================================================
