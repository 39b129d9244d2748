# QuantArena in TLA+

QuantArena runs trading engines that contestants upload, loads them with orders
and ranks them. These modules model the program's own logic, TLC checks the
models on small instances, and TLAPS proves the safety properties for every
value of the constants. Every definition is translated from the source; the
comment over a module names the file, and `PROJECT.json` gives the lines.

Contents: [the system](#the-system), [modules](#modules-and-the-code-they-model),
[runs](#what-the-runs-check), [fairness](#fairness), [findings](#findings),
[proofs](#what-is-proved), [what is left out](#what-is-not-modelled),
[plan](#plan).

## The system

A contestant's zip goes to the **submission API**, which builds an image, runs it
on an isolated network and registers its address with the **WebSocket proxy**.
A test is an asyncio task of the API that runs the **limit order bot** through the
proxy. The bot writes three Redis streams per submission: `orders:<id>` (what it
sent), `contestant_fills:<id>` (the fills in the acks) and `events:<id>` (one
latency event per order). The **ingester** reads the events, puts windows of them
on the leaderboard and, through a queue, in TimescaleDB. The **validator** replays
the orders in its **reference engine**, compares the fills, and stores a
correctness rate that the ingester's next **score** uses. The frontend shows what
is in Redis and TimescaleDB.

| Component | State it keeps | Operations | What makes it correct |
|---|---|---|---|
| Reference engine, `services/validator/matching_engine.py` | the orders by id, two heaps, the fills | `add_limit`, `add_market`, `cancel` | price-time priority; limits respected; no quantity lost or filled twice; a cancelled order is gone; dict and heaps agree |
| Example contestant, `examples/real_matching_engine/server.py` | the same on two sorted lists | one message at a time | the same fills as the reference |
| Validator, `services/validator/worker.py`, `replay.py` | `last_validated_len`, `completed_validated` in memory; the rate in Redis | poll, replay, compare, store | no fill counted against an honest contestant; every order replayed in the end; no full points for a contestant that only echoes |
| Bot, `bots/limit_order_bot.py` | the queue `pending`, error and event counts | send, receive, record | one event per order; acks used once and in order; the run ends |
| Ingester, `services/ingester/main.py`, `histogram.py` | trackers, error counts, offsets in memory; `ingester:offsets`, `leaderboard` in Redis | `consume_loop`, `flush_snapshots` | no event skipped, none counted twice by a process, windows add up, over crashes |
| Row queue and writer, `services/ingester/main.py` | `db_queue`, a batch, two tables | `put_nowait`, `db_writer` | rows in order and once; drops are the oldest; nothing waits for ever |
| Submission API, `services/submission_api/main.py` | `submission:<id>` in Redis, containers, tasks | submit, test/start, test/complete, DELETE, the load-test task | a test fails for a reason; containers and routes belong to a record; stopping is final; running ends |
| Proxy, `services/ws_proxy/main.py` | `UPSTREAMS`, in memory; two tasks a connection | register, unregister, connect, forward | a submission that was answered can be connected to, and to its own container; a connection is a wire |
| Leaderboard, `services/ingester/main.py`, `services/frontend/src/lib/redis.ts` | the sorted set `leaderboard` | read the rate, `zadd`, fetch | a validated rate gets shown; what leads is a validated rate |
| Scoring, `shared/scoring.py` | none | the composite and its four parts | better never scores less |
| Builder, sandbox, pages, Locust, metrics, scripts | none the others see | I/O | not modelled, but for a build that is refused |

Components share Redis and nothing else; within a process, coroutines share
memory and interleave at `await`s only. What is hard here, and hard to test:

* writes the bot starts as tasks and never awaits, so that streams grow after a
  test has ended, and in another order than the contestant saw;
* a validator and a flusher that read several things across awaits while all of
  them change, and remember what they read;
* a process that is killed between counting, saving an offset and flushing;
* acks that arrive after their timeout, connections that break under a test, and
  a proxy whose two tasks each hold a frame when a leg goes;
* streams that Redis trims, and a replay that reads the head of one only;
* containers, routes and addresses that three processes keep account of, none of
  them together with another;
* handlers of one submission that interleave, and memory (routes, tasks) that a
  restart loses;
* a heap whose list is filtered in place, and order ids that are used again.

`PROJECT.json` lists these as hazards, each at its line with the properties that
look at it.

## Modules and the code they model

**Heapq** states what `heappush` and `heappop` leave in a list, position by
position and without loops, so that proofs can use it. **MCHeapq** has CPython's
loops beside it, a loop as the function from a number of turns to the state after
them; TLC compares the two on small lists, and OperatorProofs proves them equal on
every list.

**MatchingEngine** is the reference engine. An `Order` object is its index
(handle) in `objs`; `orders` is the dict, `buys` and `sells` are the heap lists
with entries `<<rank, handle>>`, as the sort key has them. `AddLimit` and
`AddMarket` make the object and enter it in the dict; after that each turn of the
loop of `_match` is a step: `DiscardStale` (the best object's id is not in the
dict), `MatchBest` (a fill at the maker's price, and push-back or deletion), and
after the loop `Rest` or `Done`. `Cancel` filters both lists and does not
heapify. Nothing keeps a caller from using an id again: histories with a reused id
are followed up to `MaxReused` orders, the others up to `MaxOrders`. `withdrawn`
is a history variable: objects whose owner was told True.

**OrderBook** is the abstract book: sets of orders, no heap, no ids. An order
trades with the one that has priority as long as prices cross. After a cancel it
promises only that an order trades with orders it crosses; once two orders have
shared an id it lets resting orders vanish (`Lose`), and a cancel take all that
share it. `ImplementsOrderBook` is the refinement, by the mapping in
`MatchingEngine`.

**ExampleEngine** is the contestant shipped as a model answer, a message as one
operator (its handler awaits nothing inside). `Turn` is a turn of the loop of
`add_limit`, `After(s)[n]` the set of where `n` turns lead, `End` the state in
which the loop goes on no more. **EngineAgreement** feeds both engines the same
messages.

**CorrectnessPipeline** is the way to a correctness score: the bot's sends and
acks, its three kinds of write that land later, the end of a test and the start
of another, and the validator with one step for each Redis call and for each
turn of its replay. The connection may break (`ConnectionBreaks`) and an ack be
waited for in vain (`AckTimesOut`). An order whose send fails (`SendFails`) is in the
stream all the same, and an order without an ack leaves an event and no fills
(`RecordNothing`); an ack that comes late is taken for a later order's, and at the end
of a run it is left unread. What the contestant was sent over the connection of an
earlier test it may still serve (`ServeOrphan`). `MarkTest` is `POST test/complete`
with both of its answers, at any time, also while a test sends. `owed` is a history
variable, the number of orders sent when a test was first said to be completed, and
`lossAt` another, the first test that lost an order or an ack. `Setup` says in what
surroundings: how many orders and tests, an honest contestant or an echo, writes in
order or not, how many entries a read returns, and how many troubles there are. Both
engines serve fresh limit orders alike (that is what EngineAgreement shows), so one
operator serves for both. A fill is named by order numbers.

The tests of a submission come one after the other here, which is a bound: `test/start`
does not look whether one runs, and SubmissionLifecycle has tests that overlap. A test
that cannot connect sends nothing, and is here only the mark it leaves.

**LiveBoard** composes it with the ingester: `flush_snapshots` reads the rate from
the JSON or, failing that, the hash, or takes 1.0, and adds a member to the board;
`Top` is what `fetchLeaderboard` puts first.

**LimitOrderBot** is the bot alone, with a socket: `run_once` as `SendOrder`,
`SendFails`, `Deadline`, `Joined`; `_recv_loop` as `TakePending`, `Receive`,
`ReceiveNothing` and `ReceiveUnexpected`, the frame that is JSON and no ack, after
which the loop is dead and `pending.join()` waits. The contestant answers in order
and in its own time, and may die without the bot's noticing; the connection may
break, which loses what is under way.

**ProxiedBot** puts the proxy in between: `proxy_ws` with its two forwarding tasks,
each a step to take a frame and a step to hand it on, FIRST_COMPLETED and the
cancellation, and the closing of both legs. `ProxyIsAWire` is a refinement: mapped
to one connection (what the legs and the tasks hold, in a row), every behaviour of
the bot behind the proxy is one of LimitOrderBot. The bot's own properties are
checked here, behind the proxy.

**Ingester** has `consume_loop` and `flush_snapshots` as two program counters over
shared trackers: an action is a stretch from one await to the next. Redis
variables survive `Crash`, the others do not. `Emit` may trim the stream, never below
`MaxLen`; a read then begins at what is left (`ReadAfter`). `times`, `processed`, `published`
and `lost` are an observer's counts. A histogram is the number of values it holds.

**SnapshotQueue** is the third coroutine, `db_writer`, and the queue that feeds
it. Rows are numbered as they are made. Both drop policies are initial states.

**SubmissionLifecycle** has the API's handlers cut at their awaits, the load-test
tasks and the DELETEs of a submission counted by stage (any number may be under
way), the proxy's routes, the containers with
their addresses, and restarts of the API and the proxy. Each write to Redis may raise,
done or not: the one of a submit (`SaveFails`), of a start (`SpawnFails`), of a DELETE
(`SaveStopFails`), and those of a test (`TaskRaises`, `ReportLost`). `isolated` is the setting
of the network. A stage "broken" is a task whose connection is lost: the proxy
accepts before it connects upstream, so the bot does not notice; "stuck" is one
whose bot hangs (`ReceiveUnexpected` in LimitOrderBot). An address may be given to a
container when the one that had it is gone. `faulty` has the submissions a call
has failed for, `unreported` those for which it was a write of `test_status` by a start
or by a test.

**Scoring** is `shared/scoring.py` in whole tenths of a point; **MCScoring** is a
grid of measurements.

`MCFunctions` and `MCLiveBoard` only instantiate for TLC. The modules whose names
end in `Proofs` hold the theorems: one per component, `ScoreProofs` for the pipeline,
the leaderboard and the scoring formula, `OperatorProofs` for heapq and what the
others share. Operators
marked "variant for mutation runs" are plausible bugs that the runs must notice;
nothing else uses them.

## What the runs check

Passing runs:

| Run | Bounds | What it shows |
|---|---|---|
| `functions` | lists of up to five keys of three ranks, from heaps with any one entry taken out, so heaps or not; 2,625 measurements around every threshold | `AgreesOnAnyList`: the closed forms of heapq leave what CPython's loops leave; `BetterNeverScoresLess`: no improvement of one measurement lowers the composite |
| `engine` | four orders under fresh ids, or three with ids used again; two prices and market prices, quantities 1 and 2, cancels | `NoTradeThrough`, `QuantityConserved`, `DictMatchesBooks`, `NotCrossed` before a cancel, `CancelledNeverTrade`; `ImplementsOrderBook`; `SameOutcome`: the same fills and the same rest as the example contestant |
| `pipeline` | honest: a test of four orders that cross twice, two tests of two orders under a read cap of three, a test of two with a trouble; an echo in a test of three with a trouble; two tests of an order each with late, overtaking writes and a trouble; an echo in a test of two with the ingester at work. A trouble is a failing call, a broken connection, a lost ack or a mark | `PrefixesAgree`, `EveryOrderScored`, `ArrivalsScored`, `EchoGetsHalf`, `ValidatedIsShown` |
| `ingester` | two submissions, three events, batches of two, trimming to two, one crash | `NoEventSkipped`, `OncePerProcess`, `WindowAccounting`, `ErrorsCountedOnce`; `EveryEventCounted`, `WindowIsFlushed` |
| `queue` | six rows of two submissions, a queue and a batch of two, one crash, both policies | `RowsInOrder`, `RowsAddUp`, `CorrectnessIsLatest`, `OnlyOldestDropped`, `RowsAreSettled` |
| `lifecycle` | two submissions, two addresses, both networks; three requests to start a test or to DELETE, and two troubles out of: a contestant that dies, a failing call, a bot that hangs, a restart of the proxy or the API, a mark | `FailsForAReason`, `HeldByARecord`, `ConnectsToOwn`, `StoppedIsFinal`, `RunningEnds` |
| `bot` | three orders through the proxy; deaths, broken legs and unreadable frames | `OneEventPerOrder`, `AcksInOrder`, `RunReturns`, `ProxyIsAWire`, `LegsFallTogether` |

Each module's type invariant is checked with it.

Why these bounds: four orders are the least for a cancel to leave a list of two
or more that is no heap and for another order to meet it, and for a partially
filled maker to be pushed back among others; in `pipeline` two orders are the least
that cross. Market orders add two prices to the
two limits, so that orders cross, meet and miss. Three orders suffice for an id
to be used again while an object under it is stale, and be cancelled. A cap of
three under four orders leaves one unread that crosses. Three events in batches of
two need two reads of a stream, a crash fits into every await of the first, the
second, and the flush between them, and a stream of three is trimmed to two while
the reader is behind. Six rows overflow a queue of two while a batch of two is
written. With two troubles a container can die and the call that would have
cleaned up after it fail, or a proxy restart under a stop; the second submission
shows that what happens to one leaves the other alone, and takes the first one's
address; three requests are two DELETEs of one submission with a test, or two tests with
a DELETE. The `pipeline` run has 406,000 distinct states and `lifecycle` a million, which
is what their number of surroundings and troubles was chosen for. Three frames fill both hands of the proxy with one more on a leg.

The runs do not check for deadlock: when its bounds are spent a model has nothing
left to do. Where getting stuck would matter, a liveness property says so.

## Fairness

Every fairness condition is weak, and on disjunctions of one process's steps: a
process runs, and which of its own steps it takes is fixed by its program counter.

* `Ingester`, `SnapshotQueue`: the event loop resumes every coroutine, its timers
  expire, Redis and the database answer, and Docker restarts the container
  (`restart: unless-stopped` in `docker-compose.yml`). Crashes are not fair.
* `CorrectnessPipeline`: the bot sends, its tasks get done, an ack that is waited for
  comes or the connection is gone, the validator polls for ever. Failing calls, losses,
  marks and further tests are not fair. `LiveBoard` adds that the
  ingester's coroutines run.
* `LimitOrderBot`: the deadline and the five-second timeouts come. The contestant
  need never answer. `ProxiedBot` adds that the proxy's event loop runs its tasks, and
  that a bot that has ended closes its connection (`async with`).
* `SubmissionLifecycle`: a handler or task that waits is resumed. Requests, failures
  and restarts need not come. A bot that hangs is not resumed, so `RunningEnds` leaves
  out a test that is stuck, as it does a restart of the API and a write of `test_status`
  that raises, in a start or in the handler of the task's exception; any other failing
  call, of Docker, of the proxy or of the task itself, it does not excuse.

## Findings

Five runs state what a document says and are violated by what the code does:

* `engine_priority` (`PriceTimePriority`): `cancel` filters the list and does not
  heapify the rest, so that `book[0]` need not be the best order and the next
  order is matched with another one.
* `ingester_lost` (`ReachesBoard`): the offset is saved before the window that
  holds the events is flushed; after a crash in between they are on no leaderboard.
* `lifecycle_kill` (`KilledTestFails`): errors of the connection are swallowed by
  the bot, so the test of a contestant that is killed ends as completed.
* `board_echo` (`EchoTopIsPartial`): flushes before the first validation publish the
  default rate 1.0, each flush adds a member, and none is removed; an echo leads the
  board with full correctness after its partial credit is stored, too.
* `bot_acks` (`AckOfOwnOrder`): acks are paired by position; after a timeout each ack
  is taken for the next order's.

The models also contain the following, which no run is about. A market order that
finds too little liquidity rests in the book at `inf` or `0.0`, where
DESIGN_DOCUMENT.md:158 has it cancelled. The validator skips a stream whose length
it has seen, although fills may have arrived since; it remembers a completed test
for ever, so that late orders of a second one are skipped, and so that a test which
`POST test/complete` calls completed while it sends (`tests/integration/full_loop.py:84`
does, some 23 seconds into a test of 30) may be scored for its first orders only, with full
marks for an echo that had sent fewer than two; it reads 10,000 orders
and no more. Order writes may overtake each other, and the replay is then of other
orders of arrival than the contestant had. An order whose send failed is replayed, and
the fills of an ack that timed out or was left unread are never copied, so that from
the next test on an honest contestant's fills are compared with those of another book,
or at other positions. The window's reset wipes events counted
since its snapshot (`lost` counts them). A rate that is stored after the last event
of a test was flushed gets on no board. A submit whose registration fails leaves
its container. A frame that is JSON and no object kills the bot's receiver, and the
test never ends. On the bridge network the rewritten address names the proxy, so
that every test started from the page fails.

Noted while reading the code, and in no property: percentiles are over the life
of the process, since `reset_window` resets no histogram; events without an ack are
counted twice in the attempts of `error_rate`; a contestant that never answers has a
p99 of 0 and all speed points; DESIGN_DOCUMENT.md:177 scores the p99 of intended
requests, the code that of actual ones; `stability_score` caps the variance penalty
at 50 points, which SCORING.md's formula does not; the image is built on the event
loop that also runs the bots, so that a build lets their timeouts expire.

## What is proved

For every value of the constants, every invariant that a passing run checks is a
theorem; so is every action property, and so are both refinements. No property that
needs fairness is; of those the theorems have what they rest on besides fairness
([below](#the-safety-part-of-liveness)). A theorem rests on the assumptions its modules declare: bounds are
naturals, sizes of reads and batches at least 1, prices and quantities positive and
`Infinity` above the prices, `None` (in the lifecycle, in the ingester and in the
pipeline) and `NoAck` no value of what they are told apart
from, and every member of `Setups` a surrounding of the form `Setup` has. TLC evaluates
them on every run.

**OperatorProofs** has what the others use. The library's induction theorems take an
operator and cannot be instantiated here, so induction over numbers and over finite
sets is proved from the well-foundedness of `<` in a form that takes a set; it gives
what adding, removing and changing an element does to a sum (`SumFunctionOnSet`), and
that the recursive functions of the models are what their equations say. `HeadIsLeast`,
by strong induction along the parents: the first entry of a heap is its least.
`PushAddsOne` and `PopTakesFirst` hold of every list, heap or not, which is what a list
is after a cancel; `PushKeepsHeap` and `PopKeepsHeap` of heaps. Push moves entries down
a part of the way to the root, pop moves entries up a path of smaller children; that
these are stretches without gaps is the main lemma of each. `PushIsLoop` and `PopIsLoop`:
CPython's `_siftdown` and `_siftup`, turn by turn, leave what the closed forms say, of any
list. The invariant of each loop says where its hole is and which entries it has moved;
`_siftup` goes down to a leaf without looking at the item and comes back up, which is the
closed form's path cut off where the item fits. `LoopsAgree` is `AgreesOnAnyList` from it:
what is proved of the closed forms is proved of heapq's loops. The example's loop comes to an end on every
order (`LoopEnds`): every turn but the last takes an order out of a finite book.

**MatchingEngineProofs**, for any ids, prices, quantities and number of orders, with or
without cancels and reused ids:

* `TypeCorrect`. `TypeOK` is inductive as it stands, because it says not only that books
  are lists but that each entry is the sort key of an existing object of that side.
* `FillsRespectLimits`: the best entry is of the other side, the price check looked at
  that same object, and prices never change. No heap order is needed, so this stands
  after a cancel has broken a heap. `QuantityIsConserved`: both sides of a fill lose
  what the sum over the fills gains. `CancelIsFinal`, from `WithdrawnGone`: a withdrawn
  object is in no list and is not the taker. That the dict has no entry for it would
  not be inductive, since the id may be used again.
* `BooksAgree`, the inductive invariant `BookInv` of every turn of the loop: no object
  stands twice, the taker is in no list, what rests has quantity left, a key of the dict
  leads to an object of its id, and until the first cancel the lists are heaps and do
  not cross. Its consequences between calls are `BooksDoNotCross` (the loop stops at the
  head, which is the best only in a heap) and `DictAndBooksAgree`.
* `EngineKeepsPromise`: every step of the engine is one of `OrderBook` or a stutter.
  The head of the heap is the order with priority until a cancel, a crossing order
  after it, and an order of an id used again is one that `Lose` may take.
* `EnginesAgree` (`SameOutcome`). Between calls the example's state is the picture of the
  reference's (`ShownEngine`). Within one the example has served the whole order and the
  reference has done some turns; `AgreeInv` then says that the turns it has left lead to
  where the example is (`Ahead`), so that each turn of the reference uses up one of them.
  The head of a heap is the head of the sorted list, hence the restriction to histories
  in which the lists have stayed heaps.

`MatchEnds`: the loop of `_match` has no more turns than the book has entries, and one
(`TurnsLeft`). `FillsAreOfSomething`: no fill is of nothing and no order is filled with
itself, since what rests has quantity left. `PriorityHoldsUntilCancel` marks off the
finding `PriceTimePriority`: until the first cancel every fill is with the order that
has priority.

**ScoreProofs**: `HonestFillsAgree` and `HonestFillsAgreeOnBoard` (`PrefixesAgree`), for
tests of any length and number, one after the other, any cap and any failures, up to
the end of the first test with a loss. There is a log of the engine
after each number of orders; fills are only ever appended, so any two of its states have
fills of which one list begins the other. In order, the contestant's engine, its stream
of fills, what the validator read of it and what it replayed are each the head of a
state of that log, at different numbers of orders, and that is all they need to be. The
contestant's is, because up to the end of the test with the first loss nothing is missing
in the middle (`LinkInv`): the orders it has served come first, those whose acks can still
be read next, and what a broken connection has taken last; it serves those in a later
test at the earliest, of which nothing is claimed.
`HonestIsOnlyDockedForMissingFills` gives the rate that is stored for an honest contestant
under the same conditions. `BetterIsNeverScoredLess` takes any integers as measurements.

`SkipsOnlyScored` holds whatever `test/complete` claims and however often. Its invariant
`CoverInv` says which orders a stored score has replayed when it is taken as final: those
in the stream when the validator read that the test was completed, hence all that were
sent before a test was first said to be (`owed`). `EchoNeverGetsMore`, with
`FlusherReadsHalf` on the ingester's side, gives the rate of an echo: half at most from
the first validation on that replays two orders, and under both keys once a test that
was first said to be completed after two orders has been validated (`Settled`). Without
that condition the rate may be 1.0 for good.

**IngesterProofs**, for any submissions, numbers of events, read sizes, trimming and
crashes:

* `OffsetsSkipNothing` and `CountedOncePerProcess`, from `OffsetInv`: what xread has
  returned begins after `last_ids` and passes over trimmed events only (`ReadAhead`),
  both offsets cover events that were counted or trimmed (`OffsetsCovered`), and events
  above `last_ids` have been counted by dead processes only (`CountedHere`), which is
  what a crash turns into the next process's start.
* `TypeCorrect` needs that the window of a snapshot under way is still in the tracker
  (else its reset would count below zero). `OffsetsNeverGoBack` is over crashes too: what
a process starts at is what was saved. `WindowsAddUp`, and `NoErrorChargedTwice` from
  `ErrorInv`: between reading the error count and wiping it the count only grows.

**SnapshotQueueProofs**: `TypeCorrect`, `TableInOrder`, `NoRowUnaccounted`,
`UpsertsKeepLatest`, `DropsTheOldest`. `OrderInv` lines up table, batch and queue;
`LatestInv` says of a half-upserted batch that the correctness rows are the latest of the
rows whose turn has come.

**SubmissionLifecycleProofs**: `TypeCorrect`, `NothingLeftOver`, `RoutesLeadHome`,
`FailuresHaveReasons`, `StopIsFinal`. `AddressInv`: a route is to its own container's
address, and no two containers that are up share one. `HandlerInv`: what a submit and a
DELETE have done by each of their awaits, unless a call failed; for several DELETEs at
once it is enough that each of them has removed the container before it waits, and one
that is about to write has removed the route. `ReasonInv`: a submission
that is saved has a route, or a cause that it has none.

**LimitOrderBotProofs** and **ProxiedBotProofs**: `EveryOrderRecorded` from `CountInv`
(an order sent waits or has an event, except one whose answer ended the receiver);
`AcksKeepOrder` from `PairingInv`: what waits and what is under way are ascending, and
the i-th ack to come is for no order after the i-th that waits. `ProxyCarriesAll` is
the refinement `ProxyIsAWire`: with `RelayInv` every step of the proxy's tasks is a step
of the wire, the loss of the connection, or a stutter. The bot's theorems then hold behind the
proxy without a proof of their own.

### The safety part of liveness

A liveness property says that something comes about under fairness; neither fairness's
`ENABLED` nor the step from it to `~>` can be proved here. What can be is that the code
does not go round in circles and forgets nothing: a natural number that every step of the
process makes smaller and that only its input makes larger (a ranking), and an invariant
that says that whatever is still owed is in the process's hands.

| Property, model-checked | Theorems it rests on, for every value of the constants |
|---|---|
| `RowsAreSettled` | `WriterRunsDown`: each step of `db_writer` leaves fewer, and only a new row adds one; `NoRowIsKeptBack`: with no step left, every row is settled |
| `WindowIsFlushed` | `RoundsEnd`: a flush round ends, and passes only windows it leaves empty; `NoWindowIsForgotten`: no window with events is out of its sight |
| `EveryEventCounted` | `EveryReadMovesOn`: there is always a stream of the answer left to handle, and handling it moves its offset ahead |
| `RunningEnds` | `TestsRunDown`: each step of a test or a DELETE leaves fewer, however handlers interleave; `RunningTestsAreHeld`: a submission shown as running has a test that is there, unless the API restarted or a write of `test_status` raised |
| `RunReturns` | `RunsComeToAnEnd` and `ProxiedRunsComeToAnEnd`: each step of bot and receiver leaves fewer; `JoinHasAnAnswer`: the join is answered while the receiver lives; `NothingIsDoneDeaf`: and never after, which is why the property leaves those runs out |
| `LegsFallTogether` | `RelayComesToAnEnd`: each step of the proxy leaves fewer (a frame is worth the steps it has before it, to the contestant and back as an answer), and when it is over both legs are down |
| `EveryOrderScored`, `EchoGetsHalf` | `SkipsOnlyScored`: a poll that passes a submission by leaves a score that covers all orders in the stream, or all that were owed; `EchoNeverGetsMore` |

Every formula among them was checked by TLC on the instances of the runs before it was
proved. Only model-checked are the properties of the left column themselves, and
`ArrivalsScored` and `ValidatedIsShown`, whose validator polls for ever and has no number
that runs down.

## What is not modelled

Sandbox options, metrics and scripts are constant data or I/O. Of the image builder
there is that a build may be refused, of the frontend the order in which it lists
entries; the rest of both is I/O, and keeps nothing that others see. The Locust
generator's one user class is marked `abstract`, so locust runs no user of it;
started otherwise it writes events only, which is `Emit`. Trimming of `orders:<id>`,
which begins at 50,000 entries, after the validator's cap, the time between slots,
and the content of histograms are left out. Fills have no `ts` in the models; floats
are ticks or tenths.

## Plan

What is left, in order of what matters to the system:

1. Compose lifecycle and bot, so that a test ends because its bot does, and let the tests
   of CorrectnessPipeline overlap.
2. Look at several submissions on one leaderboard.
3. A ranking for one poll of the validator and one round of the flusher together, the
   safety part of `ValidatedIsShown`.
