# A verification of the Polymarket paper-trading agent

This directory models the trading core of the repository in TLA+, checks it with
TLC on small instances and proves part of it with TLAPS.  Source paths below are
relative to the repository; services live under `services/`.

## 1. The system and its parts

| part | source | state it keeps | operations | talks to |
|---|---|---|---|---|
| market state | `market-state/src` (`marketStateStore`, `statePublisher`, `cli`) | books in memory, `market#*` and `health#market-data` rows | apply a message, publish in sequence, record health | Polymarket channel -> current-state table |
| account state | `market-state/src/accountStateStore.ts`, `accountSnapshot.ts` | `account#*` rows: snapshot and health | refresh, reconcile | Polymarket data API -> table |
| proposal generation | `openclaw-control/src/proposals.ts`, `trade-core/src/proposals.ts` | none | search baskets, validate a proposal | reads market, health and operator rows |
| allocator | `trade-core/src/allocator.ts` | exposure, in memory of one cycle | rank, compute capacity, reserve | called by the cycle |
| risk kernel | `trade-core/src/risk.ts` | none | halt, reject, resize, approve | called by the cycle |
| execution planning | `trade-core/src/execution.ts` | none | style, limit prices, sizes | called by the cycle |
| decision cycle | `openclaw-control/src/decisionCycle.ts` | `execution_intent` rows, the decision ledger | one run from reads to writes | schedule or Slack -> table -> worker |
| execution policy | `trade-core/src/executionPolicy.ts` | none | what to do about an intent now | called by the worker |
| execution worker | `execution-worker/src/worker.ts`, `cli.ts` | `execution_action` and heartbeat rows | one tick: flatten, or reconcile, evaluate and apply intents | reads intents, operator, market |
| paper broker | `execution-worker/src/paperBroker.ts` | `paper_order`, `paper_fill`, `paper_cash`, `paper_position_state`, `position_snapshot` rows | place, cancel, fill, flatten | called by the worker; the snapshots feed the allocator |
| operator control | `openclaw-control/src/commands.ts`, `openclaw-runtime/src` | `control#operator` row, its ledger | pause, resume, flatten, mode | Slack -> table -> cycle and worker |
| stores | `openclaw-control/src/store.ts` | the two DynamoDB tables | get, put, prefix scan | everyone |
| order reconciler | `trade-core/src/reconciler.ts` | filled sizes and plans, in memory | order and trade messages to order events | nothing constructs it yet |
| heartbeat manager | `trade-core/src/heartbeat.ts` | last sent, last acknowledged | send, acknowledge, report | nothing constructs it yet |

The parts share no memory.  They meet in the *current-state table*, row by row,
without transactions, conditions or locks: the decision cycle publishes an
intent, a later worker tick picks it up, books what happened in its own rows and
refreshes the position snapshot, and a later cycle reads that snapshot as
exposure.  The operator's row is read by the cycle (twice) and by the worker (at
the start of each tick).

What is hard in it:

* every handler is a sequence of awaited reads and writes, and may end between
  any two (an exception, a deployment, a dead container); nothing is undone;
* Slack messages are handled concurrently, and a cycle may run beside another;
* rows are written back whole from a copy read earlier;
* orders, fills, positions, cash and snapshots are five tables that must agree;
* an order's life (rest, partial fill, pull, cross, expire) spans many ticks and
  every tick decides anew from the rows;
* money is rounded to the cent at some steps and not at others.

`PROJECT.json` lists each hazard at its line with the property that covers it.
What makes each part correct, in one line:
*policy and broker*: a leg never takes more than planned and never rests twice,
terminal orders stay as they are, expired orders are pulled;
*ledger rows*: orders, fills, positions, cash and snapshots tell one story, and a
crash spoils no more than the fill it hits;
*operator*: a stop is taken back by a resume only, a flatten gets the portfolio flat;
*allocator and risk*: no limit is exceeded by more than rounding, stopped systems
publish nothing;
*cycle*: an intent the worker can see has its decisions behind it;
*search*: the edge a proposal states is locked in, however its event resolves;
*feeds*: a health row does not claim more than the table holds, and a poisoned
publisher is replaced;
*reconciler*: whatever is repeated, it ends up where the exchange is.

## 2. The modules

| module | models | EXTENDS |
|---|---|---|
| `Money` | cents and notional units, rounding, quotes | |
| `PaperBroker` | the broker's pure functions over orders, positions and cash | `Money` |
| `ExecutionPolicy` | `evaluateExecutionAction` | `PaperBroker` |
| `ExecutionWorker` | the tick with every awaited write of the broker as an action; operator, intents, market, clock and crashes around it | `ExecutionPolicy` |
| `PaperAccount` | what the broker promises, with no tick in it: mandates, orders, trades, quantities, balance | `Money` |
| `WorkerAccount` | the refinement mapping from the worker's rows to a `PaperAccount` | `ExecutionWorker` |
| `Allocator` | validation, rooms under the limits, reservation | `Money` |
| `RiskKernel` | halts, rejections, resizing | `Allocator` |
| `ExecutionPlanning` | `buildExecutionIntent` | `RiskKernel` |
| `DecisionCycle` | overlapping cycles from the first read to the last write; operator, market and the writers of position snapshots around them | `ExecutionPlanning` |
| `OperatorControl` | overlapping Slack messages: read, write, log | |
| `MarketFeed` | the market half of market-state's `loop`: sockets, delivery, publisher, process | |
| `AccountFeed` | account polling in `loop` and `account-stream`, the one-shot `account-snapshot`: refresh, store, rows, process | |
| `ProposalSearch` | `proposals.ts`: baskets, exclusivity, edges, the proposals of one search | `Money` |
| `OrderReconciler` | `reconciler.ts` against an external exchange | |
| `MC*` | values of the constants for TLC | the module named |
| `MoneyProofs` | lemmas about rounding and about sums over finite sets | `Money`, `TLAPS` |
| `ExecutionWorkerProofs` | types, the orders of a plan, the sums over the rows, the refinement | `WorkerAccount`, `MoneyProofs` |
| `DecisionCycleProofs`, `ProposalSearchProofs`, `MarketFeedProofs`, `AccountFeedProofs`, `OperatorControlProofs`, `OrderReconcilerProofs` | theorems | the module named, `TLAPS` |

**Data.** Prices are small integers (ticks), sizes are integers, and a
*notional unit* is price times size; `UnitsPerCent` of them make a cent, so that
rounding to the cent is a real, lossy step (`RoundUsd`, half up).  Contracts,
complexes and plans are names.  Timestamps are a clock that only the model's bound
stops.  Identifiers made by `randomUUID` are the index of a row (orders, fills) or
the row's contents (ledger).

**`ExecutionWorker`.** One variable per table (`orders`, `fills`, `cash`,
`positions`, `snapshots`, `intents`, `operator`, `actions`), and the tick's local
variables: `pc`, the operator state read at the start (`seen`), what is left to do
(`rows`, `work`, `pending`, `toClose`, `touched`), the cash copy the apply loop
carries (`held`) and the fill being booked (`txn`).  A tick is `BeginTick`,
then either the flatten path (`FlattenCancel`, `FlattenCancelled`,
`ClosePosition`, `FlattenSnapshot`, `EndFlatten`) or, for each of the newest
`MaxIntents` intents, `LoadIntent`, `ReconcileFill`*, `FinishReconcile`,
`EvaluateIntent`, `ApplyNext`*, `FinishApply`.  Booking a fill is three writes,
`PersistFill`, `PersistPosition`, `PersistCash`, in the order of `applyFillToPortfolio`.
`Crash` may strike in any state: memory is lost, rows stay.  Since the market is
read once per intent and any quote may be returned, `Quotes` stands for every
movement of the book between reads.

**`PaperAccount` and `WorkerAccount`.** The account knows no ticks, reads or separate
rows: a plan is a mandate for its legs, an order is placed within what its mandate has
left and with no other order open on the leg (or closes a position), a trade moves order,
fill, quantity and balance in *one* step and at the limit or better, and an
interruption may leave a beginning of a trade.  The worker books a fill in four writes.
The mapping shows the account the rows as they were before the booking until the cash is
written: the order without its fill (or without the order, when it was placed to be
crossed), the fills without the last, the quantity without the position already moved.  So
the first three writes of a booking are stutters, the last is `TradeResting` or `Take`,
and a crash in between is a torn trade.  `ImplementsAccount` is the account's whole
specification, its initial states included.

**`DecisionCycle`.** Each cycle is a process: `ReadOperator`, `Propose` (which reads
the operator row again), `LoadExposure`, `AllocateNext` per proposal, `Assess` per
forwarded allocation with the market read for it, `Plan` with the market read
*again*, `BeginWrites`, then `WriteNext` per row in the order of the code; `Fail`
ends it at any await.  A leg without a price disables `Plan`, and the cycle can
only fail, as the exception does.  Around the cycles two services write position snapshots,
each put taking the place of the row before: the paper broker for the complexes that
intents have led to (`UpdateAggregatedPositionSnapshot`) and market-state for what the
account holds (`UpdateAccountPosition`, under another name for the complex).  A snapshot
is a mark, quantity at the price of the moment with the reserve of open orders beside it,
so the row may come to show any of `Marks`, whatever was planned: less after a partial
fill, a cut to the cash, an expiry, a flatten or a fall of the price, more after a rise.
`unseen` records, scope by scope (altogether, sleeve, complex), the most that a cycle's
loaded exposure left out of the intents published by then, and `overlapped` whether a
cycle loaded it beside another; no action reads either.

**`OperatorControl`.** A message is a sequence of commands, each a read, a write
of the whole row and a ledger write; handlers run concurrently and may end anywhere.

**`MarketFeed`.** The loop is `BuildUniverse`, `Publish` of the universe, `Connect` and
`EndWindow`; it awaits one stream (`current`), but `stream` may hold others that were
rejected and whose sockets nobody closed.  A stream is its socket, how its promise is
settled, the payloads its `deliveryQueue` has not handled (`inbox`), its
`MarketStateStore` (`books`, `latest`) and the envelopes of the payload in hand
(`unsent`).  `queue` is the publisher's `publishQueue`: each of its users awaits, so
it waits at most once.  `broken` is that promise rejected, which only a new process
heals; and a process whose `main` has failed lives on while a socket is open.  Of a
market row only the timestamp is kept; an array of events is a row of payloads.

**`AccountFeed`.** A process runs one of three commands.  `BeginRefresh` takes the time
stamp; `Answer` is one of the four requests coming back, in any order and at any time;
`FetchFails` any of them failing.  `Apply` is `store.apply` with the list of envelopes to
publish, in the order of the command; `Publish` is one of them reaching the table,
`PublishFails` one failing (with or without its row written) and everything after a
failure of either stream.  `Report` computes the health.  A position row is keyed by the
event, as `stateKeys.ts` does, so that two outcomes of one event share it.  An answer is
abstracted to the instant it was given, the contracts held and whether it has a defect
`evaluateSnapshotIssues` would report.

**`ProposalSearch`.** No concurrency: a board of market rows is chosen, and `Analyze` is
one call of `analyzeCrossMarketConsistency`.  A question is what `exclusiveQuestionKey`
makes of it.  Proposals of the same edge come out in any order (`BestFirst`), as the sort
leaves them in that of the rows.  The properties quantify over `Resolutions`, every way
the events may turn out.

**`OrderReconciler`.** `book` and `sent` are the exchange and the stream it has sent;
`orders` and `contractToPlanId` the two maps of the class.  `Deliver` is `ingest` of
the next message.  `Reconnect` sets the stream back to any earlier message, `Restart`
is a new object.

## 3. What the runs check

| run | question | size |
|---|---|---|
| `worker_one` | one intent (buy or sell) through every phase, three kinds of quote, two operator commands, expiry, one crash; with the refinement and liveness | 0.56 million states, 90 s |
| `worker_two` | two plans, one of two legs, sharing contract, cash and complex; a tick takes only the newest | 0.41 million states, 90 s |
| `control` | two messages at a time of one or two commands, failing anywhere | 0.95 million states, 8 s |
| `cycle` | two cycles, overlapping or not, three proposals in three complexes and two sleeves, a stop or resume and two position snapshots at any time | 1.31 million states, 70 s |
| `market` | windows of the market stream, failing, closing and being left behind; a publisher that breaks; kills and restarts | 0.91 million states, 75 s |
| `account` | account refreshes by three commands, two faults of any kind, a clock past the tolerance | 1.52 million states, 60 s |
| `orders` | two orders of three units, two matches, two reconnections or restarts | 1.32 million states, 20 s |
| `search` | boards of two or three markets listed in every way, and of two events | 40 thousand states, 5 s |
| `worker_pause`, `worker_flat`, `control_stop`, `market_stale` | each refutes one sentence of the documentation (section 6) | |

Properties (their comments in the modules say precisely what each means):

* `worker_one`: `TypeOK`, `NoOverfill`, `OneOpenPerLeg`, `CrashSpoilsOneFill`,
  `CashBalances`, `NoOverdraft`, `SnapshotCurrent`, `TerminalOrdersFrozen`,
  `CompletedIsFinal`, `NoRestingAfterExpiry`; the refinement `ImplementsAccount`; and
  the liveness properties `FlattenGetsFlat` and `ExpiredOrdersPulled`.
* `worker_two`: `NoOverfill`, `CashBalances`, `NoOverdraft`, `SnapshotCurrent`
  where plans compete, and `ExpiredOrdersPulled` where a tick does not take them all.
* `control`: `TypeOK`, `FlattenImpliesPaused`, `RowExplained`, `StopsStand`.
* `cycle`: `TypeOK`, `WithinLimits`, `LimitsAcrossCycles`, `IntentsAccountedFor`,
  `NoIntentWhenStopped`, `CycleRowSettles`.
* `market`: `TypeOK`, `WindowComplete`, `RowsMoveForward`, `FeedRecovers`.
* `account`: `TypeOK`, `HealthyRefreshStored`, `ReportedFreshWasFresh`,
  `AccountRecovers`.
* `orders`: `TypeOK`, `ReconciledWhenQuiet`.
* `search`: `EdgeIsLocked`, `BasketsPlannable`.

**Bounds, and why they are enough.** A leg of size 4 against quotes of depth 2 or
unlimited fills in parts, so partial fill, pull and cross all happen; `UnitsPerCent`
of 2 or 4 makes both directions of rounding occur; starting cash of 4 cents is less
than the plan costs, so buys are cut.  The clock reaches the
expiry, which lies past the passive window.  One crash can hit each point of a tick
and be followed by complete ticks.  Two commands give pause, flatten and resume in
each order that fits.  `worker_two` has no crash and no command,
because its question is competition between plans; there the expiry is the end of the
passive window, so that a plan expires while an order of it rests and the other plan has
its place in the tick.  In `control` two handlers suffice for a
lost update, and a message of two commands for a report or a resume after a change.
In `cycle` two baskets of one sleeve exhaust the sleeve's and the gross limit, one of
another sleeve the limit of active sleeves, and two cycles for one basket the limit
of its complex; of the two books, which may change between approval and plan, one is
narrow enough to rest in and the other is crossed, and neither is deep enough for a whole
slice, so that larger grants are resized and smaller ones approved.  A leg without a price
ends a cycle as any failure does.  The limits lie between whole
cents.  The health checks never fail in that run, since a failing check has the same
effect as a stop; they are a constant of the module.  Two snapshots (`MaxUpdates`), of
two complexes or one replaced by another, leave the second cycle an exposure summed from several
rows; they show half of what was planned, so that it finds room that is not there, and an
account without snapshots may already be beyond the limit.  `CHECK_DEADLOCK FALSE` is set in
the cycle's configuration: each cycle ends.  `Cycles` is a symmetry set there,
and the run checks only invariants.
In `account` two faults are what it takes for a failure to be recorded and the recovery
from it to be interrupted, or for a defective answer to be followed by a lost one; the
clock passes `StaleAfter` within one refresh; two of the three contracts share an event.
In `orders` two matches of orders of three units leave partial fills, full ones, and a
maker and taker both ours; sizes of two orders suffice since an order's state depends on
its own messages only.  `CHECK_DEADLOCK FALSE` there: all orders may be placed,
matched and delivered.  In `search` a cheap, a fair and a dear price are bought, left and
sold; every way for a market to be left out occurs; a basket has up to three legs, and two
baskets compete for the order.
In `market` two sockets are what it takes for a stream left behind beside its
successor, and two payloads at two instants for one to be overtaken; a price change
that names both contracts is published as two rows, between which anything may fail.

**Fairness.** `FairSpec` of the worker assumes that the worker takes a step when it
can (`cli.ts` loops for ever over tick and sleep, and the service definition and
`restart: unless-stopped` start it again after a crash) and that time passes.
Nothing is assumed of the operator, the market, the publisher of intents or
crashes; the number of crashes is bounded, so the worker is not killed for ever.
`ExpiredOrdersPulled` is stated for plans that stay `Served`, that is, among the newest
`maxIntentsPerTick`: the code does leave the orders of older intents unattended while
newer ones fill the tick.  `FlattenGetsFlat` holds of every plan.
`FairSpec` of `MarketFeed` assumes of the process that its microtasks, timers and awaited
calls come, and of its surroundings three things the code leaves to them: a
connection attempt ends (no handshake timeout is set), the exchange closes a
connection that no longer pings (a settled stream has stopped its heartbeat and its
timer), and the platform starts the service again.
`FairSpec` of `AccountFeed` assumes that the process takes its next step (`WF(Poll)`): a
request is answered or fails, the deadline of a window comes, what ended is started
again.  Nothing is assumed of faults but their number.

## 4. What is proved

TLAPS proves, for every value of the constants that satisfies the named assumptions:

| theorem | says |
|---|---|
| `ExecutionWorkerProofs!TypeCorrect` | `Spec => []TypeOK` |
| `ExecutionWorkerProofs!NeverTwoOpenPerLeg` | `Spec => []OneOpenPerLeg` |
| `ExecutionWorkerProofs!TerminalOrdersStayFrozen` | `Spec => TerminalOrdersFrozen` |
| `ExecutionWorkerProofs!NothingRestsLate` | `NoRestingAfterExpiry`, if `PassiveResting <= IntentExpiry` |
| `ExecutionWorkerProofs!CashAlwaysBalances` | `Spec => []CashBalances` |
| `ExecutionWorkerProofs!CrashesSpoilLittle` | `Spec => []CrashSpoilsOneFill` |
| `ExecutionWorkerProofs!LegsNeverOverfill` | `Spec => []NoOverfill` |
| `ExecutionWorkerProofs!SnapshotsAreCurrent` | `Spec => []SnapshotCurrent` |
| `ExecutionWorkerProofs!CompletedPlansStay` | `Spec => CompletedIsFinal` |
| `ExecutionWorkerProofs!NeverOverdrawn` | `Spec => []NoOverdraft`, if `SmallPrices` |
| `ExecutionWorkerProofs!WorkerKeepsTheAccount` | `Spec => ImplementsAccount`, the refinement of `PaperAccount` |
| `OperatorControlProofs!TypeCorrect`, `!FlattenAlwaysPauses`, `!LedgerExplainsRow`, `!StopsAreKept` | the four properties of `control` |
| `MarketFeedProofs!TypeCorrect` | `Spec => []TypeOK` |
| `MarketFeedProofs!WindowsAreComplete` | `Spec => []WindowComplete` |
| `MarketFeedProofs!RowsNeverGoBack` | `Spec => RowsMoveForward` |
| `AccountFeedProofs!TypeCorrect` | `Spec => []TypeOK` |
| `AccountFeedProofs!FreshMeansFresh` | `Spec => []ReportedFreshWasFresh` |
| `AccountFeedProofs!HealthyIsStored` | `Spec => []HealthyRefreshStored` |
| `DecisionCycleProofs!TypeCorrect` | `Spec => []TypeOK` |
| `DecisionCycleProofs!StoppedPublishesNothing` | `Spec => []NoIntentWhenStopped` |
| `DecisionCycleProofs!IntentsAreAccountedFor` | `Spec => []IntentsAccountedFor` |
| `DecisionCycleProofs!CycleRowCloses` | `Spec => []CycleRowSettles` |
| `DecisionCycleProofs!CyclesKeepWithinLimits` | `Spec => []WithinLimits` |
| `DecisionCycleProofs!AllCyclesKeepWithinLimits` | `Spec => []LimitsAcrossCycles` |
| `ProposalSearchProofs!EdgesAreLocked` | `Spec => []EdgeIsLocked` |
| `ProposalSearchProofs!BasketsArePlannable` | `Spec => []BasketsPlannable` |
| `OrderReconcilerProofs!TypeCorrect` | `Spec => []TypeOK` |
| `OrderReconcilerProofs!Reconciled` | `Spec => []ReconciledWhenQuiet` |

Assumptions: `MoneyAssumption` (a cent has units), `BrokerAssumption` (starting cash
is a natural number), `PolicyAssumption`, `WorkerAssumption`, `PayloadAssumption`
(intents have legs of positive prices and name a contract once, which
`DecisionCycle` produces), `ControlAssumption` (messages are sequences of
commands, the default mode is a mode), and for the account feed `AccountAssumption`
(every contract has an event, positions are lists of contracts, the empty one among them)
and `MissingAssumption` (no value is missing), and for the cycle `AllocatorAssumption`
(the limits are natural numbers, the sleeves finitely many), `RiskAssumption`,
`PlanningAssumption`, `CycleAssumption` (the search offers well-formed proposals; it may
find none), `BasketAssumption` (a basket names a contract once) and `HeldAssumption` (the
account's complexes are not those of proposals: `event:<slug>` and `event:<id>`), and for
the search
`SearchAssumption` (a board is a finite set of rows; the configuration's numbers are
positive) and `BoardAssumption` (a contract has one row), and for the reconciler
`ReconcilerAssumption` (the orders are finitely many, sizes are positive), and for the
market feed `FeedAssumption` (a universe is finite and of known contracts) and its
`MissingAssumption`.  `NeverOverdrawn` names one more, `SmallPrices`: a size unit costs less
than a cent; the broker's sizes have six decimals (`paperBroker.ts:98`) and a price is at
most a dollar.  Cycles, proposals, market states, marks and account values may be infinitely
many.  The bounds of the model (`MaxClock`,
`MaxCommands`, `MaxUpdates`, `MaxCrashes`) are any natural number in the theorems.

*The worker's argument.*  `OneOpenPerLeg` is not inductive: that the policy saw no
resting order is a fact about the past when the placement is applied, several writes
later.  `IInv` therefore adds what the tick holds in memory: the legs of a plan are
distinct (`DistinctLegs`), the orders of a plan belong to its legs, the pending
actions of `EvaluateIntent` place on legs on which nothing is open or is cancelled first
(`PendingRests`), the orders still to reconcile are open, and the fill being booked
belongs to an order that is no longer open.  Each action preserves it by a lemma
(`...Step`), which rest on three frame lemmas: rows kept, one order rewritten, one
appended.  `NothingRestsLate` strengthens it once more with `InTime`: what is pending
as passive was decided inside the passive window.

*The ledger's argument.*  The properties about sums hold between the writes of a
booking, not during it; each invariant adds what the writes still owe.  `CashAccounted`:
until a crash, the cash of the fills booked so far is in the cash row or, from the write of
the position to that of the cash, in `held`.  `CrashesAccount`: the orders and contracts
astray, with `OwedFill` and `OwedMove` of the fill in hand set aside, are no more than the
crashes; at a crash, what was owed becomes one of them.  `LegsInv`: a placement still
pending fits what its leg has left, nothing rests on that leg, and it is the leg's only
one, so that it can be applied several writes after it was decided.  `SnapInv`: the
snapshot of a complex is current or the tick is still to refresh it.  `CompletedInv`: a
plan reported completed is filled, or had expired before it placed an order, and either
stays so.  `NoOverdraft` needs three more: `HeldInv` (the copy of the cash the apply loop
carries is the stored row wherever it is used), `PricesInv` (a cross is priced at the
quotes it was decided on) and `RoomInv`, the inequality itself over `Room`, the cash
less the reserve of resting buys less what the fill in hand will still take, with a loss of
at most a unit of rounding for each fill.  The steps that touch orders are classified once
(`FillsResting`, `CancelsOpen`, `Rests`, `Crosses`, `Closes`), and each invariant is
proved over these five.

*The refinement's argument.*  The account sees a trade when the worker writes its cash (or
dies); what it must then be shown was decided up to four writes before.  `HandInv` keeps
it for the fill in hand: a resting order was filled within its size and its limit
(`RestingInHand`), a new order is the newest and filled (`NewInHand`), was within the
mandate of its plan when it was placed (`MandateInHand`) or takes the position to zero
(`ClosingInHand`), and the fill row was written last (`FillInHand`).  With it, every step
of the worker is matched with one of the account or none: the first three writes of a
booking leave the account's view alone, `PersistCash` is `TradeResting` or `Take`,
`Crash` is a torn trade or an interruption, and of the other steps only those that rest or
cancel an order, or publish an intent, are seen.  That a mandate is kept comes from `LegsInv`,
that the cash is the stored one from `HeldInv`.

*Sums.*  `Total` is a recursive function of the library underneath.  `SumFunction` is shown
to be the only function with the recursion's equation (`SumsUnique`, `SumsExists`), by an
induction over finite sets stated for sets of subsets (`SetInduction`), since the
library's induction rules, which take an operator, cannot be used.  What is cited are
its consequences: a term more (`TotalAdd`), a term changed (`TotalChange`), terms that
grow (`TotalMonotone`).

*The operator's argument.*  `SafeCopies` says that what a handler has read or written
never asks to flatten without a pause; the ledger then holds only such states, and
`RowExplained` follows from who may write the row.

*The market feed's argument.*  The types and the queue are one invariant: those who have
something to publish are in the queue, each in one place (`Queued`, over `Holds`); a
publish takes one out and puts it back if it has more.  `RowsMoveForward` and
`WindowComplete` are not inductive, since both speak of messages long before they are
rows.  Until a stream is rejected the one awaited is the only one there is
(`Undisturbed`), and it is `Sound`: what it has received and not published is no older
than the rows and comes oldest first (`Forward`), what it has observed is in the rows or
still to come (`Told`), and it is not resolved before its health is published, which says
what it has seen (`Closed`, `Says`).  A publish that fails rejects its stream and ends
the promise; a row it may have written was still a `Forward` one.

*The account feed's argument.*  Neither property of the rows is inductive: each needs what the
process holds and has not yet published.  `Order` says how a list of envelopes goes out,
the account before its health.  `Dated` orders the times: a refresh is stamped before it is
answered, so the account row is never read before the stamp.  `Fresh` carries the promise
of a health from the store, through the envelope in hand, to the row; it is void once the
publisher is `broken`, since then nothing more goes out.  `Whole` says of a polled refresh
that every row of it is in the table or still to come, so that when the last is out and
nothing was recorded as failed, the health may be called `ok`.

*The cycle's argument.*  The three properties of the tables speak of rows written one by
one, some of them after the memory they were made from is forgotten.  `Decided` is about
that memory: an approval rests on a forwarded allocation of at least its cents and becomes
a plan or is about to, and a plan rests on an approval of just its notional.  At
`BeginWrites` it turns into two facts about the list of writes, whose shape
`WritesShape` gives index by index: `Ordered` (whatever stands before an intent, with what
the ledger holds, accounts for it; the cycle's own row is last) and `Settled` (once all is
written, every approval has its intent).  Both survive a write (`OrderedTail`,
`SettledTail`) and the rows of other cycles (`WritingFrame`), so that they hold wherever
the process ends.  `WithinLimits` follows from the choice of the least room: what fits in
it, rounded, exceeds no limit by more than half a cent (`RoomKeeps`), and a sleeve is
started below the limit of active sleeves only (`SleevesKept`).

*The search's argument.*  What a proposal earns is a sum over its legs; `TotalReindex` turns
it into one over the rows of the basket, `TotalPlus` into payouts, prices and costs.  The
payouts of a basket come to a dollar at most, since its legs are rows of one template and of
different entities, of which one comes true at most (`OnePays`, `TotalOne`).  That a market
is named once comes from counting its rows (`OneYes`): a second YES row would leave no room
for the NO.  The legs have an order by market because each has a rank
(`MarketOrderExists`).

*The reconciler's argument.*  What is tracked may be wrong for a while, so the invariant
does not speak of it: `Told` says that each order at the exchange has a last message that
touches it, that this is an order message with the exchange's values (`IsLatest`), and
that each tracked order either agrees with the exchange or has that message still to
come.  A delivery touches no order after its last message (`Touched`, `Elsewhere`);
a new connection only moves the stream back, a restart forgets the orders with their
errors.  On the exchange's side a match says its trade first and its updates after, one per
order of ours (`InTurn`), so that the last word is true (`ExchangeSays`): this order is the
assumption the theorem rests on.

*Across cycles.*  `LimitsAcrossCycles` adds up all intents ever published.  They are not
what the snapshots show, so the argument starts from the difference: what a cycle loads
is at least what the snapshots show (`LoadedCounts`), hence the intents less `unseen`,
which only grows (`UnseenGrows`).
From there the cycle has a *budget*: the intents out, with its plans, its approvals still to
be planned and its allocations still to be decided, come to no more than what was out
and what it has reserved since (`Budgeted`), the exposure keeps within the limits or was
left as it was loaded (`Keeping`), and the list of writes is worth no more than the plans
(`Fits`).  A cycle that starts alone is the only one with a budget (`LimitsInv`), and what
another writes to the snapshots meanwhile does not touch it.  `TypeCorrect` goes through `MoreTyped`, which makes exposures
natural numbers: they are sums over the finitely many complexes that have a snapshot.

Rounding is proved exact to half a cent (`MoneyProofs!RoundDivNear`).

## 5. What is only model-checked

Liveness: `FlattenGetsFlat`, `ExpiredOrdersPulled`, `FeedRecovers` and `AccountRecovers`.
Temporal reasoning under fairness is out of the prover's reach.  All other properties of the
passing runs are theorems.

## 6. Where the code and its documentation differ

Each is shown by a run whose expected result is a counterexample.

* `worker_pause`: the worker never looks at `paused`; it places orders in a tick that
  has read a paused state.
* `worker_flat`: cancelling the last order of a complex without positions leaves the
  reserved cash in its position snapshot for good.
* `control_stop`: a mode change (or a stale pause) that read the operator row before a
  pause or flatten writes it away.
* `market_stale`: `stale` in the health row is computed when a socket closes and read
  until the next one does, a window (or an outage) later.

Also seen while modelling, with no run of their own:

* *Execution.*  An expired intent with cancelled or partly filled orders and none open is
  crossed at the market (`executionPolicy.ts:204`), although
  `docs/specs/service-contracts-v1.md` gives intents an expiry with `cancel_if_unfilled`;
  `NoRestingAfterExpiry` and `ExpiredOrdersPulled` say what does hold.  A flatten buys back
  shorts without looking at cash (excluded in `NoOverdraft`).  The realized PnL of the
  cash row lags by a fill.
* *Cycle.*  What is planned is nobody's exposure; a cycle knows the position snapshots
  alone.  An intent published and not yet in a snapshot is left out, so cycles that
  overlap, or follow each other before a tick, fund the same room twice.  And a snapshot
  is a mark (`paperBroker.ts:470`): after a partial fill, a cut to the cash, an expiry, a
  flatten or a fall of the price it shows less than was planned, and later cycles,
  one after the other and with every intent worked, plan past a limit together.
  `LimitsAcrossCycles` says by how much at most: by what a cycle was not shown when it
  loaded its exposure.  Cycles that load it beside another are excluded.  The limit per
  contract is kept within a cycle only: contracts start empty in each
  (`decisionCycle.ts:111`).  A stop that lands after both reads of the operator row does
  not hold back the cycle's intents.  Prices are read again for the plan, so the books
  approved and planned may differ; `IntentsAccountedFor` compares notional and sizes.
* *Operator.*  The row is written before its ledger entry; a handler that fails in between
  leaves a row the ledger does not explain, and `RowExplained` is void from then on.
* *Proposals.*  A bought basket is worth its edge only if one of the outcomes it names
  comes true; nothing checks that the markets of an event are all there
  (`EdgeIsLocked` says so).  The edge is locked for equal *sizes* of the legs, while
  `execution.ts` splits the notional equally, which buys more of the cheap ones.
* *Account.*  One `position_snapshot` row per wallet and market complex is written by
  one envelope per contract, so two outcomes of one event overwrite each other, against
  market-state's README ("one `position_snapshot` per open position"), and the row of a
  position that was closed stays.  The complex is `event:<slug>` here and `event:<id>`
  for market rows, so the two never meet.  The four answers of a refresh are of different
  times; `service-contracts-v1.md` calls the snapshot a "coherent normalized view".
  `stale` is computed when the health is written and not when it is read.  The one-shot
  command publishes a healthy row before the positions it speaks of (excluded in
  `HealthyRefreshStored`, which asks for a row of the refresh per event and so does not
  see the rows overwritten or left behind).
* *Market.*  A row's time is that of its receipt in `MarketFeed`; the code keeps the
  exchange's stamp where a message has one (`marketStateStore.ts:61`), so the order of rows
  in `RowsMoveForward` assumes that the exchange's stamps never go back.  A stream rejected for one payload goes on publishing, so that market rows may
  go back in time beside it (excluded in `RowsMoveForward` by the history `disturbed`).
  Rows of markets that are no longer tracked stay.
* *Reconciler.*  Between a trade and the order messages after it an order may be reported
  too full (a taker's trade repeated) or too empty (a maker's trade replaces earlier
  ones); the `status` of a trade is not read, so that a failed one counts;
  `snapshot().open_orders` counts cancelled orders; a contract's plan is that of
  the latest intent registered, whichever plan the order was placed for.

## 7. What is not modelled, and why

* Live (`prod`) execution places no orders today.  `HeartbeatManager` is constructed by
  nothing in the services, and any order of its calls would be invented; the order
  reconciler is in the same position, but what it is called with is a documented
  protocol, so `OrderReconciler` models the exchange's side of that.
* Market texts: `ProposalSearch` takes what the five question patterns make of a text.
  Confidence, notes and diagnostics are wording.
* The score that ranks proposals is left open in `DecisionCycle`, which allows every
  order; which health checks fail is chosen there, a superset of what rows give.
* Prices in `MarketFeed` and amounts in `AccountFeed`.  `ExecutionWorker` allows any
  mixture of prices and depths as a quote, so it does not depend on how they are updated.
* Reads of DynamoDB are taken to be consistent and scans complete.  The decision ledger's
  copy of each broker write, whose keys collide within a tick, is not modelled.
* One paper wallet.
* Formatting, Slack transport, HTTP clients, Terraform, the status Lambda and the
  deployment scripts hold no trading state.
* In `ExecutionWorker` a command is one atomic write; its races are the subject of
  `OperatorControl`.

## 8. Plan

Done: the core of execution, with the account it implements; operator control; the
decision cycle; the market and the account feed; the search; the order reconciler; proofs
of the refinement and of all safety properties.  Next: a composition of cycle, worker and
operator for the properties that need all three: the approved notional against what a cross
at a moved price spends, and stale operator writes against the worker's tick.
