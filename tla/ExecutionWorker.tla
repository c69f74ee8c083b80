--------------------------- MODULE ExecutionWorker ---------------------------
(***************************************************************************)
(* The execution worker in paper and sim mode: the tick of                 *)
(* execution-worker/src/worker.ts over the rows that paperBroker.ts keeps  *)
(* in the current-state table, one action per awaited write.               *)
(*                                                                         *)
(* Around it run the operator (commands.ts), the decision cycle that       *)
(* publishes intents, the market, whose quotes are chosen when they are    *)
(* read, the clock, and crashes: the process may die between any two       *)
(* writes and starts again from the stored rows.  An exception in a tick,  *)
(* such as a failed DynamoDB call, ends the process and is a crash too.    *)
(*                                                                         *)
(* There is one worker, so what it has read of its own rows stays true     *)
(* until it writes them; only cash is kept in a local copy by the code     *)
(* across writes, and here in held.                                        *)
(***************************************************************************)
EXTENDS ExecutionPolicy, FiniteSets

CONSTANTS
  Plans,            \* order plan ids of the intents
  OperatorFlatten,  \* the plan id of the orders a flatten places
  Contracts,        \* contract ids
  Payloads,         \* what the decision cycle may plan: [style, complex, legs]
  Quotes,           \* the quotes a read may return
  IntentExpiry,     \* intentExpirySeconds
  MaxIntents,       \* maxIntentsPerTick
  MaxClock,         \* bound: the last instant
  MaxCommands,      \* bound: operator commands
  MaxCrashes        \* bound: crashes

Complexes == {payload.complex : payload \in Payloads}
Leg == [contract : Contracts, side : Sides, limit : Nat \ {0}, size : Nat]

ASSUME WorkerAssumption ==
  /\ OperatorFlatten \notin Plans
  /\ Quotes \subseteq Quote
  /\ IntentExpiry \in Nat
  /\ MaxIntents \in Nat \ {0}
  /\ MaxClock \in Nat /\ MaxCommands \in Nat /\ MaxCrashes \in Nat

\* A basket names a contract once.
ASSUME PayloadAssumption ==
  \A payload \in Payloads :
    /\ payload.style \in Styles
    /\ payload.legs \in Seq(Leg)
    /\ \A j, k \in DOMAIN payload.legs :
         payload.legs[j].contract = payload.legs[k].contract => j = k

VARIABLES
  \* The current-state table.
  intents,    \* execution_intent rows: published plan -> intent
  operator,   \* control#operator: [paused, flatten]
  orders,     \* paper_order rows, in creation order
  fills,      \* paper_fill rows, in creation order
  cash,       \* the paper_cash row
  positions,  \* paper_position_state rows: contract -> position
  snapshots,  \* position_snapshot rows: complex -> [gross, reserved]
  actions,    \* execution_action rows: plan -> last status, "none" at first
  \* The tick in memory.
  pc,         \* what the tick does next, "idle" between ticks
  now,        \* nowUtc of the tick, also last_sent_ts_utc of the heartbeat row
  seen,       \* the operator state read when the tick began
  rows,       \* plans of the scan still to process
  plan,       \* the plan being processed
  quotes,     \* the quotes read for it: contract -> quote
  work,       \* orders still to reconcile or to cancel
  pending,    \* leg actions still to apply
  held,       \* the cash snapshot held in memory
  txn,        \* the fill being booked: [order, price, size, back]
  toClose,    \* contracts a flatten has still to close
  touched,    \* complexes whose snapshot a flatten has still to refresh
  \* The environment.
  clock, commands, crashes

tableVars == <<intents, operator, orders, fills, cash, positions, snapshots, actions>>
tickVars == <<pc, now, seen, rows, plan, quotes, work, pending, held, txn, toClose, touched>>
envVars == <<clock, commands, crashes>>
vars == <<tableVars, tickVars, envVars>>

Phases == {"idle", "scan", "ensure", "next", "reconcile", "evaluate", "apply",
           "restate", "fill", "position", "cash", "cancel", "close"}

NoFill == [order |-> 0, price |-> 0, size |-> 0, back |-> "idle"]
NoQuotes == [c \in {} |-> Null]

PlanOrders(p) == {i \in DOMAIN orders : orders[i].plan = p}
\* Mutant of OpenOrders: the status is not looked at.
OpenOrdersUnfiltered == DOMAIN orders

OpenOrders == {i \in DOMAIN orders : orders[i].status = "open"}
ContractsOf(legs) == {legs[k].contract : k \in DOMAIN legs}
OpenPositions == {c \in DOMAIN positions : positions[c].qty # 0}
PositionOf(c, complex) ==
  IF c \in DOMAIN positions THEN positions[c]
  ELSE [complex |-> complex, qty |-> 0, avg |-> 0, realized |-> 0]

Init ==
  /\ intents = [p \in {} |-> Null]
  /\ operator = [paused |-> FALSE, flatten |-> FALSE]
  /\ orders = <<>>
  /\ fills = <<>>
  /\ cash = SeedCash
  /\ positions = [c \in {} |-> Null]
  /\ snapshots = [k \in {} |-> Null]
  /\ actions = [p \in Plans |-> "none"]
  /\ pc = "idle"
  /\ now = 0
  /\ seen = operator
  /\ rows = {}
  /\ plan = OperatorFlatten
  /\ quotes = NoQuotes
  /\ work = {}
  /\ pending = {}
  /\ held = SeedCash
  /\ txn = NoFill
  /\ toClose = {}
  /\ touched = {}
  /\ clock = 0
  /\ commands = 0
  /\ crashes = 0

-----------------------------------------------------------------------------
(* The start of a tick. *)

\* Mutant of BeginTick: the operator state is read once, at the start.
BeginTickCached ==
  /\ pc = "idle"
  /\ pc' = "scan"
  /\ now' = clock
  /\ UNCHANGED <<tableVars, seen, rows, plan, quotes, work, pending, held, txn,
                 toClose, touched, envVars>>

BeginTick ==
  /\ pc = "idle"
  /\ pc' = "scan"
  /\ now' = clock
  /\ seen' = operator
  /\ UNCHANGED <<tableVars, rows, plan, quotes, work, pending, held, txn,
                 toClose, touched, envVars>>

\* Mutant of ScanIntents: expired intents are skipped.
ScanIntentsUnexpired ==
  /\ pc = "scan"
  /\ pc' = "ensure"
  /\ \E newest \in SUBSET {p \in DOMAIN intents : intents[p].expiry > now} :
       /\ Cardinality(newest) <= MaxIntents
       /\ rows' = newest
  /\ UNCHANGED <<tableVars, now, seen, plan, quotes, work, pending, held, txn,
                 toClose, touched, envVars>>

\* The newest MaxIntents rows.
ScanIntents ==
  /\ pc = "scan"
  /\ pc' = "ensure"
  /\ \E newest \in SUBSET DOMAIN intents :
       /\ Cardinality(newest) = MinOf(MaxIntents, Cardinality(DOMAIN intents))
       /\ \A p \in newest, q \in DOMAIN intents \ newest :
            intents[q].start <= intents[p].start
       /\ rows' = newest
  /\ UNCHANGED <<tableVars, now, seen, plan, quotes, work, pending, held, txn,
                 toClose, touched, envVars>>

\* Recompute the cash row; a flatten then loads the open orders to cancel.
EnsureCash ==
  /\ pc = "ensure"
  /\ cash' = RecomputeCash(cash, orders, positions)
  /\ pc' = IF seen.flatten THEN "cancel" ELSE "next"
  /\ work' = IF seen.flatten THEN OpenOrders ELSE {}
  /\ touched' = {orders[i].complex : i \in work'}
  /\ rows' = IF seen.flatten THEN {} ELSE rows
  /\ UNCHANGED <<intents, operator, orders, fills, positions, snapshots, actions,
                 now, seen, plan, quotes, pending, held, txn, toClose, envVars>>

EndTick ==
  /\ pc = "next"
  /\ rows = {}
  /\ pc' = "idle"
  /\ UNCHANGED <<tableVars, now, seen, rows, plan, quotes, work, pending, held,
                 txn, toClose, touched, envVars>>

-----------------------------------------------------------------------------
(* Booking one fill: the fill row, the position, the cash. *)

FillCents == RoundUsd(txn.price * txn.size)

PersistFill ==
  /\ pc = "fill"
  /\ pc' = "position"
  /\ LET order == orders[txn.order] IN
     fills' = Append(fills, [order |-> txn.order, contract |-> order.contract,
                             side |-> order.side, size |-> txn.size,
                             cents |-> FillCents])
  /\ UNCHANGED <<intents, operator, orders, cash, positions, snapshots, actions,
                 now, seen, rows, plan, quotes, work, pending, held, txn,
                 toClose, touched, envVars>>

\* Position and cash are both computed here, the cash with the old positions.
PersistPosition ==
  /\ pc = "position"
  /\ pc' = "cash"
  /\ LET order == orders[txn.order]
         position == PositionOf(order.contract, order.complex)
     IN  /\ held' = CashAfterFill(cash, order.side, FillCents, orders, positions)
         /\ positions' = Upsert(positions, order.contract,
                                RealizeAgainstPosition(position, order.side,
                                                       txn.size, txn.price))
  /\ UNCHANGED <<intents, operator, orders, fills, cash, snapshots, actions,
                 now, seen, rows, plan, quotes, work, pending, txn, toClose,
                 touched, envVars>>

PersistCash ==
  /\ pc = "cash"
  /\ pc' = txn.back
  /\ cash' = held
  /\ txn' = NoFill
  /\ held' = IF txn.back = "apply" THEN held ELSE SeedCash
  /\ UNCHANGED <<intents, operator, orders, fills, positions, snapshots, actions,
                 now, seen, rows, plan, quotes, work, pending, toClose, touched,
                 envVars>>

-----------------------------------------------------------------------------
(* One intent: read its quotes, reconcile its resting orders, decide, act. *)

\* Quotes and open orders are read; work keeps the orders that trade.
LoadIntent(p) ==
  /\ pc = "next"
  /\ p \in rows
  /\ \A q \in rows : intents[q].start <= intents[p].start
  /\ pc' = "reconcile"
  /\ plan' = p
  /\ rows' = rows \ {p}
  /\ quotes' \in [ContractsOf(intents[p].legs) -> Quotes]
  /\ work' = {i \in PlanOrders(p) \cap OpenOrders :
                Executable(orders[i], quotes'[orders[i].contract])}
  /\ UNCHANGED <<tableVars, now, seen, pending, held, txn, toClose, touched, envVars>>

ReconcileFill ==
  /\ pc = "reconcile"
  /\ \E i \in work :
       LET order == orders[i]
           quote == quotes[order.contract]
           size  == ExecutableSize(order, quote)
       IN  /\ \A j \in work : i <= j
           /\ orders' = [orders EXCEPT ![i] = MergeFill(order, size)]
           /\ txn' = [order |-> i, price |-> ExecutablePrice(order, quote),
                      size |-> size, back |-> "reconcile"]
           /\ work' = work \ {i}
  /\ pc' = "fill"
  /\ UNCHANGED <<intents, operator, fills, cash, positions, snapshots, actions,
                 now, seen, rows, plan, quotes, pending, held, toClose, touched,
                 envVars>>

FinishReconcile ==
  /\ pc = "reconcile"
  /\ work = {}
  /\ pc' = "evaluate"
  /\ snapshots' = UpdateSnapshot(snapshots, intents[plan].complex, orders, positions, quotes)
  /\ UNCHANGED <<intents, operator, orders, fills, cash, positions, actions,
                 now, seen, rows, plan, quotes, work, pending, held, txn, toClose,
                 touched, envVars>>

\* An expired intent that never placed an order is completed.  The heartbeat
\* the worker just wrote is healthy in paper and sim.
PlanDecision ==
  IF intents[plan].expiry <= now /\ PlanOrders(plan) = {}
  THEN Decision("completed", {})
  ELSE EvaluateExecutionAction(intents[plan], quotes, orders, PlanOrders(plan), TRUE, now)

EvaluateIntent ==
  /\ pc = "evaluate"
  /\ pc' = "apply"
  /\ actions' = [actions EXCEPT ![plan] = PlanDecision.status]
  /\ pending' = PlanDecision.actions
  /\ held' = RecomputeCash(cash, orders, positions)
  /\ UNCHANGED <<intents, operator, orders, fills, cash, positions, snapshots,
                 now, seen, rows, plan, quotes, work, txn, toClose, touched, envVars>>

-----------------------------------------------------------------------------
(* Applying the leg actions in the order of their legs. *)

IsNext(a) == \A b \in pending : a.leg <= b.leg

Placed(p, complex, leg, style, limit, size) ==
  [plan |-> p, contract |-> leg.contract, complex |-> complex, side |-> leg.side,
   style |-> style, limit |-> limit, requested |-> size,
   status |-> IF style = "passive" THEN "open" ELSE "filled",
   filled |-> IF style = "passive" THEN 0 ELSE size,
   remaining |-> IF style = "passive" THEN size ELSE 0]

\* A buy is cut to what the held cash affords.
SizeFor(a) ==
  AffordableSize(intents[plan].legs[a.leg].side, a.size, a.price, Available(held))

ApplyCancel(a) ==
  /\ a.kind = "cancel"
  /\ pc' = "restate"
  /\ orders' = [orders EXCEPT ![a.order] = CancelOrder(orders[a.order])]
  /\ UNCHANGED <<txn, held>>

ApplyUnaffordable(a) ==
  /\ a.kind # "cancel"
  /\ SizeFor(a) <= 0
  /\ UNCHANGED <<pc, orders, txn, held>>

ApplyPassive(a) ==
  /\ a.kind = "place_passive"
  /\ SizeFor(a) > 0
  /\ pc' = "restate"
  /\ orders' = Append(orders, Placed(plan, intents[plan].complex,
                                     intents[plan].legs[a.leg], "passive",
                                     a.price, SizeFor(a)))
  /\ UNCHANGED <<txn, held>>

\* A cross is filled as placed, whatever the depth.
ApplyCross(a) ==
  LET leg == intents[plan].legs[a.leg] IN
  /\ a.kind = "place_cross"
  /\ SizeFor(a) > 0
  /\ pc' = "fill"
  /\ orders' = Append(orders, Placed(plan, intents[plan].complex, leg, "cross",
                                     a.price, SizeFor(a)))
  /\ txn' = [order |-> Len(orders) + 1,
             price |-> TakePrice(leg.side, quotes[leg.contract], a.price),
             size |-> SizeFor(a), back |-> "apply"]
  /\ held' = SeedCash

ApplyNext ==
  /\ pc = "apply"
  /\ \E a \in pending :
       /\ IsNext(a)
       /\ pending' = pending \ {a}
       /\ \/ ApplyCancel(a)
          \/ ApplyUnaffordable(a)
          \/ ApplyPassive(a)
          \/ ApplyCross(a)
  /\ UNCHANGED <<intents, operator, fills, cash, positions, snapshots, actions,
                 now, seen, rows, plan, quotes, work, toClose, touched, envVars>>

\* After a cancel or a passive order the cash is recomputed and stored.
RestateCash ==
  /\ pc = "restate"
  /\ pc' = "apply"
  /\ held' = RecomputeCash(held, orders, positions)
  /\ cash' = held'
  /\ UNCHANGED <<intents, operator, orders, fills, positions, snapshots, actions,
                 now, seen, rows, plan, quotes, work, pending, txn, toClose,
                 touched, envVars>>

FinishApply ==
  /\ pc = "apply"
  /\ pending = {}
  /\ pc' = "next"
  /\ snapshots' = UpdateSnapshot(snapshots, intents[plan].complex, orders, positions, quotes)
  /\ plan' = OperatorFlatten
  /\ quotes' = NoQuotes
  /\ held' = SeedCash
  /\ UNCHANGED <<intents, operator, orders, fills, cash, positions, actions,
                 now, seen, rows, work, pending, txn, toClose, touched, envVars>>

-----------------------------------------------------------------------------
(* A flatten: cancel every open order, close every position, refresh the   *)
(* snapshots of the complexes touched.                                     *)

FlattenCancel ==
  /\ pc = "cancel"
  /\ \E i \in work :
       /\ \A j \in work : i <= j
       /\ orders' = [orders EXCEPT ![i] = CancelOrder(orders[i])]
       /\ work' = work \ {i}
  /\ UNCHANGED <<intents, operator, fills, cash, positions, snapshots, actions,
                 pc, now, seen, rows, plan, quotes, pending, held, txn, toClose,
                 touched, envVars>>

\* The cash row is rewritten only when some order was cancelled.
FlattenCancelled ==
  /\ pc = "cancel"
  /\ work = {}
  /\ pc' = "close"
  /\ cash' = IF touched = {} THEN cash ELSE RecomputeCash(cash, orders, positions)
  /\ toClose' = OpenPositions
  /\ touched' = touched \cup {positions[c].complex : c \in OpenPositions}
  /\ UNCHANGED <<intents, operator, orders, fills, positions, snapshots, actions,
                 now, seen, rows, plan, quotes, work, pending, held, txn, envVars>>

\* A missing snapshot row reads as a quote without bid and ask.
ClosePosition(c) ==
  LET position == positions[c]
      side == IF position.qty > 0 THEN "sell" ELSE "buy"
      size == Abs(position.qty)
  IN
  /\ pc = "close"
  /\ c \in toClose
  /\ pc' = "fill"
  /\ toClose' = toClose \ {c}
  /\ \E quote \in Quotes :
       LET price == TakePrice(side, quote, position.avg) IN
       /\ quotes' = Upsert(quotes, c, quote)
       /\ orders' = Append(orders, Placed(OperatorFlatten, position.complex,
                                          [contract |-> c, side |-> side], "cross",
                                          price, size))
       /\ txn' = [order |-> Len(orders) + 1, price |-> price, size |-> size,
                  back |-> "close"]
  /\ UNCHANGED <<intents, operator, fills, cash, positions, snapshots, actions,
                 now, seen, rows, plan, work, pending, held, touched, envVars>>

FlattenSnapshot(k) ==
  /\ pc = "close"
  /\ toClose = {}
  /\ k \in touched
  /\ touched' = touched \ {k}
  /\ snapshots' = UpdateSnapshot(snapshots, k, orders, positions, quotes)
  /\ UNCHANGED <<intents, operator, orders, fills, cash, positions, actions,
                 pc, now, seen, rows, plan, quotes, work, pending, held, txn,
                 toClose, envVars>>

EndFlatten ==
  /\ pc = "close"
  /\ toClose = {}
  /\ touched = {}
  /\ pc' = "idle"
  /\ quotes' = NoQuotes
  /\ UNCHANGED <<tableVars, now, seen, rows, plan, work, pending, held, txn,
                 toClose, touched, envVars>>

-----------------------------------------------------------------------------
(* The environment. *)

\* The process dies in mid-tick; what it held in memory is gone.
Crash ==
  /\ pc # "idle"
  /\ crashes < MaxCrashes
  /\ crashes' = crashes + 1
  /\ pc' = "idle"
  /\ rows' = {}
  /\ plan' = OperatorFlatten
  /\ quotes' = NoQuotes
  /\ work' = {}
  /\ pending' = {}
  /\ held' = SeedCash
  /\ txn' = NoFill
  /\ toClose' = {}
  /\ touched' = {}
  /\ UNCHANGED <<tableVars, now, seen, clock, commands>>

PublishIntent(p, payload) ==
  /\ p \notin DOMAIN intents
  /\ intents' = Upsert(intents, p, [style |-> payload.style, complex |-> payload.complex,
                                    legs |-> payload.legs, start |-> clock,
                                    expiry |-> clock + IntentExpiry])
  /\ UNCHANGED <<operator, orders, fills, cash, positions, snapshots, actions,
                 tickVars, envVars>>

Command(next) ==
  /\ commands < MaxCommands
  /\ commands' = commands + 1
  /\ operator' = next
  /\ UNCHANGED <<intents, orders, fills, cash, positions, snapshots, actions,
                 tickVars, clock, crashes>>

Pause == Command([operator EXCEPT !.paused = TRUE])
Resume == Command([operator EXCEPT !.paused = FALSE, !.flatten = FALSE])
Flatten == Command([operator EXCEPT !.paused = TRUE, !.flatten = TRUE])

AdvanceClock ==
  /\ clock < MaxClock
  /\ clock' = clock + 1
  /\ UNCHANGED <<tableVars, tickVars, commands, crashes>>

-----------------------------------------------------------------------------

Worker ==
  \/ BeginTick \/ ScanIntents \/ EnsureCash \/ EndTick
  \/ PersistFill \/ PersistPosition \/ PersistCash
  \/ \E p \in Plans : LoadIntent(p)
  \/ ReconcileFill \/ FinishReconcile \/ EvaluateIntent
  \/ ApplyNext \/ RestateCash \/ FinishApply
  \/ FlattenCancel \/ FlattenCancelled \/ EndFlatten
  \/ \E c \in Contracts : ClosePosition(c)
  \/ \E k \in Complexes : FlattenSnapshot(k)

Environment ==
  \/ Crash
  \/ \E p \in Plans, payload \in Payloads : PublishIntent(p, payload)
  \/ Pause \/ Resume \/ Flatten
  \/ AdvanceClock

Next == Worker \/ Environment

Spec == Init /\ [][Next]_vars

\* The loop of cli.ts starts a tick after every poll interval, and a tick that
\* is not interrupted goes on; time passes.
FairSpec == Spec /\ WF_vars(Worker) /\ WF_vars(AdvanceClock)

-----------------------------------------------------------------------------
(* Properties *)

Intent == [style : Styles, complex : Complexes, legs : Seq(Leg), start : Nat, expiry : Nat]
Order == [plan : Plans \cup {OperatorFlatten}, contract : Contracts, complex : Complexes,
          side : Sides, style : {"passive", "cross"}, limit : Nat, requested : Nat,
          status : OrderStatuses, filled : Nat, remaining : Nat]
Fill == [order : Nat, contract : Contracts, side : Sides, size : Nat, cents : Int]
Cash == [balance : Int, reserved : Int, realized : Int]
Position == [complex : Complexes, qty : Int, avg : Nat, realized : Int]

\* The rows and the tick's memory have their types; in particular no size,
\* price or average cost is ever negative.
TypeOK ==
  /\ DOMAIN intents \subseteq Plans
  /\ \A p \in DOMAIN intents : intents[p] \in Intent
  /\ operator \in [paused : BOOLEAN, flatten : BOOLEAN]
  /\ seen \in [paused : BOOLEAN, flatten : BOOLEAN]
  /\ orders \in Seq(Order)
  /\ fills \in Seq(Fill)
  /\ cash \in Cash /\ held \in Cash
  /\ DOMAIN positions \subseteq Contracts
  /\ \A c \in DOMAIN positions : positions[c] \in Position
  /\ DOMAIN snapshots \subseteq Complexes
  /\ \A k \in DOMAIN snapshots : snapshots[k] \in [gross : Int, reserved : Int]
  /\ actions \in [Plans -> ActionStatuses \cup {"none"}]
  /\ pc \in Phases
  /\ rows \subseteq DOMAIN intents
  /\ plan \in DOMAIN intents \cup {OperatorFlatten}
  /\ DOMAIN quotes \subseteq Contracts
  /\ \A c \in DOMAIN quotes : quotes[c] \in Quote
  /\ work \subseteq DOMAIN orders
  /\ pending \subseteq LegAction
  /\ txn \in [order : DOMAIN orders \cup {0}, price : Nat, size : Nat,
              back : {"idle", "reconcile", "apply", "close"}]
  /\ toClose \subseteq DOMAIN positions /\ touched \subseteq Complexes
  /\ now \in Nat /\ clock \in Nat
  /\ commands \in Nat /\ crashes \in Nat

\* What a leg has taken or may still take: fills, and the size resting.
Committed(p, k) ==
  Total([i \in OfLeg(intents[p].legs[k], orders, PlanOrders(p)) |->
           orders[i].filled + orders[i].remaining])

\* The orders of a leg never commit more than the leg's max_size, through
\* reconciliation, cancels, replacements, flattens and crashes.
NoOverfill ==
  \A p \in DOMAIN intents : \A k \in DOMAIN intents[p].legs :
    Committed(p, k) <= intents[p].legs[k].size

\* Two orders of one plan never rest on the same contract: the worker places
\* only when it has read back that nothing rests.
OneOpenPerLeg ==
  \A i, j \in OpenOrders :
    orders[i].plan = orders[j].plan /\ orders[i].contract = orders[j].contract => i = j

FillsOf(i) == {f \in DOMAIN fills : fills[f].order = i}
FilledIn(i) == Total([f \in FillsOf(i) |-> fills[f].size])
BoughtOf(c) ==
  Total([f \in {g \in DOMAIN fills : fills[g].contract = c} |->
           SignedQuantity(fills[f].side, fills[f].size)])
SpentInFills ==
  Total([f \in DOMAIN fills |-> SignedQuantity(fills[f].side, fills[f].cents)])
QuantityOf(c) == IF c \in DOMAIN positions THEN positions[c].qty ELSE 0

Booking == pc \in {"fill", "position", "cash"}
OrdersOff == {i \in DOMAIN orders : orders[i].filled # FilledIn(i)}
ContractsOff == {c \in Contracts : QuantityOf(c) # BoughtOf(c)}

\* Orders, fills and positions tell the same story outside the booking of a
\* fill, and each crash spoils it for at most one order or one contract.
CrashSpoilsOneFill ==
  ~Booking => Cardinality(OrdersOff) + Cardinality(ContractsOff) <= crashes

\* Without a crash the cash balance is the starting cash less what the fills
\* cost, to the cent.
CashBalances ==
  ~Booking /\ crashes = 0 => cash.balance = StartingCash - SpentInFills

ReservedNow ==
  RoundUsd(Total([i \in OpenBuys(orders) |-> orders[i].remaining * orders[i].limit]))

\* Buys are cut to the available cash, so cash net of the resting buys goes
\* below zero only by rounding, half a cent a fill and less than a cent and a half
\* for the reserve, or when a flatten has bought back a short, which is not
\* checked against cash.
NoOverdraft ==
  \/ \E i \in DOMAIN orders : orders[i].plan = OperatorFlatten /\ orders[i].side = "buy"
  \/ 2 * (cash.balance - ReservedNow) >= -(Len(fills) + 2)

\* Between ticks, while no crash interrupted one, a complex with a position or
\* an open order has a snapshot that states the cash its open orders reserve.
SnapshotCurrent ==
  pc = "idle" /\ crashes = 0 =>
    \A k \in Complexes :
      PositionsIn(k, positions) # {} \/ OpenOrdersIn(k, orders) # {} =>
        k \in DOMAIN snapshots /\ snapshots[k].reserved = ReservedInComplex(k, orders)

\* A filled or cancelled order is never written again and no fill is undone.
TerminalOrdersFrozen ==
  [][\A i \in DOMAIN orders :
       /\ i \in DOMAIN orders'
       /\ orders[i].status # "open" => orders'[i] = orders[i]
       /\ orders[i].filled <= orders'[i].filled]_vars

\* A plan reported completed stays completed.
CompletedIsFinal ==
  [][\A p \in Plans : actions[p] = "completed" => actions'[p] = "completed"]_vars

NewOrders == {i \in DOMAIN orders' \ DOMAIN orders : orders'[i].plan \in Plans}

\* Nothing is put to rest for an intent past its expiry. Neither the policy nor
\* the broker looks at the expiry of an intent without open orders: what
\* protects it is that PassiveResting (3 s) is below IntentExpiry (30 s).
NoRestingAfterExpiry ==
  [][\A i \in NewOrders :
       orders'[i].status = "open" => now < intents[orders'[i].plan].expiry]_vars

\* While a flatten stays requested, the paper portfolio becomes flat and
\* stays flat.
FlattenGetsFlat ==
  <>[](operator.flatten) => <>[](OpenOrders = {} /\ OpenPositions = {})

Expired(p) == p \in DOMAIN intents /\ clock >= intents[p].expiry

\* Every scan takes the plan.
Served(p) ==
  /\ p \in DOMAIN intents
  /\ Cardinality({q \in DOMAIN intents \ {p} : intents[q].start >= intents[p].start})
       < MaxIntents

\* The resting orders of an expired intent (it stays expired) are pulled for
\* good, unless newer intents come to fill the tick.
ExpiredOrdersPulled ==
  \A p \in Plans :
    <>[](Expired(p) /\ Served(p)) => <>[](PlanOrders(p) \cap OpenOrders = {})

-----------------------------------------------------------------------------
(* What documents of the repository say and the code does not do. *)

\* commands.ts:437: "new execution requests must halt until resume".
PauseStopsPlacement == [][seen.paused => NewOrders = {}]_vars

\* nonprod-observation.md:77: a flatten "refreshes position_snapshot state
\* back toward flat".
FlatAfterFlatten ==
  pc = "idle" /\ crashes = 0 /\ seen.flatten =>
    \A k \in DOMAIN snapshots : snapshots[k].reserved = 0
=============================================================================
