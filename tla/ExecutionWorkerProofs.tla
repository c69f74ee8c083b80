------------------------ MODULE ExecutionWorkerProofs ------------------------
(***************************************************************************)
(* Proofs about ExecutionWorker, for every choice of its constants.  First *)
(* the types and what holds of the orders of a plan; then what the rows    *)
(* add up to: fills, positions, cash and snapshots; last, that the worker, *)
(* which writes them one by one, implements PaperAccount.                  *)
(***************************************************************************)
EXTENDS WorkerAccount, MoneyProofs, FiniteSetTheorems, SequenceTheorems

-----------------------------------------------------------------------------
(* The broker's arithmetic returns what it should for all arguments.       *)

\* A recomputed cash row has integer fields and keeps its balance.
LEMMA RecomputeCashFields ==
  ASSUME NEW row \in [balance : Int, reserved : Int, realized : Int], NEW os, NEW ps
  PROVE  /\ RecomputeCash(row, os, ps) \in [balance : Int, reserved : Int, realized : Int]
         /\ RecomputeCash(row, os, ps).balance = row.balance
  BY TotalInt, RoundUsdInt DEF RecomputeCash

\* The cash after a fill has integer fields.
LEMMA CashAfterFillInt ==
  ASSUME NEW row \in [balance : Int, reserved : Int, realized : Int],
         NEW side, NEW cents \in Int, NEW os, NEW ps
  PROVE  CashAfterFill(row, side, cents, os, ps)
           \in [balance : Int, reserved : Int, realized : Int]
  <1> DEFINE next == [row EXCEPT !.balance = @ - SignedQuantity(side, cents)]
  <1>1. next \in [balance : Int, reserved : Int, realized : Int]
    BY DEF SignedQuantity
  <1> QED BY <1>1, RecomputeCashFields DEF CashAfterFill

\* Booking a fill keeps quantity and realized PnL integer and the average
\* cost a natural number.
LEMMA RealizeFields ==
  ASSUME NEW complexes, NEW side \in Sides, NEW size \in Nat, NEW price \in Nat,
         NEW position \in [complex : complexes, qty : Int, avg : Nat, realized : Int]
  PROVE  RealizeAgainstPosition(position, side, size, price)
           \in [complex : complexes, qty : Int, avg : Nat, realized : Int]
  <1> DEFINE delta == SignedQuantity(side, size)
             gross == Abs(position.qty)
             bought == Abs(delta)
             closed == MinOf(gross, bought)
             gain == Sign(position.qty) * (price - position.avg) * closed
             mixed == RoundDiv(position.avg * gross + price * bought, gross + bought)
  <1>1. delta \in Int /\ gross \in Nat /\ bought \in Nat /\ closed \in Nat
    BY DEF SignedQuantity, Abs, MaxOf, MinOf
  <1>2. Sign(position.qty) \in Int
    BY DEF Sign
  <1>3. gain \in Int
    <2>1. Sign(position.qty) * (price - position.avg) \in Int
      BY <1>2
    <2> QED BY <1>1, <2>1
  <1>4. gross + bought # 0 => mixed \in Nat
    <2>1. position.avg * gross \in Nat /\ price * bought \in Nat
      BY <1>1
    <2>2. position.avg * gross + price * bought \in Nat
      BY <2>1
    <2> QED BY <1>1, <2>2, RoundDivInt
  <1> HIDE DEF delta, gross, bought, closed, gain, mixed
  <1>5. position.qty + delta \in Int
    BY <1>1
  <1>6. RealizeAgainstPosition(position, side, size, price) =
          IF position.qty = 0 \/ Sign(position.qty) = Sign(delta)
          THEN [position EXCEPT !.qty = position.qty + delta,
                                !.avg = IF gross + bought = 0 THEN 0 ELSE mixed]
          ELSE [position EXCEPT !.qty = position.qty + delta,
                                !.avg = IF position.qty + delta = 0 THEN 0
                                        ELSE IF Sign(position.qty + delta) = Sign(position.qty)
                                        THEN position.avg ELSE price,
                                !.realized = position.realized + gain]
    BY DEF RealizeAgainstPosition, delta, gross, bought, closed, gain, mixed
  <1>7. CASE position.qty = 0 \/ Sign(position.qty) = Sign(delta)
    <2>1. (IF gross + bought = 0 THEN 0 ELSE mixed) \in Nat
      BY <1>4
    <2> QED BY <1>5, <1>6, <1>7, <2>1
  <1>8. CASE ~(position.qty = 0 \/ Sign(position.qty) = Sign(delta))
    <2> DEFINE avg == IF position.qty + delta = 0 THEN 0
                      ELSE IF Sign(position.qty + delta) = Sign(position.qty)
                      THEN position.avg ELSE price
               realized == position.realized + gain
    <2>1. realized \in Int
      BY <1>3
    <2>2. avg \in Nat
      OBVIOUS
    <2>3. RealizeAgainstPosition(position, side, size, price)
            = [position EXCEPT !.qty = position.qty + delta, !.avg = avg, !.realized = realized]
      BY <1>6, <1>8
    <2> HIDE DEF avg, realized
    <2> QED BY <1>5, <2>1, <2>2, <2>3
  <1> QED BY <1>7, <1>8

\* A price to take is a natural number as soon as the fallback is one.
LEMMA TakePriceNat ==
  ASSUME NEW side, NEW quote \in Quote, NEW fallback \in Nat
  PROVE  TakePrice(side, quote, fallback) \in Nat
  BY DEF TakePrice, Coalesce, Quote, PriceOrNull

\* What a resting order trades at and how much.
LEMMA ExecutableFields ==
  ASSUME NEW order, order.remaining \in Nat, order.side \in Sides, NEW quote \in Quote,
         Executable(order, quote)
  PROVE  /\ ExecutablePrice(order, quote) \in Nat
         /\ ExecutableSize(order, quote) \in Nat
  BY BrokerAssumption, MoneyAssumption
  DEF Executable, ExecutablePrice, ExecutableSize, Quote, PriceOrNull, MinOf, Sides

\* A buy is only ever cut, never enlarged.
LEMMA AffordableSizeNat ==
  ASSUME NEW side, NEW size \in Nat, NEW limit \in Nat, NEW available \in Int
  PROVE  /\ AffordableSize(side, size, limit, available) \in Nat
         /\ AffordableSize(side, size, limit, available) <= size
  <1>1. available * UnitsPerCent \in Int
    BY BrokerAssumption, MoneyAssumption
  <1>2. limit > 0 => RoundDiv(available * UnitsPerCent, limit) \in Int
    BY <1>1, RoundDivInt
  <1> QED BY <1>2 DEF AffordableSize, MinOf, MaxOf

-----------------------------------------------------------------------------
(* The inductive invariant: what the tick holds in memory stays true of    *)
(* the rows it was read from.                                              *)

\* The tick is at work on one intent.
InIntent ==
  \/ pc \in {"reconcile", "evaluate", "apply", "restate"}
  \/ Booking /\ txn.back \in {"reconcile", "apply"}
Reconciling == pc = "reconcile" \/ (Booking /\ txn.back = "reconcile")
Applying == pc \in {"apply", "restate"} \/ (Booking /\ txn.back = "apply")

IntentInHand ==
  InIntent => /\ plan \in DOMAIN intents
              /\ ContractsOf(intents[plan].legs) \subseteq DOMAIN quotes

OrdersOfIntents ==
  \A i \in DOMAIN orders : orders[i].plan \in Plans =>
    /\ orders[i].plan \in DOMAIN intents
    /\ orders[i].contract \in ContractsOf(intents[orders[i].plan].legs)

WorkInHand ==
  /\ Reconciling => \A i \in work : /\ orders[i].plan = plan
                                    /\ Executable(orders[i], quotes[orders[i].contract])
  /\ Reconciling \/ pc = "cancel" => work \subseteq OpenOrders

PendingInHand ==
  /\ pending # {} => Applying
  /\ \A a \in pending : a.kind # "cancel" =>
       a.leg \in DOMAIN intents[plan].legs /\ a.price \in Nat
  /\ \A a \in pending : a.kind = "cancel" => a.order \in OpenOrders
  /\ \A a, b \in pending :
       a.kind = "cancel" /\ b.kind = "cancel" /\ a.order = b.order => a = b

TxnInHand ==
  Booking => txn.order \in DOMAIN orders /\ txn.back # "idle"

RestsAtLimit ==
  \A i \in OpenOrders :
    /\ orders[i].plan \in DOMAIN intents
    /\ \E k \in DOMAIN intents[orders[i].plan].legs :
         /\ orders[i].contract = intents[orders[i].plan].legs[k].contract
         /\ orders[i].limit = intents[orders[i].plan].legs[k].limit

PendingRests ==
  /\ \A a \in pending : a.kind = "place_passive" =>
       /\ a.price = intents[plan].legs[a.leg].limit
       /\ \A i \in OpenOrders :
            orders[i].plan = plan => orders[i].contract # intents[plan].legs[a.leg].contract
  /\ \A a, b \in pending :
       a.kind = "place_passive" /\ b.kind = "place_passive" /\ a.leg = b.leg => a = b

DistinctLegs ==
  \A p \in DOMAIN intents : \A j, k \in DOMAIN intents[p].legs :
    intents[p].legs[j].contract = intents[p].legs[k].contract => j = k

RowsInv == OrdersOfIntents /\ RestsAtLimit /\ OneOpenPerLeg /\ DistinctLegs
TickInv == IntentInHand /\ WorkInHand /\ PendingInHand /\ TxnInHand /\ PendingRests
IInv == TypeOK /\ RowsInv /\ TickInv

-----------------------------------------------------------------------------
(* The policy. *)

\* Every leg action comes from one of the three passes over a leg.
LEMMA LegActionCases ==
  ASSUME NEW intent, NEW quotesRead, NEW table, NEW ids, NEW time,
         NEW a \in LegActions(intent, quotesRead, table, ids, time)
  PROVE  \E k \in DOMAIN intent.legs :
           LET leg == intent.legs[k]
               left == RemainingSize(leg, table, ids)
           IN  \/ /\ MustRest(intent, leg, table, ids, time)
                  /\ a = Place(k, "place_passive", leg.limit, left)
               \/ \E i \in ids : /\ MustPull(intent, leg, i, table, ids, time)
                                 /\ a = Cancel(k, i)
               \/ /\ MustCross(intent, leg, table, ids, time)
                  /\ a = Place(k, "place_cross",
                               CrossPrice(leg.side, quotesRead[leg.contract]), left)
  BY DEF LegActions

\* A decision asks for nothing, for the cancels of an expiry, or for the leg
\* actions when every cross has a price.
LEMMA DecisionCases ==
  ASSUME NEW intent, NEW quotesRead, NEW table, NEW ids, NEW time
  PROVE  LET d == EvaluateExecutionAction(intent, quotesRead, table, ids, TRUE, time) IN
         /\ d.status \in ActionStatuses
         /\ \/ d.actions = {}
            \/ d.actions = ExpiryCancels(table, ids)
            \/ /\ d.actions = LegActions(intent, quotesRead, table, ids, time)
               /\ ~NoCrossPrice(intent, quotesRead, table, ids, time)
  BY DEF EvaluateExecutionAction, Decision, ActionStatuses

LEMMA RemainingNat ==
  ASSUME NEW leg, leg.size \in Nat, NEW table, NEW ids
  PROVE  RemainingSize(leg, table, ids) \in Nat
  BY TotalInt DEF RemainingSize, MaxOf

\* A price to cross at, when there is one, is a natural number.
LEMMA CrossPriceNat ==
  ASSUME NEW side, NEW quote \in Quote
  PROVE  CrossPrice(side, quote) \in PriceOrNull
  BY DEF CrossPrice, TakePrice, Coalesce, Quote, PriceOrNull

-----------------------------------------------------------------------------
(* Rows. *)

\* A fill or a cancel leaves an order an order of the same plan and leg.
LEMMA MergeFillFields ==
  ASSUME NEW order \in Order, NEW size \in Nat
  PROVE  LET next == MergeFill(order, size) IN
         /\ next \in Order
         /\ next.plan = order.plan /\ next.contract = order.contract
         /\ next.limit = order.limit
         /\ next.filled = order.filled + size
  <1>1. order.filled + size \in Nat /\ MaxOf(0, order.requested - (order.filled + size)) \in Nat
    BY DEF Order, MaxOf
  <1> QED BY <1>1 DEF MergeFill, Order, OrderStatuses

LEMMA CancelOrderFields ==
  ASSUME NEW order \in Order
  PROVE  LET next == CancelOrder(order) IN
         /\ next \in Order
         /\ next.plan = order.plan /\ next.contract = order.contract
         /\ next.filled = order.filled
         /\ next.status = "cancelled"
  BY DEF CancelOrder, Order, OrderStatuses

LEMMA PlacedFields ==
  ASSUME NEW p \in Plans \cup {OperatorFlatten}, NEW complex \in Complexes,
         NEW leg, leg.contract \in Contracts, leg.side \in Sides,
         NEW style \in {"passive", "cross"}, NEW limit \in Nat, NEW size \in Nat
  PROVE  LET next == Placed(p, complex, leg, style, limit, size) IN
         /\ next \in Order
         /\ next.plan = p /\ next.contract = leg.contract /\ next.limit = limit
         /\ next.status = IF style = "passive" THEN "open" ELSE "filled"
  BY DEF Placed, Order, OrderStatuses

LEMMA UpdateSnapshotRows ==
  ASSUME NEW table, DOMAIN table \subseteq Complexes,
         \A k \in DOMAIN table : table[k] \in [gross : Int, reserved : Int],
         NEW complex \in Complexes, NEW os, NEW ps, NEW qs
  PROVE  LET next == UpdateSnapshot(table, complex, os, ps, qs) IN
         /\ DOMAIN next \subseteq Complexes
         /\ \A k \in DOMAIN next : next[k] \in [gross : Int, reserved : Int]
  <1>1. GrossExposure(complex, ps, qs) \in Int /\ ReservedInComplex(complex, os) \in Int
    BY TotalInt, RoundUsdInt DEF GrossExposure, ReservedInComplex
  <1> QED BY <1>1 DEF UpdateSnapshot, Upsert

-----------------------------------------------------------------------------
(* The invariant holds at first. *)

LEMMA InitIInv == Init => IInv
  <1> SUFFICES ASSUME Init PROVE IInv
    OBVIOUS
  <1>1. orders = <<>> /\ fills = <<>> /\ DOMAIN orders = {} /\ OpenOrders = {}
    BY DEF Init, OpenOrders
  <1>2. DOMAIN intents = {} /\ DOMAIN positions = {} /\ DOMAIN snapshots = {} /\ DOMAIN quotes = {}
    BY DEF Init, NoQuotes
  <1>3. TypeOK
    BY <1>1, <1>2, WorkerAssumption, BrokerAssumption, MoneyAssumption
    DEF TypeOK, Init, Cash, SeedCash, NoFill, Phases, ActionStatuses
  <1>4. RowsInv
    BY <1>1, <1>2 DEF RowsInv, OrdersOfIntents, RestsAtLimit, OneOpenPerLeg, DistinctLegs
  <1>5. TickInv
    BY DEF Init, TickInv, IntentInHand, WorkInHand, PendingInHand, TxnInHand, PendingRests,
           InIntent, Reconciling, Applying, Booking
  <1> QED BY <1>3, <1>4, <1>5 DEF IInv

-----------------------------------------------------------------------------
(* The rows a step may leave behind. *)

\* Nothing about the rows changes when neither intents nor orders do.
LEMMA RowsKept ==
  ASSUME RowsInv, UNCHANGED <<intents, orders>>
  PROVE  RowsInv'
  BY DEF RowsInv, OrdersOfIntents, RestsAtLimit, OneOpenPerLeg, DistinctLegs, OpenOrders

\* One open order is rewritten and stays where it is.
LEMMA OrderRewritten ==
  ASSUME IInv, UNCHANGED intents,
         NEW i \in OpenOrders, NEW next \in Order,
         next.plan = orders[i].plan, next.contract = orders[i].contract,
         next.limit = orders[i].limit,
         orders' = [orders EXCEPT ![i] = next]
  PROVE  /\ RowsInv'
         /\ orders' \in Seq(Order)
         /\ DOMAIN orders' = DOMAIN orders
         /\ orders'[i] = next
         /\ \A j \in DOMAIN orders : j # i => orders'[j] = orders[j]
         /\ OpenOrders' \subseteq OpenOrders
         /\ OpenOrders \ {i} \subseteq OpenOrders'
         /\ \A j \in DOMAIN orders : /\ orders'[j].plan = orders[j].plan
                                     /\ orders'[j].contract = orders[j].contract
                                     /\ orders'[j].limit = orders[j].limit
  <1>1. orders \in Seq(Order) /\ i \in DOMAIN orders
    BY DEF IInv, TypeOK, OpenOrders
  <1>2. /\ orders' \in Seq(Order)
        /\ DOMAIN orders' = DOMAIN orders
        /\ orders'[i] = next
        /\ \A j \in DOMAIN orders : j # i => orders'[j] = orders[j]
    BY <1>1
  <1>3. \A j \in DOMAIN orders : /\ orders'[j].plan = orders[j].plan
                                /\ orders'[j].contract = orders[j].contract
                                /\ orders'[j].limit = orders[j].limit
    BY <1>2
  <1>4. OpenOrders' \subseteq OpenOrders /\ OpenOrders \ {i} \subseteq OpenOrders'
    BY <1>2 DEF OpenOrders
  <1>5. RowsInv'
    <2>1. OrdersOfIntents'
      BY <1>2, <1>3 DEF IInv, RowsInv, OrdersOfIntents
    <2>2. RestsAtLimit'
      <3>1. \A j \in OpenOrders : j \in DOMAIN orders
        BY DEF OpenOrders
      <3> QED BY <1>3, <1>4, <3>1 DEF IInv, RowsInv, RestsAtLimit
    <2>3. OneOpenPerLeg'
      <3>1. \A j \in OpenOrders : j \in DOMAIN orders
        BY DEF OpenOrders
      <3> QED BY <1>3, <1>4, <3>1 DEF IInv, RowsInv, OneOpenPerLeg
    <2>4. DistinctLegs'
      BY DEF IInv, RowsInv, DistinctLegs
    <2> QED BY <2>1, <2>2, <2>3, <2>4 DEF RowsInv
  <1> QED BY <1>2, <1>3, <1>4, <1>5

\* An order is appended.
LEMMA OrderAppended ==
  ASSUME IInv, NEW next \in Order, orders' = Append(orders, next)
  PROVE  /\ orders' \in Seq(Order)
         /\ Len(orders) \in Nat
         /\ Len(orders) + 1 \notin DOMAIN orders
         /\ DOMAIN orders' = DOMAIN orders \cup {Len(orders) + 1}
         /\ orders'[Len(orders) + 1] = next
         /\ \A j \in DOMAIN orders : orders'[j] = orders[j]
         /\ OpenOrders' = OpenOrders \cup (IF next.status = "open"
                                           THEN {Len(orders) + 1} ELSE {})
  <1>1. orders \in Seq(Order)
    BY DEF IInv, TypeOK
  <1>2. /\ orders' \in Seq(Order) /\ Len(orders') = Len(orders) + 1
        /\ \A j \in 1 .. Len(orders) : orders'[j] = orders[j]
        /\ orders'[Len(orders) + 1] = next
    BY <1>1, AppendProperties
  <1>3. /\ Len(orders) \in Nat /\ DOMAIN orders = 1 .. Len(orders)
        /\ DOMAIN orders' = 1 .. Len(orders')
    BY <1>1, <1>2
  <1>4. /\ DOMAIN orders' = DOMAIN orders \cup {Len(orders) + 1}
        /\ Len(orders) + 1 \notin DOMAIN orders
    BY <1>2, <1>3
  <1>5. OpenOrders' = OpenOrders \cup (IF next.status = "open"
                                      THEN {Len(orders) + 1} ELSE {})
    BY <1>2, <1>3, <1>4 DEF OpenOrders
  <1> QED BY <1>2, <1>3, <1>4, <1>5

\* An appended order that is filled disturbs no other row.
LEMMA FilledAppended ==
  ASSUME IInv, UNCHANGED intents, NEW next \in Order, next.status = "filled",
         next.plan \in Plans => /\ next.plan \in DOMAIN intents
                                /\ next.contract \in ContractsOf(intents[next.plan].legs),
         orders' = Append(orders, next)
  PROVE  RowsInv' /\ OpenOrders' = OpenOrders
  <1>1. OpenOrders' = OpenOrders
    BY OrderAppended
  <1>2. \A j \in OpenOrders : j \in DOMAIN orders /\ orders'[j] = orders[j]
    BY OrderAppended DEF OpenOrders
  <1>3. OrdersOfIntents'
    BY OrderAppended DEF IInv, RowsInv, OrdersOfIntents
  <1>4. RestsAtLimit'
    BY <1>1, <1>2 DEF IInv, RowsInv, RestsAtLimit
  <1>5. OneOpenPerLeg'
    BY <1>1, <1>2 DEF IInv, RowsInv, OneOpenPerLeg
  <1> QED BY <1>1, <1>3, <1>4, <1>5 DEF IInv, RowsInv, DistinctLegs

-----------------------------------------------------------------------------
(* Every step preserves the invariant: the start of a tick. *)

LEMMA BeginTickStep == IInv /\ BeginTick => IInv'
  <1> SUFFICES ASSUME IInv, BeginTick PROVE IInv'
    OBVIOUS
  <1>1. UNCHANGED <<intents, orders, plan, quotes, work, pending, txn>> /\ pc = "idle" /\ pc' = "scan"
    BY DEF BeginTick, tableVars
  <1>2. TypeOK'
    BY DEF IInv, TypeOK, BeginTick, tableVars, envVars, Phases
  <1>3. RowsInv'
    BY <1>1, RowsKept DEF IInv
  <1>4. TickInv'
    BY <1>1 DEF IInv, TickInv, IntentInHand, WorkInHand, PendingInHand, TxnInHand, PendingRests,
                InIntent, Reconciling, Applying, Booking
  <1> QED BY <1>2, <1>3, <1>4 DEF IInv

LEMMA ScanIntentsStep == IInv /\ ScanIntents => IInv'
  <1> SUFFICES ASSUME IInv, ScanIntents PROVE IInv'
    OBVIOUS
  <1>1. /\ UNCHANGED <<intents, orders, plan, quotes, work, pending, txn>>
        /\ pc = "scan" /\ pc' = "ensure"
    BY DEF ScanIntents, tableVars
  <1>2. TypeOK'
    <2>1. rows' \subseteq DOMAIN intents
      BY DEF ScanIntents
    <2> QED BY <2>1 DEF IInv, TypeOK, ScanIntents, tableVars, envVars, Phases
  <1>3. RowsInv'
    BY <1>1, RowsKept DEF IInv
  <1>4. TickInv'
    BY <1>1 DEF IInv, TickInv, IntentInHand, WorkInHand, PendingInHand, TxnInHand, PendingRests,
                InIntent, Reconciling, Applying, Booking
  <1> QED BY <1>2, <1>3, <1>4 DEF IInv

LEMMA EnsureCashStep == IInv /\ EnsureCash => IInv'
  <1> SUFFICES ASSUME IInv, EnsureCash PROVE IInv'
    OBVIOUS
  <1>1. /\ UNCHANGED <<intents, orders, plan, quotes, pending, txn>>
        /\ pc = "ensure" /\ pc' \in {"cancel", "next"}
        /\ work' \subseteq OpenOrders
    BY DEF EnsureCash
  <1>2. OpenOrders \subseteq DOMAIN orders /\ OpenOrders' = OpenOrders
    BY <1>1 DEF OpenOrders
  <1>3. TypeOK'
    <2>1. cash' \in Cash
      BY RecomputeCashFields DEF IInv, TypeOK, Cash, EnsureCash
    <2>2. \A i \in DOMAIN orders : orders[i].complex \in Complexes
      <3>1. \A i \in DOMAIN orders : orders[i] \in Order
        BY DEF IInv, TypeOK
      <3> QED BY <3>1 DEF Order
    <2>3. touched' \subseteq Complexes
      <3>1. touched' = {orders[i].complex : i \in work'}
        BY DEF EnsureCash
      <3>2. \A i \in work' : orders[i].complex \in Complexes
        BY <1>1, <1>2, <2>2
      <3> QED BY <3>1, <3>2
    <2>4. rows' \subseteq DOMAIN intents
      BY DEF IInv, TypeOK, EnsureCash
    <2> QED BY <1>1, <1>2, <2>1, <2>3, <2>4 DEF IInv, TypeOK, EnsureCash, envVars, Phases
  <1>4. RowsInv'
    BY <1>1, RowsKept DEF IInv
  <1>5. TickInv'
    BY <1>1, <1>2 DEF IInv, TickInv, IntentInHand, WorkInHand, PendingInHand, TxnInHand,
                      PendingRests, InIntent, Reconciling, Applying, Booking
  <1> QED BY <1>3, <1>4, <1>5 DEF IInv

LEMMA EndTickStep == IInv /\ EndTick => IInv'
  <1> SUFFICES ASSUME IInv, EndTick PROVE IInv'
    OBVIOUS
  <1>1. UNCHANGED <<intents, orders, plan, quotes, work, pending, txn>> /\ pc = "next" /\ pc' = "idle"
    BY DEF EndTick, tableVars
  <1>2. TypeOK'
    BY DEF IInv, TypeOK, EndTick, tableVars, envVars, Phases
  <1>3. RowsInv'
    BY <1>1, RowsKept DEF IInv
  <1>4. TickInv'
    BY <1>1 DEF IInv, TickInv, IntentInHand, WorkInHand, PendingInHand, TxnInHand, PendingRests,
                InIntent, Reconciling, Applying, Booking
  <1> QED BY <1>2, <1>3, <1>4 DEF IInv

-----------------------------------------------------------------------------
(* The booking of a fill. *)

LEMMA PersistFillStep == IInv /\ PersistFill => IInv'
  <1> SUFFICES ASSUME IInv, PersistFill PROVE IInv'
    OBVIOUS
  <1>1. /\ UNCHANGED <<intents, orders, plan, quotes, work, pending, txn>>
        /\ pc = "fill" /\ pc' = "position"
    BY DEF PersistFill
  <1>2. TypeOK'
    <2>1. txn.order \in DOMAIN orders
      BY <1>1 DEF IInv, TickInv, TxnInHand, Booking
    <2>2. orders[txn.order] \in Order /\ txn.order \in Nat
      BY <2>1 DEF IInv, TypeOK
    <2>3. txn.size \in Nat /\ txn.price \in Nat
      BY DEF IInv, TypeOK
    <2>4. FillCents \in Int
      BY <2>3, RoundUsdInt DEF FillCents
    <2>5. [order |-> txn.order, contract |-> orders[txn.order].contract,
           side |-> orders[txn.order].side, size |-> txn.size, cents |-> FillCents] \in Fill
      BY <2>2, <2>3, <2>4 DEF Fill, Order
    <2>6. fills' \in Seq(Fill)
      BY <2>5 DEF IInv, TypeOK, PersistFill
    <2> QED BY <2>6 DEF IInv, TypeOK, PersistFill, envVars, Phases
  <1>3. RowsInv'
    BY <1>1, RowsKept DEF IInv
  <1>4. TickInv'
    BY <1>1 DEF IInv, TickInv, IntentInHand, WorkInHand, PendingInHand, TxnInHand, PendingRests,
                InIntent, Reconciling, Applying, Booking, OpenOrders
  <1> QED BY <1>2, <1>3, <1>4 DEF IInv

LEMMA PersistPositionStep == IInv /\ PersistPosition => IInv'
  <1> SUFFICES ASSUME IInv, PersistPosition PROVE IInv'
    OBVIOUS
  <1>1. /\ UNCHANGED <<intents, orders, plan, quotes, work, pending, txn>>
        /\ pc = "position" /\ pc' = "cash"
    BY DEF PersistPosition
  <1>2. TypeOK'
    <2> DEFINE order == orders[txn.order]
               old == PositionOf(order.contract, order.complex)
               next == RealizeAgainstPosition(old, order.side, txn.size, txn.price)
    <2>1. txn.order \in DOMAIN orders
      BY <1>1 DEF IInv, TickInv, TxnInHand, Booking
    <2>2. order \in Order
      BY <2>1 DEF IInv, TypeOK
    <2>3. txn.size \in Nat /\ txn.price \in Nat
      BY DEF IInv, TypeOK
    <2>4. old \in Position
      BY <2>2 DEF IInv, TypeOK, PositionOf, Position, Order
    <2>5. next \in Position
      BY <2>2, <2>3, <2>4, RealizeFields DEF Position, Order
    <2>6. held' \in Cash
      <3>1. FillCents \in Int
        BY <2>3, RoundUsdInt DEF FillCents
      <3> QED BY <3>1, CashAfterFillInt DEF IInv, TypeOK, PersistPosition, Cash
    <2>7. positions' = Upsert(positions, order.contract, next)
      BY DEF PersistPosition
    <2>8. order.contract \in Contracts
      BY <2>2 DEF Order
    <2> HIDE DEF order, next
    <2>9. /\ DOMAIN positions' \subseteq Contracts
          /\ DOMAIN positions \subseteq DOMAIN positions'
          /\ \A c \in DOMAIN positions' : positions'[c] \in Position
      BY <2>5, <2>7, <2>8 DEF IInv, TypeOK, Upsert
    <2> QED BY <2>6, <2>9 DEF IInv, TypeOK, PersistPosition, envVars, Phases
  <1>3. RowsInv'
    BY <1>1, RowsKept DEF IInv
  <1>4. TickInv'
    BY <1>1 DEF IInv, TickInv, IntentInHand, WorkInHand, PendingInHand, TxnInHand, PendingRests,
                InIntent, Reconciling, Applying, Booking, OpenOrders
  <1> QED BY <1>2, <1>3, <1>4 DEF IInv

LEMMA PersistCashStep == IInv /\ PersistCash => IInv'
  <1> SUFFICES ASSUME IInv, PersistCash PROVE IInv'
    OBVIOUS
  <1>1. /\ UNCHANGED <<intents, orders, plan, quotes, work, pending>>
        /\ pc = "cash" /\ pc' = txn.back /\ txn' = NoFill
        /\ txn.back \in {"reconcile", "apply", "close"}
    BY DEF PersistCash, IInv, TypeOK, TickInv, TxnInHand, Booking
  <1>2. TypeOK'
    <2>1. SeedCash \in Cash
      BY BrokerAssumption, MoneyAssumption DEF SeedCash, Cash
    <2>2. cash' \in Cash /\ held' \in Cash
      BY <2>1 DEF IInv, TypeOK, PersistCash
    <2>3. txn' \in [order : DOMAIN orders \cup {0}, price : Nat, size : Nat,
                    back : {"idle", "reconcile", "apply", "close"}]
      BY <1>1 DEF NoFill
    <2> QED BY <1>1, <2>2, <2>3 DEF IInv, TypeOK, PersistCash, envVars, Phases
  <1>3. RowsInv'
    BY <1>1, RowsKept DEF IInv
  <1>4. TickInv'
    BY <1>1 DEF IInv, TickInv, IntentInHand, WorkInHand, PendingInHand, TxnInHand, PendingRests,
                InIntent, Reconciling, Applying, Booking, OpenOrders
  <1> QED BY <1>2, <1>3, <1>4 DEF IInv

-----------------------------------------------------------------------------
(* One intent: reading, reconciling and deciding. *)

LEMMA IntentFields ==
  ASSUME TypeOK, NEW p \in DOMAIN intents
  PROVE  /\ intents[p].complex \in Complexes
         /\ intents[p].legs \in Seq(Leg)
         /\ ContractsOf(intents[p].legs) \subseteq Contracts
         /\ \A k \in DOMAIN intents[p].legs :
              /\ k \in Nat
              /\ intents[p].legs[k] \in Leg
              /\ intents[p].legs[k].contract \in ContractsOf(intents[p].legs)
              /\ intents[p].legs[k].limit \in Nat /\ intents[p].legs[k].size \in Nat
  <1>1. intents[p] \in Intent
    BY DEF TypeOK
  <1>2. intents[p].complex \in Complexes /\ intents[p].legs \in Seq(Leg)
    BY <1>1 DEF Intent
  <1>3. \A k \in DOMAIN intents[p].legs : k \in Nat /\ intents[p].legs[k] \in Leg
    BY <1>2
  <1>4. \A k \in DOMAIN intents[p].legs :
          /\ intents[p].legs[k].contract \in Contracts
          /\ intents[p].legs[k].contract \in ContractsOf(intents[p].legs)
          /\ intents[p].legs[k].limit \in Nat /\ intents[p].legs[k].size \in Nat
    BY <1>3 DEF Leg, ContractsOf
  <1>5. ContractsOf(intents[p].legs) \subseteq Contracts
    BY <1>4 DEF ContractsOf
  <1> QED BY <1>2, <1>3, <1>4, <1>5

LEMMA LoadIntentStep == ASSUME NEW p \in Plans PROVE IInv /\ LoadIntent(p) => IInv'
  <1> SUFFICES ASSUME IInv, LoadIntent(p) PROVE IInv'
    OBVIOUS
  <1>1. /\ UNCHANGED <<tableVars, pending, txn>>
        /\ pc = "next" /\ pc' = "reconcile" /\ plan' = p /\ p \in rows
        /\ quotes' \in [ContractsOf(intents[p].legs) -> Quotes]
        /\ work' = {i \in PlanOrders(p) \cap OpenOrders :
                      Executable(orders[i], quotes'[orders[i].contract])}
    BY DEF LoadIntent
  <1>2. p \in DOMAIN intents
    BY <1>1 DEF IInv, TypeOK
  <1>3. pending = {} /\ UNCHANGED <<intents, orders>>
    BY <1>1 DEF IInv, TickInv, PendingInHand, Applying, Booking, tableVars
  <1>4. TypeOK'
    <2>1. /\ DOMAIN quotes' \subseteq Contracts
          /\ \A c \in DOMAIN quotes' : quotes'[c] \in Quote
      BY <1>1, <1>2, IntentFields, WorkerAssumption DEF IInv
    <2>2. work' \subseteq DOMAIN orders
      BY <1>1 DEF OpenOrders
    <2>3. rows' \subseteq DOMAIN intents
      BY DEF LoadIntent, IInv, TypeOK
    <2> QED BY <1>1, <1>2, <2>1, <2>2, <2>3
            DEF LoadIntent, IInv, TypeOK, tableVars, envVars, Phases
  <1>5. RowsInv'
    BY <1>3, RowsKept DEF IInv
  <1>6. TickInv'
    <2>1. IntentInHand'
      BY <1>1, <1>2, <1>3 DEF IntentInHand
    <2>2. WorkInHand'
      BY <1>1, <1>3 DEF WorkInHand, PlanOrders, OpenOrders
    <2>3. TxnInHand'
      BY <1>1 DEF TxnInHand, Booking
    <2> QED BY <1>1, <1>3, <2>1, <2>2, <2>3 DEF TickInv, PendingInHand, PendingRests
  <1> QED BY <1>4, <1>5, <1>6 DEF IInv

LEMMA ReconcileFillStep == IInv /\ ReconcileFill => IInv'
  <1> SUFFICES ASSUME IInv, ReconcileFill PROVE IInv'
    OBVIOUS
  <1>1. PICK i \in work :
          /\ orders' = [orders EXCEPT ![i] =
               MergeFill(orders[i], ExecutableSize(orders[i], quotes[orders[i].contract]))]
          /\ txn' = [order |-> i,
                     price |-> ExecutablePrice(orders[i], quotes[orders[i].contract]),
                     size |-> ExecutableSize(orders[i], quotes[orders[i].contract]),
                     back |-> "reconcile"]
          /\ work' = work \ {i}
    BY DEF ReconcileFill
  <1> DEFINE quote == quotes[orders[i].contract]
             size == ExecutableSize(orders[i], quote)
             price == ExecutablePrice(orders[i], quote)
             next == MergeFill(orders[i], size)
  <1>2. /\ pc = "reconcile" /\ pc' = "fill"
        /\ UNCHANGED <<intents, operator, fills, cash, positions, snapshots, actions,
                       now, seen, rows, plan, quotes, pending, held, toClose, touched, envVars>>
    BY DEF ReconcileFill
  <1>3. /\ work \subseteq OpenOrders
        /\ \A j \in work : /\ orders[j].plan = plan
                           /\ Executable(orders[j], quotes[orders[j].contract])
    BY <1>2 DEF IInv, TickInv, WorkInHand, Reconciling
  <1>4. i \in DOMAIN orders /\ orders[i] \in Order
    BY <1>3 DEF IInv, TypeOK, OpenOrders
  <1>5. plan \in Plans /\ plan \in DOMAIN intents /\ ContractsOf(intents[plan].legs) \subseteq DOMAIN quotes
    BY <1>2 DEF IInv, TickInv, IntentInHand, InIntent, TypeOK
  <1>6. orders[i].contract \in DOMAIN quotes
    BY <1>3, <1>4, <1>5 DEF IInv, RowsInv, OrdersOfIntents
  <1>7. quote \in Quote
    BY <1>6 DEF IInv, TypeOK
  <1>8. size \in Nat /\ price \in Nat
    <2>1. orders[i].remaining \in Nat /\ orders[i].side \in Sides
      BY <1>4 DEF Order
    <2>2. Executable(orders[i], quote)
      BY <1>3
    <2> HIDE DEF quote
    <2> QED BY <1>7, <2>1, <2>2, ExecutableFields
  <1>9. /\ next \in Order
        /\ next.plan = orders[i].plan /\ next.contract = orders[i].contract
        /\ next.limit = orders[i].limit
    BY <1>4, <1>8, MergeFillFields
  <1>10. orders' = [orders EXCEPT ![i] = next] /\ i \in OpenOrders
    BY <1>1, <1>3
  <1> HIDE DEF next, size, price
  <1>11. /\ RowsInv' /\ orders' \in Seq(Order) /\ DOMAIN orders' = DOMAIN orders
         /\ \A j \in DOMAIN orders : j # i => orders'[j] = orders[j]
         /\ OpenOrders \ {i} \subseteq OpenOrders'
    BY <1>2, <1>9, <1>10, OrderRewritten
  <1>12. txn' \in [order : DOMAIN orders \cup {0}, price : Nat, size : Nat,
                   back : {"idle", "reconcile", "apply", "close"}]
    BY <1>1, <1>4, <1>8 DEF size, price
  <1>13. TypeOK'
    BY <1>1, <1>2, <1>11, <1>12 DEF IInv, TypeOK, envVars, Phases
  <1>14. TickInv'
    <2>1. pending = {}
      BY <1>2 DEF IInv, TickInv, PendingInHand, Applying, Booking
    <2>2. WorkInHand'
      <3>1. \A j \in work' : j \in work /\ j # i /\ j \in DOMAIN orders
        BY <1>1, <1>3 DEF OpenOrders
      <3>2. \A j \in work' : orders'[j] = orders[j]
        BY <1>11, <3>1
      <3>3. work' \subseteq OpenOrders'
        BY <1>1, <1>3, <1>11
      <3> QED BY <1>2, <1>3, <3>1, <3>2, <3>3 DEF WorkInHand
    <2>3. IntentInHand'
      BY <1>2, <1>5 DEF IntentInHand
    <2>4. TxnInHand'
      BY <1>1, <1>4, <1>11 DEF TxnInHand
    <2> QED BY <1>2, <2>1, <2>2, <2>3, <2>4 DEF TickInv, PendingInHand, PendingRests
  <1> QED BY <1>11, <1>13, <1>14 DEF IInv

LEMMA FinishReconcileStep == IInv /\ FinishReconcile => IInv'
  <1> SUFFICES ASSUME IInv, FinishReconcile PROVE IInv'
    OBVIOUS
  <1>1. /\ UNCHANGED <<intents, orders, plan, quotes, work, pending, txn>>
        /\ pc = "reconcile" /\ pc' = "evaluate"
    BY DEF FinishReconcile
  <1>2. TypeOK'
    <2>1. plan \in DOMAIN intents
      BY <1>1 DEF IInv, TickInv, IntentInHand, InIntent
    <2>2. intents[plan].complex \in Complexes
      BY <2>1, IntentFields DEF IInv
    <2>3. /\ DOMAIN snapshots' \subseteq Complexes
          /\ \A k \in DOMAIN snapshots' : snapshots'[k] \in [gross : Int, reserved : Int]
      BY <2>2, UpdateSnapshotRows DEF FinishReconcile, IInv, TypeOK
    <2> QED BY <2>3 DEF IInv, TypeOK, FinishReconcile, envVars, Phases
  <1>3. RowsInv'
    BY <1>1, RowsKept DEF IInv
  <1>4. TickInv'
    BY <1>1 DEF IInv, TickInv, IntentInHand, WorkInHand, PendingInHand, TxnInHand, PendingRests,
                InIntent, Reconciling, Applying, Booking, OpenOrders
  <1> QED BY <1>2, <1>3, <1>4 DEF IInv

\* A resting order of the plan on a leg's contract rests at the leg's limit.
LEMMA RestingFound ==
  ASSUME IInv, NEW p \in DOMAIN intents, NEW k \in DOMAIN intents[p].legs,
         NEW i \in OpenOrders, orders[i].plan = p,
         orders[i].contract = intents[p].legs[k].contract
  PROVE  i \in RestingOf(intents[p].legs[k], orders, PlanOrders(p))
  <1>1. PICK j \in DOMAIN intents[p].legs :
          /\ orders[i].contract = intents[p].legs[j].contract
          /\ orders[i].limit = intents[p].legs[j].limit
    BY DEF IInv, RowsInv, RestsAtLimit
  <1>2. j = k
    BY <1>1 DEF IInv, RowsInv, DistinctLegs
  <1>3. i \in DOMAIN orders /\ orders[i].status = "open"
    BY DEF OpenOrders
  <1> QED BY <1>1, <1>2, <1>3 DEF RestingOf, OpenOf, OfLeg, PlanOrders, PassivePriceUsed

\* The leg actions decided for the plan in hand: each is well formed, cancels
\* name open orders, and an order is only put to rest where none rests.
LEMMA LegActionFacts ==
  ASSUME IInv, plan \in DOMAIN intents,
         ContractsOf(intents[plan].legs) \subseteq DOMAIN quotes,
         ~NoCrossPrice(intents[plan], quotes, orders, PlanOrders(plan), now),
         NEW a \in LegActions(intents[plan], quotes, orders, PlanOrders(plan), now)
  PROVE  /\ a \in LegAction
         /\ a.leg \in DOMAIN intents[plan].legs
         /\ a.kind = "cancel" => /\ a.order \in OpenOrders
                                 /\ orders[a.order].contract = intents[plan].legs[a.leg].contract
                                 /\ a = Cancel(a.leg, a.order)
         /\ a.kind # "cancel" => a.price \in Nat
         /\ a.kind = "place_passive" =>
              /\ a = Place(a.leg, "place_passive", intents[plan].legs[a.leg].limit,
                           RemainingSize(intents[plan].legs[a.leg], orders, PlanOrders(plan)))
              /\ \A i \in OpenOrders : orders[i].plan = plan =>
                   orders[i].contract # intents[plan].legs[a.leg].contract
  <1> DEFINE intent == intents[plan]
             ids == PlanOrders(plan)
             left(k) == RemainingSize(intent.legs[k], orders, ids)
             cross(k) == CrossPrice(intent.legs[k].side, quotes[intent.legs[k].contract])
  <1>1. PICK k \in DOMAIN intent.legs :
          \/ /\ MustRest(intent, intent.legs[k], orders, ids, now)
             /\ a = Place(k, "place_passive", intent.legs[k].limit, left(k))
          \/ \E i \in ids : /\ MustPull(intent, intent.legs[k], i, orders, ids, now)
                            /\ a = Cancel(k, i)
          \/ /\ MustCross(intent, intent.legs[k], orders, ids, now)
             /\ a = Place(k, "place_cross", cross(k), left(k))
    BY LegActionCases
  <1>2. /\ k \in Nat /\ intent.legs[k] \in Leg
        /\ intent.legs[k].limit \in Nat /\ intent.legs[k].size \in Nat
        /\ intent.legs[k].contract \in DOMAIN quotes
    BY IntentFields DEF IInv
  <1>3. left(k) \in Nat
    BY <1>2, RemainingNat
  <1>4. cross(k) \in PriceOrNull
    <2>1. quotes[intent.legs[k].contract] \in Quote
      BY <1>2 DEF IInv, TypeOK
    <2> QED BY <2>1, CrossPriceNat
  <1>5. CASE /\ MustRest(intent, intent.legs[k], orders, ids, now)
             /\ a = Place(k, "place_passive", intent.legs[k].limit, left(k))
    <2>1. RestingOf(intent.legs[k], orders, ids) = {}
      BY <1>5 DEF MustRest
    <2>2. \A i \in OpenOrders : orders[i].plan = plan =>
            orders[i].contract # intents[plan].legs[k].contract
      BY <2>1, RestingFound
    <2>3. /\ a.leg = k /\ a.kind = "place_passive" /\ a.price = intent.legs[k].limit
          /\ a \in LegAction
      BY <1>2, <1>3, <1>5 DEF Place, LegAction, PriceOrNull
    <2> QED BY <1>2, <1>5, <2>2, <2>3
  <1>6. CASE \E i \in ids : /\ MustPull(intent, intent.legs[k], i, orders, ids, now)
                            /\ a = Cancel(k, i)
    <2>1. PICK i \in ids : /\ MustPull(intent, intent.legs[k], i, orders, ids, now)
                           /\ a = Cancel(k, i)
      BY <1>6
    <2>2. i \in OpenOrders /\ orders[i].contract = intent.legs[k].contract
      BY <2>1 DEF MustPull, RestingOf, OpenOf, OfLeg, OpenOrders, PlanOrders
    <2>3. i \in Nat
      BY <2>2 DEF OpenOrders, IInv, TypeOK
    <2>4. a.leg = k /\ a.kind = "cancel" /\ a.order = i /\ a \in LegAction
      BY <1>2, <2>1, <2>3 DEF Cancel, LegAction, PriceOrNull
    <2> QED BY <2>1, <2>2, <2>4
  <1>7. CASE /\ MustCross(intent, intent.legs[k], orders, ids, now)
             /\ a = Place(k, "place_cross", cross(k), left(k))
    <2>1. cross(k) # Null
      BY <1>7 DEF NoCrossPrice
    <2>2. cross(k) \in Nat
      BY <1>4, <2>1 DEF PriceOrNull
    <2>3. a.leg = k /\ a.kind = "place_cross" /\ a.price = cross(k) /\ a \in LegAction
      BY <1>2, <1>3, <1>4, <1>7 DEF Place, LegAction
    <2> QED BY <2>2, <2>3
  <1> QED BY <1>1, <1>5, <1>6, <1>7

LEMMA EvaluateIntentStep == IInv /\ EvaluateIntent => IInv'
  <1> SUFFICES ASSUME IInv, EvaluateIntent PROVE IInv'
    OBVIOUS
  <1> DEFINE acts == LegActions(intents[plan], quotes, orders, PlanOrders(plan), now)
             cancels == ExpiryCancels(orders, PlanOrders(plan))
  <1>1. /\ UNCHANGED <<intents, orders, plan, quotes, work, txn>>
        /\ pc = "evaluate" /\ pc' = "apply" /\ pending' = PlanDecision.actions
    BY DEF EvaluateIntent
  <1>2. /\ plan \in DOMAIN intents
        /\ ContractsOf(intents[plan].legs) \subseteq DOMAIN quotes
    BY <1>1 DEF IInv, TickInv, IntentInHand, InIntent
  <1>3. /\ PlanDecision.status \in ActionStatuses
        /\ \/ pending' = {}
           \/ pending' = cancels
           \/ /\ pending' = acts
              /\ ~NoCrossPrice(intents[plan], quotes, orders, PlanOrders(plan), now)
    <2> DEFINE d == EvaluateExecutionAction(intents[plan], quotes, orders, PlanOrders(plan),
                                            TRUE, now)
    <2>1. /\ d.status \in ActionStatuses
          /\ \/ d.actions = {}
             \/ d.actions = cancels
             \/ /\ d.actions = acts
                /\ ~NoCrossPrice(intents[plan], quotes, orders, PlanOrders(plan), now)
      BY DecisionCases
    <2>2. PlanDecision = Decision("completed", {}) \/ PlanDecision = d
      BY DEF PlanDecision
    <2> HIDE DEF d, acts, cancels
    <2>3. CASE PlanDecision = d
      BY <1>1, <2>1, <2>3
    <2>4. CASE PlanDecision = Decision("completed", {})
      BY <1>1, <2>4 DEF Decision, ActionStatuses
    <2> QED BY <2>2, <2>3, <2>4
  <1>4. \A a \in cancels : /\ a = Cancel(0, a.order) /\ a.kind = "cancel"
                           /\ a.order \in OpenOrders /\ a \in LegAction
    <2>1. ASSUME NEW i \in OpenOf(orders, PlanOrders(plan))
          PROVE  i \in OpenOrders /\ i \in Nat
      BY DEF OpenOf, PlanOrders, OpenOrders, IInv, TypeOK
    <2> QED BY <2>1 DEF ExpiryCancels, Cancel, LegAction, PriceOrNull
  <1> HIDE DEF acts, cancels
  <1>5. /\ pending' \subseteq LegAction
        /\ PendingInHand' /\ PendingRests'
    <2>1. CASE pending' = {}
      BY <2>1 DEF PendingInHand, PendingRests
    <2>2. CASE pending' = cancels
      <3>1. \A a \in pending' : /\ a = Cancel(0, a.order) /\ a.kind = "cancel"
                                /\ a.order \in OpenOrders' /\ a \in LegAction
        BY <1>1, <1>4, <2>2 DEF OpenOrders
      <3>2. PendingInHand'
        BY <1>1, <3>1 DEF PendingInHand, Applying
      <3>3. PendingRests'
        BY <3>1 DEF PendingRests
      <3> QED BY <3>1, <3>2, <3>3
    <2>3. CASE /\ pending' = acts
               /\ ~NoCrossPrice(intents[plan], quotes, orders, PlanOrders(plan), now)
      <3>1. \A a \in pending' :
              /\ a \in LegAction
              /\ a.leg \in DOMAIN intents[plan].legs
              /\ a.kind = "cancel" =>
                   /\ a.order \in OpenOrders
                   /\ orders[a.order].contract = intents[plan].legs[a.leg].contract
                   /\ a = Cancel(a.leg, a.order)
              /\ a.kind # "cancel" => a.price \in Nat
              /\ a.kind = "place_passive" =>
                   /\ a = Place(a.leg, "place_passive", intents[plan].legs[a.leg].limit,
                                RemainingSize(intents[plan].legs[a.leg], orders, PlanOrders(plan)))
                   /\ \A i \in OpenOrders : orders[i].plan = plan =>
                        orders[i].contract # intents[plan].legs[a.leg].contract
        BY <1>2, <2>3, LegActionFacts DEF acts
      <3>2. OpenOrders' = OpenOrders
        BY <1>1 DEF OpenOrders
      <3>3. \A a, b \in pending' :
              a.kind = "cancel" /\ b.kind = "cancel" /\ a.order = b.order => a = b
        <4> SUFFICES ASSUME NEW a \in pending', NEW b \in pending',
                            a.kind = "cancel", b.kind = "cancel", a.order = b.order
                     PROVE  a = b
          OBVIOUS
        <4>1. intents[plan].legs[a.leg].contract = intents[plan].legs[b.leg].contract
          BY <3>1
        <4>2. a.leg = b.leg
          BY <1>2, <3>1, <4>1 DEF IInv, RowsInv, DistinctLegs
        <4> QED BY <3>1, <4>2
      <3>4. PendingInHand'
        BY <1>1, <3>1, <3>2, <3>3 DEF PendingInHand, Applying
      <3>5. \A a \in pending' : a.kind = "place_passive" =>
              a.price = intents[plan].legs[a.leg].limit
        BY <3>1 DEF Place
      <3>6. \A a, b \in pending' :
              a.kind = "place_passive" /\ b.kind = "place_passive" /\ a.leg = b.leg => a = b
        BY <3>1
      <3>7. PendingRests'
        BY <1>1, <3>1, <3>2, <3>5, <3>6 DEF PendingRests
      <3> QED BY <3>1, <3>4, <3>7
    <2> QED BY <1>3, <2>1, <2>2, <2>3
  <1>6. TypeOK'
    <2>1. held' \in Cash
      BY RecomputeCashFields DEF EvaluateIntent, IInv, TypeOK, Cash
    <2>2. actions' \in [Plans -> ActionStatuses \cup {"none"}]
      BY <1>3 DEF EvaluateIntent, IInv, TypeOK
    <2> QED BY <1>5, <2>1, <2>2 DEF IInv, TypeOK, EvaluateIntent, envVars, Phases
  <1>7. RowsInv'
    BY <1>1, RowsKept DEF IInv
  <1>8. IntentInHand' /\ WorkInHand' /\ TxnInHand'
    BY <1>1, <1>2 DEF IntentInHand, WorkInHand, TxnInHand, Reconciling, Booking
  <1> QED BY <1>5, <1>6, <1>7, <1>8 DEF IInv, TickInv

-----------------------------------------------------------------------------
(* Applying the leg actions. *)

\* The variables no leg action changes.
ApplyFrame ==
  UNCHANGED <<intents, operator, fills, cash, positions, snapshots, actions,
              now, seen, rows, plan, quotes, work, toClose, touched, envVars>>

LEMMA ApplyCancelStep ==
  ASSUME IInv, pc = "apply", NEW a \in pending, pending' = pending \ {a}, ApplyFrame,
         ApplyCancel(a)
  PROVE  IInv'
  <1> DEFINE next == CancelOrder(orders[a.order])
  <1>1. /\ a.kind = "cancel" /\ pc' = "restate" /\ UNCHANGED <<txn, held>>
        /\ orders' = [orders EXCEPT ![a.order] = next]
        /\ UNCHANGED <<intents, plan, quotes, work>>
    BY DEF ApplyCancel, ApplyFrame
  <1>2. a.order \in OpenOrders
    BY <1>1 DEF IInv, TickInv, PendingInHand
  <1>3. orders[a.order] \in Order
    BY <1>2 DEF OpenOrders, IInv, TypeOK
  <1>4. /\ next \in Order
        /\ next.plan = orders[a.order].plan /\ next.contract = orders[a.order].contract
        /\ next.limit = orders[a.order].limit
    BY <1>3, CancelOrderFields DEF CancelOrder, Order
  <1> HIDE DEF next
  <1>5. /\ RowsInv' /\ orders' \in Seq(Order) /\ DOMAIN orders' = DOMAIN orders
        /\ OpenOrders' \subseteq OpenOrders
        /\ OpenOrders \ {a.order} \subseteq OpenOrders'
        /\ \A j \in DOMAIN orders : /\ orders'[j].plan = orders[j].plan
                                    /\ orders'[j].contract = orders[j].contract
    BY <1>1, <1>2, <1>4, OrderRewritten
  <1>6. TypeOK'
    BY <1>1, <1>5 DEF ApplyFrame, IInv, TypeOK, envVars, Phases
  <1>7. PendingInHand'
    <2>1. \A b \in pending' : b.kind = "cancel" => b.order \in OpenOrders'
      BY <1>1, <1>5 DEF IInv, TickInv, PendingInHand
    <2> QED BY <1>1, <2>1 DEF IInv, TickInv, PendingInHand, Applying
  <1>8. PendingRests'
    <2>1. \A j \in OpenOrders' : /\ j \in OpenOrders
                                 /\ orders'[j].plan = orders[j].plan
                                 /\ orders'[j].contract = orders[j].contract
      BY <1>5 DEF OpenOrders
    <2> QED BY <1>1, <2>1 DEF IInv, TickInv, PendingRests
  <1>9. IntentInHand' /\ WorkInHand' /\ TxnInHand'
    BY <1>1 DEF IInv, TickInv, IntentInHand, WorkInHand, TxnInHand, InIntent, Reconciling, Booking
  <1> QED BY <1>5, <1>6, <1>7, <1>8, <1>9 DEF IInv, TickInv

LEMMA ApplyUnaffordableStep ==
  ASSUME IInv, pc = "apply", NEW a \in pending, pending' = pending \ {a}, ApplyFrame,
         ApplyUnaffordable(a)
  PROVE  IInv'
  <1>1. /\ UNCHANGED <<pc, orders, txn, held, intents, plan, quotes, work>>
        /\ pending' \subseteq pending
    BY DEF ApplyUnaffordable, ApplyFrame
  <1>2. TypeOK'
    BY <1>1 DEF ApplyFrame, IInv, TypeOK, envVars
  <1>3. RowsInv'
    BY <1>1, RowsKept DEF IInv
  <1>4. OpenOrders' = OpenOrders
    BY <1>1 DEF OpenOrders
  <1>5. PendingInHand' /\ PendingRests'
    BY <1>1, <1>4 DEF IInv, TickInv, PendingInHand, PendingRests, Applying, Booking
  <1>6. IntentInHand' /\ WorkInHand' /\ TxnInHand'
    BY <1>1, <1>4 DEF IInv, TickInv, IntentInHand, WorkInHand, TxnInHand, InIntent,
                      Reconciling, Booking
  <1> QED BY <1>2, <1>3, <1>5, <1>6 DEF IInv, TickInv

\* What a placement writes.
LEMMA PlacementFields ==
  ASSUME IInv, pc = "apply", NEW a \in pending, a.kind # "cancel", NEW style \in {"passive", "cross"}
  PROVE  LET leg == intents[plan].legs[a.leg]
             next == Placed(plan, intents[plan].complex, leg, style, a.price, SizeFor(a))
         IN  /\ plan \in Plans /\ plan \in DOMAIN intents
             /\ ContractsOf(intents[plan].legs) \subseteq DOMAIN quotes
             /\ a.leg \in DOMAIN intents[plan].legs /\ a.price \in Nat /\ SizeFor(a) \in Nat
             /\ leg.contract \in ContractsOf(intents[plan].legs)
             /\ next \in Order
             /\ next.plan = plan /\ next.contract = leg.contract /\ next.limit = a.price
             /\ next.status = IF style = "passive" THEN "open" ELSE "filled"
  <1> DEFINE leg == intents[plan].legs[a.leg]
  <1>1. /\ plan \in DOMAIN intents
        /\ ContractsOf(intents[plan].legs) \subseteq DOMAIN quotes
    BY DEF IInv, TickInv, IntentInHand, InIntent
  <1>2. plan \in Plans
    BY <1>1 DEF IInv, TypeOK
  <1>3. a.leg \in DOMAIN intents[plan].legs /\ a.price \in Nat
    BY DEF IInv, TickInv, PendingInHand
  <1>4. leg \in Leg /\ leg.contract \in ContractsOf(intents[plan].legs)
    BY <1>1, <1>3, IntentFields DEF IInv
  <1>5. leg.contract \in Contracts /\ leg.side \in Sides
    BY <1>4 DEF Leg
  <1>6. SizeFor(a) \in Nat
    <2>1. a.size \in Nat
      BY DEF IInv, TypeOK, LegAction
    <2>2. Available(held) \in Int
      BY DEF IInv, TypeOK, Cash, Available
    <2> QED BY <1>3, <2>1, <2>2, AffordableSizeNat DEF SizeFor
  <1>7. intents[plan].complex \in Complexes
    BY <1>1, IntentFields DEF IInv
  <1> HIDE DEF leg
  <1>8. LET next == Placed(plan, intents[plan].complex, leg, style, a.price, SizeFor(a)) IN
        /\ next \in Order
        /\ next.plan = plan /\ next.contract = leg.contract /\ next.limit = a.price
        /\ next.status = IF style = "passive" THEN "open" ELSE "filled"
    BY <1>2, <1>3, <1>5, <1>6, <1>7, PlacedFields
  <1> QED BY <1>1, <1>2, <1>3, <1>4, <1>6, <1>8 DEF leg

LEMMA ApplyPassiveStep ==
  ASSUME IInv, pc = "apply", NEW a \in pending, pending' = pending \ {a}, ApplyFrame,
         ApplyPassive(a)
  PROVE  IInv'
  <1> DEFINE leg == intents[plan].legs[a.leg]
             next == Placed(plan, intents[plan].complex, leg, "passive", a.price, SizeFor(a))
             new == Len(orders) + 1
  <1>1. /\ a.kind = "place_passive" /\ pc' = "restate" /\ UNCHANGED <<txn, held>>
        /\ orders' = Append(orders, next)
        /\ UNCHANGED <<intents, plan, quotes, work>>
    BY DEF ApplyPassive, ApplyFrame
  <1>2. /\ plan \in DOMAIN intents /\ a.leg \in DOMAIN intents[plan].legs
        /\ leg.contract \in ContractsOf(intents[plan].legs)
        /\ next \in Order /\ next.status = "open"
        /\ next.plan = plan /\ next.contract = leg.contract /\ next.limit = a.price
    BY <1>1, PlacementFields
  <1>3. /\ a.price = leg.limit
        /\ \A i \in OpenOrders : orders[i].plan = plan => orders[i].contract # leg.contract
    BY <1>1 DEF IInv, TickInv, PendingRests
  <1> HIDE DEF leg, next, new
  <1>4. /\ orders' \in Seq(Order) /\ new \notin DOMAIN orders
        /\ DOMAIN orders' = DOMAIN orders \cup {new}
        /\ orders'[new] = next
        /\ \A j \in DOMAIN orders : orders'[j] = orders[j]
        /\ OpenOrders' = OpenOrders \cup {new}
    BY <1>1, <1>2, OrderAppended DEF new
  <1>5. \A j \in OpenOrders : j \in DOMAIN orders /\ orders'[j] = orders[j]
    BY <1>4 DEF OpenOrders
  <1>6. TypeOK'
    BY <1>1, <1>4 DEF ApplyFrame, IInv, TypeOK, envVars, Phases
  <1>7. RowsInv'
    <2>1. OrdersOfIntents'
      BY <1>1, <1>2, <1>4 DEF IInv, RowsInv, OrdersOfIntents
    <2>2. RestsAtLimit'
      <3>1. \A j \in OpenOrders :
              /\ orders'[j].plan \in DOMAIN intents
              /\ \E k \in DOMAIN intents[orders'[j].plan].legs :
                   /\ orders'[j].contract = intents[orders'[j].plan].legs[k].contract
                   /\ orders'[j].limit = intents[orders'[j].plan].legs[k].limit
        BY <1>5 DEF IInv, RowsInv, RestsAtLimit
      <3>2. /\ orders'[new].plan \in DOMAIN intents
            /\ \E k \in DOMAIN intents[orders'[new].plan].legs :
                 /\ orders'[new].contract = intents[orders'[new].plan].legs[k].contract
                 /\ orders'[new].limit = intents[orders'[new].plan].legs[k].limit
        <4>1. orders'[new].plan = plan /\ orders'[new].contract = leg.contract
              /\ orders'[new].limit = leg.limit
          BY <1>2, <1>3, <1>4
        <4> QED BY <1>2, <4>1 DEF leg
      <3>3. intents' = intents
        BY <1>1
      <3> QED BY <1>4, <3>1, <3>2, <3>3 DEF RestsAtLimit
    <2>3. OneOpenPerLeg'
      BY <1>2, <1>3, <1>4, <1>5 DEF IInv, RowsInv, OneOpenPerLeg
    <2>4. DistinctLegs'
      BY <1>1 DEF IInv, RowsInv, DistinctLegs
    <2> QED BY <2>1, <2>2, <2>3, <2>4 DEF RowsInv
  <1>8. PendingInHand'
    BY <1>1, <1>4 DEF IInv, TickInv, PendingInHand, Applying
  <1>9. PendingRests'
    <2>1. ASSUME NEW b \in pending', b.kind = "place_passive"
          PROVE  /\ b.price = intents[plan].legs[b.leg].limit
                 /\ \A i \in OpenOrders' : orders'[i].plan = plan =>
                      orders'[i].contract # intents[plan].legs[b.leg].contract
      <3>1. b \in pending /\ b # a
        BY <2>1
      <3>2. /\ b.price = intents[plan].legs[b.leg].limit
            /\ \A i \in OpenOrders : orders[i].plan = plan =>
                 orders[i].contract # intents[plan].legs[b.leg].contract
        BY <2>1, <3>1 DEF IInv, TickInv, PendingRests
      <3>3. b.leg # a.leg
        BY <1>1, <2>1, <3>1 DEF IInv, TickInv, PendingRests
      <3>4. b.leg \in DOMAIN intents[plan].legs
        BY <2>1, <3>1 DEF IInv, TickInv, PendingInHand
      <3>5. leg.contract # intents[plan].legs[b.leg].contract
        BY <1>2, <3>3, <3>4 DEF IInv, RowsInv, DistinctLegs, leg
      <3> QED BY <1>2, <1>4, <1>5, <3>2, <3>5
    <2>2. \A b, c \in pending' :
            b.kind = "place_passive" /\ c.kind = "place_passive" /\ b.leg = c.leg => b = c
      BY DEF IInv, TickInv, PendingRests
    <2> QED BY <1>1, <2>1, <2>2 DEF PendingRests
  <1>10. IntentInHand' /\ WorkInHand' /\ TxnInHand'
    BY <1>1 DEF IInv, TickInv, IntentInHand, WorkInHand, TxnInHand, InIntent, Reconciling, Booking
  <1> QED BY <1>6, <1>7, <1>8, <1>9, <1>10 DEF IInv, TickInv

LEMMA ApplyCrossStep ==
  ASSUME IInv, pc = "apply", NEW a \in pending, pending' = pending \ {a}, ApplyFrame,
         ApplyCross(a)
  PROVE  IInv'
  <1> DEFINE leg == intents[plan].legs[a.leg]
             next == Placed(plan, intents[plan].complex, leg, "cross", a.price, SizeFor(a))
             new == Len(orders) + 1
             price == TakePrice(leg.side, quotes[leg.contract], a.price)
  <1>1. /\ a.kind = "place_cross" /\ pc' = "fill" /\ held' = SeedCash
        /\ orders' = Append(orders, next)
        /\ txn' = [order |-> new, price |-> price, size |-> SizeFor(a), back |-> "apply"]
        /\ UNCHANGED <<intents, plan, quotes, work>>
    BY DEF ApplyCross, ApplyFrame
  <1>2. /\ plan \in DOMAIN intents /\ a.leg \in DOMAIN intents[plan].legs
        /\ leg.contract \in ContractsOf(intents[plan].legs)
        /\ ContractsOf(intents[plan].legs) \subseteq DOMAIN quotes
        /\ a.price \in Nat /\ SizeFor(a) \in Nat
        /\ next \in Order /\ next.status = "filled"
        /\ next.plan = plan /\ next.contract = leg.contract
    BY <1>1, PlacementFields
  <1>3. price \in Nat
    <2>1. quotes[leg.contract] \in Quote
      BY <1>2 DEF IInv, TypeOK
    <2> QED BY <1>2, <2>1, TakePriceNat
  <1> HIDE DEF leg, next, new, price
  <1>4. /\ orders' \in Seq(Order) /\ new \in Nat
        /\ DOMAIN orders' = DOMAIN orders \cup {new}
        /\ \A j \in DOMAIN orders : orders'[j] = orders[j]
    BY <1>1, <1>2, OrderAppended DEF new
  <1>5. RowsInv' /\ OpenOrders' = OpenOrders
    BY <1>1, <1>2, FilledAppended
  <1>6. \A j \in OpenOrders : orders'[j] = orders[j]
    BY <1>4 DEF OpenOrders
  <1>7. TypeOK'
    <2>1. held' \in Cash
      BY <1>1, BrokerAssumption, MoneyAssumption DEF SeedCash, Cash
    <2>2. txn' \in [order : DOMAIN orders' \cup {0}, price : Nat, size : Nat,
                    back : {"idle", "reconcile", "apply", "close"}]
      BY <1>1, <1>2, <1>3, <1>4
    <2>3. work' \subseteq DOMAIN orders'
      BY <1>1, <1>4 DEF IInv, TypeOK
    <2> QED BY <1>1, <1>4, <2>1, <2>2, <2>3 DEF ApplyFrame, IInv, TypeOK, envVars, Phases
  <1>8. PendingInHand'
    BY <1>1, <1>5 DEF IInv, TickInv, PendingInHand, Applying, Booking
  <1>9. PendingRests'
    BY <1>1, <1>5, <1>6 DEF IInv, TickInv, PendingRests
  <1>10. IntentInHand' /\ WorkInHand' /\ TxnInHand'
    BY <1>1, <1>2, <1>4 DEF IntentInHand, WorkInHand, TxnInHand, InIntent, Reconciling, Booking
  <1> QED BY <1>5, <1>7, <1>8, <1>9, <1>10 DEF IInv, TickInv

LEMMA ApplyNextStep == IInv /\ ApplyNext => IInv'
  <1> SUFFICES ASSUME IInv, ApplyNext PROVE IInv'
    OBVIOUS
  <1>1. pc = "apply" /\ ApplyFrame
    BY DEF ApplyNext, ApplyFrame
  <1>2. PICK a \in pending :
          /\ pending' = pending \ {a}
          /\ ApplyCancel(a) \/ ApplyUnaffordable(a) \/ ApplyPassive(a) \/ ApplyCross(a)
    BY DEF ApplyNext
  <1>3. CASE ApplyCancel(a)
    BY <1>1, <1>2, <1>3, ApplyCancelStep
  <1>4. CASE ApplyUnaffordable(a)
    BY <1>1, <1>2, <1>4, ApplyUnaffordableStep
  <1>5. CASE ApplyPassive(a)
    BY <1>1, <1>2, <1>5, ApplyPassiveStep
  <1>6. CASE ApplyCross(a)
    BY <1>1, <1>2, <1>6, ApplyCrossStep
  <1> QED BY <1>2, <1>3, <1>4, <1>5, <1>6

LEMMA RestateCashStep == IInv /\ RestateCash => IInv'
  <1> SUFFICES ASSUME IInv, RestateCash PROVE IInv'
    OBVIOUS
  <1>1. /\ UNCHANGED <<intents, orders, plan, quotes, work, pending, txn>>
        /\ pc = "restate" /\ pc' = "apply"
    BY DEF RestateCash
  <1>2. TypeOK'
    <2>1. held' \in Cash /\ cash' = held'
      BY RecomputeCashFields DEF RestateCash, IInv, TypeOK, Cash
    <2> QED BY <2>1 DEF IInv, TypeOK, RestateCash, envVars, Phases
  <1>3. RowsInv'
    BY <1>1, RowsKept DEF IInv
  <1>4. TickInv'
    BY <1>1 DEF IInv, TickInv, IntentInHand, WorkInHand, PendingInHand, TxnInHand, PendingRests,
                InIntent, Reconciling, Applying, Booking, OpenOrders
  <1> QED BY <1>2, <1>3, <1>4 DEF IInv

LEMMA FinishApplyStep == IInv /\ FinishApply => IInv'
  <1> SUFFICES ASSUME IInv, FinishApply PROVE IInv'
    OBVIOUS
  <1>1. /\ UNCHANGED <<intents, orders, work, pending, txn>> /\ pending = {}
        /\ pc = "apply" /\ pc' = "next" /\ plan' = OperatorFlatten /\ quotes' = NoQuotes
    BY DEF FinishApply
  <1>2. TypeOK'
    <2>1. plan \in DOMAIN intents
      BY <1>1 DEF IInv, TickInv, IntentInHand, InIntent
    <2>2. intents[plan].complex \in Complexes
      BY <2>1, IntentFields DEF IInv
    <2>3. /\ DOMAIN snapshots' \subseteq Complexes
          /\ \A k \in DOMAIN snapshots' : snapshots'[k] \in [gross : Int, reserved : Int]
      BY <2>2, UpdateSnapshotRows DEF FinishApply, IInv, TypeOK
    <2>4. held' \in Cash
      BY BrokerAssumption, MoneyAssumption DEF FinishApply, SeedCash, Cash
    <2>5. DOMAIN quotes' = {}
      BY <1>1 DEF NoQuotes
    <2> QED BY <1>1, <2>3, <2>4, <2>5 DEF IInv, TypeOK, FinishApply, envVars, Phases
  <1>3. RowsInv'
    BY <1>1, RowsKept DEF IInv
  <1>4. TickInv'
    BY <1>1 DEF IInv, TickInv, IntentInHand, WorkInHand, PendingInHand, TxnInHand, PendingRests,
                InIntent, Reconciling, Applying, Booking
  <1> QED BY <1>2, <1>3, <1>4 DEF IInv

-----------------------------------------------------------------------------
(* A flatten. *)

LEMMA FlattenCancelStep == IInv /\ FlattenCancel => IInv'
  <1> SUFFICES ASSUME IInv, FlattenCancel PROVE IInv'
    OBVIOUS
  <1>1. PICK i \in work : /\ orders' = [orders EXCEPT ![i] = CancelOrder(orders[i])]
                          /\ work' = work \ {i}
    BY DEF FlattenCancel
  <1> DEFINE next == CancelOrder(orders[i])
  <1>2. /\ pc = "cancel"
        /\ UNCHANGED <<intents, operator, fills, cash, positions, snapshots, actions, pc, now,
                       seen, rows, plan, quotes, pending, held, txn, toClose, touched, envVars>>
    BY DEF FlattenCancel
  <1>3. work \subseteq OpenOrders /\ pending = {}
    BY <1>2 DEF IInv, TickInv, WorkInHand, PendingInHand, Applying, Booking
  <1>4. orders[i] \in Order
    BY <1>3 DEF OpenOrders, IInv, TypeOK
  <1>5. /\ next \in Order
        /\ next.plan = orders[i].plan /\ next.contract = orders[i].contract
        /\ next.limit = orders[i].limit
    BY <1>4, CancelOrderFields DEF CancelOrder, Order
  <1>6. i \in OpenOrders /\ orders' = [orders EXCEPT ![i] = next]
    BY <1>1, <1>3
  <1> HIDE DEF next
  <1>7. /\ RowsInv' /\ orders' \in Seq(Order) /\ DOMAIN orders' = DOMAIN orders
        /\ OpenOrders \ {i} \subseteq OpenOrders'
    BY <1>2, <1>5, <1>6, OrderRewritten
  <1>8. TypeOK'
    BY <1>1, <1>2, <1>7 DEF IInv, TypeOK, envVars
  <1>9. work' \subseteq OpenOrders'
    BY <1>1, <1>3, <1>7
  <1>10. TickInv'
    BY <1>2, <1>3, <1>9
    DEF TickInv, IntentInHand, WorkInHand, PendingInHand, TxnInHand, PendingRests, InIntent,
        Reconciling, Booking
  <1> QED BY <1>7, <1>8, <1>10 DEF IInv

LEMMA FlattenCancelledStep == IInv /\ FlattenCancelled => IInv'
  <1> SUFFICES ASSUME IInv, FlattenCancelled PROVE IInv'
    OBVIOUS
  <1>1. /\ UNCHANGED <<intents, orders, plan, quotes, work, pending, txn>>
        /\ pc = "cancel" /\ pc' = "close"
    BY DEF FlattenCancelled
  <1>2. TypeOK'
    <2>1. RecomputeCash(cash, orders, positions) \in Cash
      BY RecomputeCashFields DEF IInv, TypeOK, Cash
    <2>2. cash' \in Cash
      BY <2>1 DEF FlattenCancelled, IInv, TypeOK
    <2>3. \A c \in OpenPositions : c \in DOMAIN positions /\ positions[c].complex \in Complexes
      BY DEF OpenPositions, IInv, TypeOK, Position
    <2>4. toClose' \subseteq DOMAIN positions /\ touched' \subseteq Complexes
      BY <2>3 DEF FlattenCancelled, IInv, TypeOK
    <2> QED BY <2>2, <2>4 DEF IInv, TypeOK, FlattenCancelled, envVars, Phases
  <1>3. RowsInv'
    BY <1>1, RowsKept DEF IInv
  <1>4. TickInv'
    BY <1>1 DEF IInv, TickInv, IntentInHand, WorkInHand, PendingInHand, TxnInHand, PendingRests,
                InIntent, Reconciling, Applying, Booking
  <1> QED BY <1>2, <1>3, <1>4 DEF IInv

LEMMA ClosePositionStep == ASSUME NEW c \in Contracts PROVE IInv /\ ClosePosition(c) => IInv'
  <1> SUFFICES ASSUME IInv, ClosePosition(c) PROVE IInv'
    OBVIOUS
  <1> DEFINE position == positions[c]
             side == IF position.qty > 0 THEN "sell" ELSE "buy"
             size == Abs(position.qty)
             new == Len(orders) + 1
             price(quote) == TakePrice(side, quote, position.avg)
             next(quote) == Placed(OperatorFlatten, position.complex,
                                   [contract |-> c, side |-> side], "cross", price(quote), size)
  <1>1. PICK quote \in Quotes :
          /\ quotes' = Upsert(quotes, c, quote)
          /\ orders' = Append(orders, next(quote))
          /\ txn' = [order |-> new, price |-> price(quote), size |-> size, back |-> "close"]
    BY DEF ClosePosition
  <1>2. /\ pc = "close" /\ pc' = "fill" /\ c \in toClose /\ toClose' = toClose \ {c}
        /\ UNCHANGED <<intents, operator, fills, cash, positions, snapshots, actions, now, seen,
                       rows, plan, work, pending, held, touched, envVars>>
    BY DEF ClosePosition
  <1>3. position \in Position /\ quote \in Quote
    BY <1>2, WorkerAssumption DEF IInv, TypeOK
  <1>4. /\ size \in Nat /\ side \in Sides /\ position.complex \in Complexes
        /\ price(quote) \in Nat
    <2>1. position.qty \in Int /\ position.avg \in Nat /\ position.complex \in Complexes
      BY <1>3 DEF Position
    <2>2. side \in Sides
      BY DEF Sides
    <2> HIDE DEF position, side
    <2> QED BY <1>3, <2>1, <2>2, TakePriceNat DEF Abs, MaxOf
  <1>5. /\ next(quote) \in Order
        /\ next(quote).plan = OperatorFlatten /\ next(quote).status = "filled"
    <2> DEFINE leg == [contract |-> c, side |-> side]
    <2>1. leg.contract \in Contracts /\ leg.side \in Sides
      BY <1>4
    <2> HIDE DEF leg, side, size, price, position
    <2>2. next(quote) = Placed(OperatorFlatten, position.complex, leg, "cross", price(quote), size)
      BY DEF leg
    <2> QED BY <1>4, <2>1, <2>2, PlacedFields
  <1> DEFINE order == next(quote)
             cost == price(quote)
  <1>6. /\ orders' = Append(orders, order)
        /\ txn' = [order |-> new, price |-> cost, size |-> size, back |-> "close"]
        /\ order \in Order /\ order.plan \notin Plans /\ order.status = "filled"
        /\ cost \in Nat /\ size \in Nat
    BY <1>1, <1>4, <1>5, WorkerAssumption
  <1> HIDE DEF order, cost, next, price, size, side, position, new
  <1>7. /\ orders' \in Seq(Order) /\ new \in Nat
        /\ DOMAIN orders' = DOMAIN orders \cup {new}
    BY <1>6, OrderAppended DEF new
  <1>8. RowsInv'
    BY <1>2, <1>6, FilledAppended
  <1>9. pending = {}
    BY <1>2 DEF IInv, TickInv, PendingInHand, Applying, Booking
  <1>10. TypeOK'
    <2>1. /\ DOMAIN quotes' \subseteq Contracts
          /\ \A d \in DOMAIN quotes' : quotes'[d] \in Quote
      BY <1>1, <1>3 DEF IInv, TypeOK, Upsert
    <2>2. txn' \in [order : DOMAIN orders' \cup {0}, price : Nat, size : Nat,
                    back : {"idle", "reconcile", "apply", "close"}]
      BY <1>6, <1>7
    <2>3. work' \subseteq DOMAIN orders' /\ toClose' \subseteq DOMAIN positions
      BY <1>2, <1>7 DEF IInv, TypeOK
    <2> QED BY <1>2, <1>7, <2>1, <2>2, <2>3 DEF IInv, TypeOK, envVars, Phases
  <1>11. TickInv'
    BY <1>2, <1>6, <1>7, <1>9
    DEF TickInv, IntentInHand, WorkInHand, PendingInHand, TxnInHand, PendingRests, InIntent,
        Reconciling, Booking
  <1> QED BY <1>8, <1>10, <1>11 DEF IInv

LEMMA FlattenSnapshotStep == ASSUME NEW k \in Complexes PROVE IInv /\ FlattenSnapshot(k) => IInv'
  <1> SUFFICES ASSUME IInv, FlattenSnapshot(k) PROVE IInv'
    OBVIOUS
  <1>1. UNCHANGED <<intents, orders, plan, quotes, work, pending, txn, pc>>
    BY DEF FlattenSnapshot
  <1>2. TypeOK'
    <2>1. /\ DOMAIN snapshots' \subseteq Complexes
          /\ \A j \in DOMAIN snapshots' : snapshots'[j] \in [gross : Int, reserved : Int]
      BY UpdateSnapshotRows DEF FlattenSnapshot, IInv, TypeOK
    <2> QED BY <2>1 DEF IInv, TypeOK, FlattenSnapshot, envVars
  <1>3. RowsInv'
    BY <1>1, RowsKept DEF IInv
  <1>4. TickInv'
    BY <1>1 DEF IInv, TickInv, IntentInHand, WorkInHand, PendingInHand, TxnInHand, PendingRests,
                InIntent, Reconciling, Applying, Booking, OpenOrders
  <1> QED BY <1>2, <1>3, <1>4 DEF IInv

LEMMA EndFlattenStep == IInv /\ EndFlatten => IInv'
  <1> SUFFICES ASSUME IInv, EndFlatten PROVE IInv'
    OBVIOUS
  <1>1. /\ UNCHANGED <<intents, orders, plan, work, pending, txn>>
        /\ pc = "close" /\ pc' = "idle" /\ quotes' = NoQuotes
    BY DEF EndFlatten, tableVars
  <1>2. TypeOK'
    <2>1. DOMAIN quotes' = {}
      BY <1>1 DEF NoQuotes
    <2> QED BY <2>1 DEF IInv, TypeOK, EndFlatten, tableVars, envVars, Phases
  <1>3. RowsInv'
    BY <1>1, RowsKept DEF IInv
  <1>4. TickInv'
    BY <1>1 DEF IInv, TickInv, IntentInHand, WorkInHand, PendingInHand, TxnInHand, PendingRests,
                InIntent, Reconciling, Applying, Booking
  <1> QED BY <1>2, <1>3, <1>4 DEF IInv

-----------------------------------------------------------------------------
(* The environment. *)

LEMMA CrashStep == IInv /\ Crash => IInv'
  <1> SUFFICES ASSUME IInv, Crash PROVE IInv'
    OBVIOUS
  <1>1. /\ UNCHANGED <<intents, orders>>
        /\ pc' = "idle" /\ pending' = {} /\ work' = {}
    BY DEF Crash, tableVars
  <1>2. TypeOK'
    <2>1. held' \in Cash /\ DOMAIN quotes' = {}
      BY BrokerAssumption, MoneyAssumption DEF Crash, SeedCash, Cash, NoQuotes
    <2>2. txn' \in [order : DOMAIN orders \cup {0}, price : Nat, size : Nat,
                    back : {"idle", "reconcile", "apply", "close"}]
      BY DEF Crash, NoFill
    <2> QED BY <2>1, <2>2 DEF IInv, TypeOK, Crash, tableVars, Phases
  <1>3. RowsInv'
    BY <1>1, RowsKept DEF IInv
  <1>4. TickInv'
    BY <1>1 DEF TickInv, IntentInHand, WorkInHand, PendingInHand, TxnInHand, PendingRests,
                InIntent, Reconciling, Booking
  <1> QED BY <1>2, <1>3, <1>4 DEF IInv

LEMMA PublishIntentStep ==
  ASSUME NEW p \in Plans, NEW payload \in Payloads
  PROVE  IInv /\ PublishIntent(p, payload) => IInv'
  <1> SUFFICES ASSUME IInv, PublishIntent(p, payload) PROVE IInv'
    OBVIOUS
  <1> DEFINE next == [style |-> payload.style, complex |-> payload.complex, legs |-> payload.legs,
                      start |-> clock, expiry |-> clock + IntentExpiry]
  <1>1. /\ UNCHANGED <<operator, orders, fills, cash, positions, snapshots, actions, tickVars,
                       envVars>>
        /\ p \notin DOMAIN intents /\ intents' = Upsert(intents, p, next)
    BY DEF PublishIntent
  <1>2. next \in Intent
    BY PayloadAssumption, WorkerAssumption DEF Intent, Complexes, IInv, TypeOK
  <1>3. /\ DOMAIN intents' = DOMAIN intents \cup {p}
        /\ intents'[p] = next
        /\ \A q \in DOMAIN intents : intents'[q] = intents[q]
    BY <1>1 DEF Upsert
  <1>4. UNCHANGED <<orders, pc, plan, quotes, work, pending, txn>>
    BY <1>1 DEF tickVars
  <1>5. OpenOrders' = OpenOrders
    BY <1>4 DEF OpenOrders
  <1>6. DistinctLegs'
    <2>1. \A j, k \in DOMAIN next.legs : next.legs[j].contract = next.legs[k].contract => j = k
      BY PayloadAssumption
    <2> HIDE DEF next
    <2> QED BY <1>3, <2>1 DEF IInv, RowsInv, DistinctLegs
  <1> HIDE DEF next
  <1>7. TypeOK'
    BY <1>1, <1>2, <1>3 DEF IInv, TypeOK, tickVars, envVars
  <1>8. RowsInv'
    <2>1. OrdersOfIntents'
      BY <1>3, <1>4 DEF IInv, RowsInv, OrdersOfIntents
    <2>2. RestsAtLimit'
      BY <1>3, <1>4, <1>5 DEF IInv, RowsInv, RestsAtLimit
    <2>3. OneOpenPerLeg'
      BY <1>4, <1>5 DEF IInv, RowsInv, OneOpenPerLeg
    <2> QED BY <1>6, <2>1, <2>2, <2>3 DEF RowsInv
  <1>9. pending # {} => plan \in DOMAIN intents
    BY DEF IInv, TickInv, IntentInHand, PendingInHand, InIntent, Applying
  <1>10. TickInv'
    <2>1. IntentInHand' /\ WorkInHand' /\ TxnInHand'
      BY <1>3, <1>4, <1>5 DEF IInv, TickInv, IntentInHand, WorkInHand, TxnInHand, InIntent,
                              Reconciling, Booking
    <2>2. PendingInHand'
      BY <1>3, <1>4, <1>5, <1>9 DEF IInv, TickInv, PendingInHand, Applying, Booking
    <2>3. PendingRests'
      BY <1>3, <1>4, <1>5, <1>9 DEF IInv, TickInv, PendingRests
    <2> QED BY <2>1, <2>2, <2>3 DEF TickInv
  <1> QED BY <1>7, <1>8, <1>10 DEF IInv

LEMMA CommandStep ==
  ASSUME NEW next \in [paused : BOOLEAN, flatten : BOOLEAN] PROVE IInv /\ Command(next) => IInv'
  <1> SUFFICES ASSUME IInv, Command(next) PROVE IInv'
    OBVIOUS
  <1>1. UNCHANGED <<intents, orders, pc, plan, quotes, work, pending, txn>>
    BY DEF Command, tickVars
  <1>2. TypeOK'
    BY DEF IInv, TypeOK, Command, tickVars
  <1>3. RowsInv'
    BY <1>1, RowsKept DEF IInv
  <1>4. TickInv'
    BY <1>1 DEF IInv, TickInv, IntentInHand, WorkInHand, PendingInHand, TxnInHand, PendingRests,
                InIntent, Reconciling, Applying, Booking, OpenOrders
  <1> QED BY <1>2, <1>3, <1>4 DEF IInv

LEMMA AdvanceClockStep == IInv /\ AdvanceClock => IInv'
  <1> SUFFICES ASSUME IInv, AdvanceClock PROVE IInv'
    OBVIOUS
  <1>1. UNCHANGED <<intents, orders, pc, plan, quotes, work, pending, txn>>
    BY DEF AdvanceClock, tableVars, tickVars
  <1>2. TypeOK'
    BY DEF IInv, TypeOK, AdvanceClock, tableVars, tickVars
  <1>3. RowsInv'
    BY <1>1, RowsKept DEF IInv
  <1>4. TickInv'
    BY <1>1 DEF IInv, TickInv, IntentInHand, WorkInHand, PendingInHand, TxnInHand, PendingRests,
                InIntent, Reconciling, Applying, Booking, OpenOrders
  <1> QED BY <1>2, <1>3, <1>4 DEF IInv

LEMMA StutterStep == IInv /\ UNCHANGED vars => IInv'
  <1> SUFFICES ASSUME IInv, UNCHANGED vars PROVE IInv'
    OBVIOUS
  <1>1. UNCHANGED <<intents, orders, pc, plan, quotes, work, pending, txn>>
    BY DEF vars, tableVars, tickVars
  <1>2. TypeOK'
    BY DEF IInv, TypeOK, vars, tableVars, tickVars, envVars
  <1>3. RowsInv'
    BY <1>1, RowsKept DEF IInv
  <1>4. TickInv'
    BY <1>1 DEF IInv, TickInv, IntentInHand, WorkInHand, PendingInHand, TxnInHand, PendingRests,
                InIntent, Reconciling, Applying, Booking, OpenOrders
  <1> QED BY <1>2, <1>3, <1>4 DEF IInv

-----------------------------------------------------------------------------
(* The theorems. *)

LEMMA NextIInv == IInv /\ [Next]_vars => IInv'
  <1> SUFFICES ASSUME IInv, [Next]_vars PROVE IInv'
    OBVIOUS
  <1>1. CASE Worker
    BY <1>1, BeginTickStep, ScanIntentsStep, EnsureCashStep, EndTickStep, PersistFillStep,
       PersistPositionStep, PersistCashStep, LoadIntentStep, ReconcileFillStep,
       FinishReconcileStep, EvaluateIntentStep, ApplyNextStep, RestateCashStep, FinishApplyStep,
       FlattenCancelStep, FlattenCancelledStep, ClosePositionStep, FlattenSnapshotStep,
       EndFlattenStep
    DEF Worker
  <1>2. CASE Environment
    <2>1. CASE Pause \/ Resume \/ Flatten
      <3>1. /\ [operator EXCEPT !.paused = TRUE] \in [paused : BOOLEAN, flatten : BOOLEAN]
            /\ [operator EXCEPT !.paused = FALSE, !.flatten = FALSE]
                 \in [paused : BOOLEAN, flatten : BOOLEAN]
            /\ [operator EXCEPT !.paused = TRUE, !.flatten = TRUE]
                 \in [paused : BOOLEAN, flatten : BOOLEAN]
        BY DEF IInv, TypeOK
      <3> QED BY <2>1, <3>1, CommandStep DEF Pause, Resume, Flatten
    <2>2. CASE Crash \/ AdvanceClock
      BY <2>2, CrashStep, AdvanceClockStep
    <2>3. CASE \E p \in Plans, payload \in Payloads : PublishIntent(p, payload)
      BY <2>3, PublishIntentStep
    <2> QED BY <1>2, <2>1, <2>2, <2>3 DEF Environment
  <1> QED BY <1>1, <1>2, StutterStep DEF Next

LEMMA Invariance == Spec => []IInv
  BY InitIInv, NextIInv, PTL DEF Spec

\* The rows and the tick's memory keep their types: no size, price or average
\* cost ever becomes negative, and the tick never acts on a row that is gone.
THEOREM TypeCorrect == Spec => []TypeOK
  <1>1. IInv => TypeOK
    BY DEF IInv
  <1> QED BY <1>1, Invariance, PTL

\* However ticks, crashes, commands and publications interleave, no plan ever
\* has two orders resting on one contract.
THEOREM NeverTwoOpenPerLeg == Spec => []OneOpenPerLeg
  <1>1. IInv => OneOpenPerLeg
    BY DEF IInv, RowsInv
  <1> QED BY <1>1, Invariance, PTL

\* A rewritten order was open and keeps what was filled, an appended one is new.
Frozen ==
  \A i \in DOMAIN orders :
    /\ i \in DOMAIN orders'
    /\ orders[i].status # "open" => orders'[i] = orders[i]
    /\ orders[i].filled <= orders'[i].filled

LEMMA OrdersOnlyGrow == ASSUME IInv, [Next]_vars PROVE Frozen
  <1>1. /\ orders \in Seq(Order)
        /\ \A i \in DOMAIN orders : orders[i] \in Order /\ orders[i].filled \in Nat
    <2>1. orders \in Seq(Order)
      BY DEF IInv, TypeOK
    <2>2. \A i \in DOMAIN orders : orders[i] \in Order
      BY <2>1
    <2> QED BY <2>1, <2>2 DEF Order
  <1>2. ASSUME UNCHANGED orders PROVE Frozen
    BY <1>1, <1>2 DEF Frozen
  <1>3. ASSUME NEW next \in Order, orders' = Append(orders, next) PROVE Frozen
    BY <1>1, <1>3, OrderAppended DEF Frozen
  <1>4. ASSUME NEW i \in OpenOrders, NEW next, orders' = [orders EXCEPT ![i] = next],
               orders[i].filled <= next.filled
        PROVE  Frozen
    <2>1. i \in DOMAIN orders /\ orders[i].status = "open"
      BY DEF OpenOrders
    <2> QED BY <1>1, <1>4, <2>1 DEF Frozen
  <1>5. CASE ReconcileFill
    <2>1. PICK i \in work :
            orders' = [orders EXCEPT ![i] =
              MergeFill(orders[i], ExecutableSize(orders[i], quotes[orders[i].contract]))]
      BY <1>5 DEF ReconcileFill
    <2> DEFINE size == ExecutableSize(orders[i], quotes[orders[i].contract])
    <2>2. i \in OpenOrders
      BY <1>5 DEF ReconcileFill, IInv, TickInv, WorkInHand, Reconciling
    <2>3. size \in Nat
      <3>1. Executable(orders[i], quotes[orders[i].contract])
        BY <1>5 DEF ReconcileFill, IInv, TickInv, WorkInHand, Reconciling
      <3>2. plan \in Plans /\ ContractsOf(intents[plan].legs) \subseteq DOMAIN quotes
            /\ orders[i].plan = plan
        BY <1>5 DEF ReconcileFill, IInv, TickInv, WorkInHand, Reconciling, IntentInHand, InIntent,
                    TypeOK
      <3>3. i \in DOMAIN orders
        BY <2>2 DEF OpenOrders
      <3>4. quotes[orders[i].contract] \in Quote
        BY <3>2, <3>3 DEF IInv, RowsInv, OrdersOfIntents, TypeOK
      <3>5. orders[i].remaining \in Nat /\ orders[i].side \in Sides
        BY <1>1, <3>3 DEF Order
      <3> QED BY <3>1, <3>4, <3>5, ExecutableFields
    <2> HIDE DEF size
    <2>4. orders[i] \in Order /\ orders[i].filled \in Nat
      BY <1>1, <2>2 DEF OpenOrders
    <2>5. orders[i].filled <= MergeFill(orders[i], size).filled
      BY <2>3, <2>4, MergeFillFields
    <2> QED BY <1>4, <2>1, <2>2, <2>5 DEF size
  <1>6. CASE ApplyNext
    <2>1. PICK a \in pending :
            ApplyCancel(a) \/ ApplyUnaffordable(a) \/ ApplyPassive(a) \/ ApplyCross(a)
      BY <1>6 DEF ApplyNext
    <2>2. pc = "apply"
      BY <1>6 DEF ApplyNext
    <2>3. CASE ApplyCancel(a)
      <3>1. a.order \in OpenOrders
        BY <2>3 DEF ApplyCancel, IInv, TickInv, PendingInHand
      <3>2. orders' = [orders EXCEPT ![a.order] = CancelOrder(orders[a.order])]
        BY <2>3 DEF ApplyCancel
      <3>3. orders[a.order] \in Order /\ orders[a.order].filled \in Nat
        BY <1>1, <3>1 DEF OpenOrders
      <3>4. orders[a.order].filled <= CancelOrder(orders[a.order]).filled
        BY <3>3, CancelOrderFields
      <3> QED BY <1>4, <3>1, <3>2, <3>4
    <2>4. CASE ApplyUnaffordable(a)
      BY <1>2, <2>4 DEF ApplyUnaffordable
    <2>5. CASE ApplyPassive(a)
      <3> DEFINE next == Placed(plan, intents[plan].complex, intents[plan].legs[a.leg], "passive",
                                a.price, SizeFor(a))
      <3>1. next \in Order
        BY <2>2, <2>5, PlacementFields DEF ApplyPassive
      <3>2. orders' = Append(orders, next)
        BY <2>5 DEF ApplyPassive
      <3> QED BY <1>3, <3>1, <3>2
    <2>6. CASE ApplyCross(a)
      <3> DEFINE next == Placed(plan, intents[plan].complex, intents[plan].legs[a.leg], "cross",
                                a.price, SizeFor(a))
      <3>1. next \in Order
        BY <2>2, <2>6, PlacementFields DEF ApplyCross
      <3>2. orders' = Append(orders, next)
        BY <2>6 DEF ApplyCross
      <3> QED BY <1>3, <3>1, <3>2
    <2> QED BY <2>1, <2>3, <2>4, <2>5, <2>6
  <1>7. CASE FlattenCancel
    <2>1. PICK i \in work : orders' = [orders EXCEPT ![i] = CancelOrder(orders[i])]
      BY <1>7 DEF FlattenCancel
    <2>2. i \in OpenOrders
      BY <1>7 DEF FlattenCancel, IInv, TickInv, WorkInHand
    <2>3. orders[i] \in Order /\ orders[i].filled \in Nat
      BY <1>1, <2>2 DEF OpenOrders
    <2>4. orders[i].filled <= CancelOrder(orders[i]).filled
      BY <2>3, CancelOrderFields
    <2> QED BY <1>4, <2>1, <2>2, <2>4
  <1>8. ASSUME NEW c \in Contracts, ClosePosition(c) PROVE Frozen
    <2>1. orders' \in Seq(Order)
      BY <1>8, ClosePositionStep DEF IInv, TypeOK
    <2>2. PICK next : orders' = Append(orders, next)
      BY <1>8 DEF ClosePosition
    <2>3. DOMAIN orders \subseteq DOMAIN orders' /\ \A j \in DOMAIN orders : orders'[j] = orders[j]
      BY <1>1, <2>2
    <2> QED BY <1>1, <2>3 DEF Frozen
  <1>9. CASE UNCHANGED orders
    BY <1>2, <1>9
  <1>10. \/ ReconcileFill \/ ApplyNext \/ FlattenCancel \/ UNCHANGED orders
         \/ \E c \in Contracts : ClosePosition(c)
    BY DEF Next, Worker, Environment, BeginTick, ScanIntents, EnsureCash, EndTick, PersistFill,
           PersistPosition, PersistCash, LoadIntent, FinishReconcile, EvaluateIntent, RestateCash,
           FinishApply, FlattenCancelled, FlattenSnapshot, EndFlatten, Crash, PublishIntent,
           Command, Pause, Resume, Flatten, AdvanceClock, vars, tableVars, tickVars
  <1> QED BY <1>5, <1>6, <1>7, <1>8, <1>9, <1>10

\* A filled or cancelled order is never written again, and no order ever loses
\* a fill: what the worker holds in work and pending is still open when it
\* writes it.
THEOREM TerminalOrdersStayFrozen == Spec => TerminalOrdersFrozen
  <1>1. IInv /\ [Next]_vars => [Frozen]_vars
    BY OrdersOnlyGrow
  <1> QED BY <1>1, Invariance, PTL DEF Spec, TerminalOrdersFrozen, Frozen

-----------------------------------------------------------------------------
(* Expiry. *)

\* An order is only asked to rest while its intent has not expired, and now
\* stands still until it is placed.
InTime ==
  /\ \A p \in DOMAIN intents : /\ intents[p].start \in Nat
                               /\ intents[p].expiry = intents[p].start + IntentExpiry
  /\ \A a \in pending : a.kind = "place_passive" => now < intents[plan].expiry

LEMMA InTimeInit == Init => InTime
  BY DEF Init, InTime

LEMMA InTimeStep ==
  ASSUME PassiveResting <= IntentExpiry, IInv, InTime, [Next]_vars
  PROVE  InTime'
  <1>1. CASE EvaluateIntent
    <2>1. /\ UNCHANGED <<intents, plan, now>> /\ pc = "evaluate"
          /\ pending' = PlanDecision.actions
      BY <1>1 DEF EvaluateIntent
    <2>2. plan \in DOMAIN intents
      BY <2>1 DEF IInv, TickInv, IntentInHand, InIntent
    <2> DEFINE intent == intents[plan]
               ids == PlanOrders(plan)
               d == EvaluateExecutionAction(intent, quotes, orders, ids, TRUE, now)
    <2>3. now \in Nat /\ IntentExpiry \in Nat /\ PassiveResting \in Nat
          /\ PassiveResting <= IntentExpiry
      BY WorkerAssumption, PolicyAssumption DEF IInv, TypeOK
    <2>4. ASSUME NEW a \in LegActions(intent, quotes, orders, ids, now), a.kind = "place_passive"
          PROVE  now < intent.expiry
      <3>1. \E k \in DOMAIN intent.legs : MustRest(intent, intent.legs[k], orders, ids, now)
        BY <2>4, LegActionCases DEF Place, Cancel
      <3>2. now - intent.start < PassiveResting
        <4>1. ~(now - intent.start >= PassiveResting)
          BY <3>1 DEF MustRest, MayRest, PassiveWindowElapsed
        <4>2. intent.start \in Nat
          BY <2>2 DEF InTime
        <4> QED BY <2>3, <4>1, <4>2
      <3>3. intent.start \in Nat /\ intent.expiry = intent.start + IntentExpiry
        BY <2>2 DEF InTime
      <3> QED BY <2>3, <3>2, <3>3
    <2>5. ASSUME NEW a \in d.actions, a.kind = "place_passive" PROVE now < intent.expiry
      <3>1. \/ d.actions = {}
            \/ d.actions = ExpiryCancels(orders, ids)
            \/ /\ d.actions = LegActions(intent, quotes, orders, ids, now)
               /\ ~NoCrossPrice(intent, quotes, orders, ids, now)
        BY DecisionCases
      <3>2. \A b \in ExpiryCancels(orders, ids) : b.kind = "cancel"
        BY DEF ExpiryCancels, Cancel
      <3> HIDE DEF d, intent, ids
      <3> QED BY <2>4, <2>5, <3>1, <3>2
    <2>6. PlanDecision = d \/ PlanDecision.actions = {}
      BY DEF PlanDecision, Decision
    <2>7. ASSUME NEW a \in pending', a.kind = "place_passive" PROVE now < intent.expiry
      BY <2>1, <2>5, <2>6, <2>7
    <2> QED BY <2>1, <2>7 DEF InTime
  <1>2. ASSUME NEW p \in Plans, NEW payload \in Payloads, PublishIntent(p, payload)
        PROVE  InTime'
    <2> DEFINE next == [style |-> payload.style, complex |-> payload.complex,
                        legs |-> payload.legs, start |-> clock, expiry |-> clock + IntentExpiry]
    <2>1. /\ p \notin DOMAIN intents /\ intents' = Upsert(intents, p, next)
          /\ UNCHANGED <<pending, plan, now>>
      BY <1>2 DEF PublishIntent, tickVars
    <2>2. next.start = clock /\ next.expiry = clock + IntentExpiry /\ clock \in Nat
      BY DEF IInv, TypeOK
    <2> HIDE DEF next
    <2>3. /\ DOMAIN intents' = DOMAIN intents \cup {p}
          /\ intents'[p] = next
          /\ \A q \in DOMAIN intents : intents'[q] = intents[q]
      BY <2>1 DEF Upsert
    <2>4. pending # {} => plan \in DOMAIN intents
      BY DEF IInv, TickInv, IntentInHand, PendingInHand, InIntent, Applying
    <2> QED BY <2>1, <2>2, <2>3, <2>4 DEF InTime
  <1>3. CASE UNCHANGED intents /\ pending' = {}
    BY <1>3 DEF InTime
  <1>4. CASE UNCHANGED <<intents, plan, now>> /\ pending' \subseteq pending
    BY <1>4 DEF InTime
  <1>5. pc \in {"idle", "next"} => pending = {}
    BY DEF IInv, TickInv, PendingInHand, Applying, Booking
  <1>6. \/ EvaluateIntent
        \/ \E p \in Plans, payload \in Payloads : PublishIntent(p, payload)
        \/ UNCHANGED intents /\ pending' = {}
        \/ UNCHANGED <<intents, plan, now>> /\ pending' \subseteq pending
    <2>1. CASE BeginTick \/ EndTick \/ FinishApply \/ Crash \/ \E p \in Plans : LoadIntent(p)
      BY <1>5, <2>1 DEF BeginTick, EndTick, FinishApply, Crash, LoadIntent, tableVars
    <2>2. CASE \/ ScanIntents \/ EnsureCash \/ PersistFill \/ PersistPosition \/ PersistCash
               \/ ReconcileFill \/ FinishReconcile \/ RestateCash
      BY <2>2 DEF ScanIntents, EnsureCash, PersistFill, PersistPosition, PersistCash,
                  ReconcileFill, FinishReconcile, RestateCash, tableVars
    <2>3. CASE ApplyNext
      BY <2>3 DEF ApplyNext
    <2>4. CASE \/ FlattenCancel \/ FlattenCancelled \/ EndFlatten
               \/ \E c \in Contracts : ClosePosition(c)
               \/ \E k \in Complexes : FlattenSnapshot(k)
      BY <2>4 DEF FlattenCancel, FlattenCancelled, EndFlatten, ClosePosition, FlattenSnapshot,
                  tableVars
    <2>5. CASE Pause \/ Resume \/ Flatten \/ AdvanceClock \/ UNCHANGED vars
      BY <2>5 DEF Pause, Resume, Flatten, Command, AdvanceClock, vars, tableVars, tickVars
    <2> QED BY <2>1, <2>2, <2>3, <2>4, <2>5 DEF Next, Worker, Environment
  <1> QED BY <1>1, <1>2, <1>3, <1>4, <1>6

\* A new order of a plan that is open was placed passively, and in time.
LEMMA RestsInTime ==
  ASSUME IInv, InTime, [Next]_vars, NEW i \in NewOrders, orders'[i].status = "open"
  PROVE  now < intents[orders'[i].plan].expiry
  <1>1. i \in DOMAIN orders' /\ i \notin DOMAIN orders /\ orders'[i].plan \in Plans
    BY DEF NewOrders
  <1>2. orders \in Seq(Order)
    BY DEF IInv, TypeOK
  <1>3. CASE DOMAIN orders' = DOMAIN orders
    BY <1>1, <1>3
  <1>4. ASSUME NEW c \in Contracts, ClosePosition(c) PROVE FALSE
    <2>1. PICK next : orders' = Append(orders, next) /\ next.plan = OperatorFlatten
      BY <1>4 DEF ClosePosition, Placed
    <2>2. orders'[i] = next
      BY <1>1, <1>2, <2>1
    <2> QED BY <1>1, <2>1, <2>2, WorkerAssumption
  <1>5. CASE ApplyNext
    <2>1. PICK a \in pending :
            ApplyCancel(a) \/ ApplyUnaffordable(a) \/ ApplyPassive(a) \/ ApplyCross(a)
      BY <1>5 DEF ApplyNext
    <2>3. CASE ApplyCancel(a) \/ ApplyUnaffordable(a)
      BY <1>1, <1>2, <2>3 DEF ApplyCancel, ApplyUnaffordable
    <2>4. CASE ApplyPassive(a)
      <3> DEFINE next == Placed(plan, intents[plan].complex, intents[plan].legs[a.leg], "passive",
                                a.price, SizeFor(a))
      <3>1. orders' = Append(orders, next) /\ a.kind = "place_passive"
        BY <2>4 DEF ApplyPassive
      <3>2. next.plan = plan
        BY DEF Placed
      <3> HIDE DEF next
      <3>3. orders'[i] = next
        BY <1>1, <1>2, <3>1
      <3> QED BY <3>1, <3>2, <3>3 DEF InTime
    <2>5. CASE ApplyCross(a)
      <3> DEFINE next == Placed(plan, intents[plan].complex, intents[plan].legs[a.leg], "cross",
                                a.price, SizeFor(a))
      <3>1. orders' = Append(orders, next)
        BY <2>5 DEF ApplyCross
      <3>2. next.status = "filled"
        BY DEF Placed
      <3> HIDE DEF next
      <3>3. orders'[i] = next
        BY <1>1, <1>2, <3>1
      <3> QED BY <3>2, <3>3
    <2> QED BY <2>1, <2>3, <2>4, <2>5
  <1>6. \/ ApplyNext \/ DOMAIN orders' = DOMAIN orders
        \/ \E c \in Contracts : ClosePosition(c)
    <2>1. CASE ReconcileFill
      <3>1. PICK j, row : orders' = [orders EXCEPT ![j] = row]
        BY <2>1 DEF ReconcileFill
      <3> QED BY <1>2, <3>1
    <2>2. CASE FlattenCancel
      <3>1. PICK j, row : orders' = [orders EXCEPT ![j] = row]
        BY <2>2 DEF FlattenCancel
      <3> QED BY <1>2, <3>1
    <2>3. CASE UNCHANGED orders
      BY <2>3
    <2> QED BY <2>1, <2>2, <2>3
        DEF Next, Worker, Environment, BeginTick, ScanIntents, EnsureCash, EndTick, PersistFill,
            PersistPosition, PersistCash, LoadIntent, FinishReconcile, EvaluateIntent, RestateCash,
            FinishApply, FlattenCancelled, FlattenSnapshot, EndFlatten, Crash, PublishIntent,
            Command, Pause, Resume, Flatten, AdvanceClock, vars, tableVars, tickVars
  <1> QED BY <1>3, <1>4, <1>5, <1>6

\* Whatever the intents, the quotes and the interruptions, no order is put to
\* rest for an intent past its expiry, provided that an intent outlives the
\* time a passive order may rest.
THEOREM NothingRestsLate ==
  ASSUME PassiveResting <= IntentExpiry PROVE Spec => NoRestingAfterExpiry
  <1> DEFINE Late == \A i \in NewOrders :
                       orders'[i].status = "open" => now < intents[orders'[i].plan].expiry
  <1>1. Spec => []InTime
    <2>1. IInv /\ InTime /\ [Next]_vars => InTime'
      BY InTimeStep
    <2> QED BY <2>1, InTimeInit, Invariance, PTL DEF Spec
  <1>2. IInv /\ InTime /\ [Next]_vars => [Late]_vars
    BY RestsInTime
  <1> QED BY <1>1, <1>2, Invariance, PTL DEF Spec, NoRestingAfterExpiry

-----------------------------------------------------------------------------
(* What the steps that write an order leave behind. *)

\* Row i is written and the others stay.
Rewrites(i, row) ==
  /\ i \in DOMAIN orders /\ DOMAIN orders' = DOMAIN orders
  /\ orders'[i] = row
  /\ \A j \in DOMAIN orders : j # i => orders'[j] = orders[j]

\* Row n is new and the others stay.
Appends(n, row) ==
  /\ n \in Nat /\ n \notin DOMAIN orders /\ DOMAIN orders' = DOMAIN orders \cup {n}
  /\ orders'[n] = row
  /\ \A j \in DOMAIN orders : orders'[j] = orders[j]

\* A resting order of the plan in hand trades, at its limit or better.
FillsResting(i, size, price) ==
  LET order == orders[i] IN
  /\ pc = "reconcile" /\ pc' = "fill"
  /\ i \in OpenOrders /\ i \in work /\ order \in Order /\ order.plan = plan
  /\ size \in Nat \ {0} /\ size <= order.remaining /\ price \in Nat
  /\ order.side = "buy" => price <= order.limit
  /\ order.side = "sell" => order.limit <= price
  /\ Rewrites(i, MergeFill(order, size))
  /\ txn' = [order |-> i, price |-> price, size |-> size, back |-> "reconcile"]
  /\ UNCHANGED <<intents, fills, cash, positions, snapshots, actions, now, plan, quotes,
                 pending, held, toClose, touched, envVars>>

\* An open order is cancelled, by a leg action or by a flatten.
CancelsOpen(i) ==
  /\ \/ pc = "apply" /\ pc' = "restate" /\ \E a \in pending : a.kind = "cancel" /\ a.order = i
     \/ pc = "cancel" /\ pc' = "cancel" /\ i \in work /\ work' \subseteq work
  /\ i \in OpenOrders /\ orders[i] \in Order
  /\ Rewrites(i, CancelOrder(orders[i]))
  /\ pending' \subseteq pending
  /\ UNCHANGED <<intents, fills, cash, positions, snapshots, actions, now, plan, quotes,
                 held, txn, toClose, touched, envVars>>

\* A passive order is placed for the leg of action a.
Rests(a, n) ==
  LET intent == intents[plan]
      leg == intent.legs[a.leg]
      row == Placed(plan, intent.complex, leg, "passive", a.price, SizeFor(a))
  IN
  /\ pc = "apply" /\ pc' = "restate"
  /\ a \in pending /\ a.kind = "place_passive" /\ SizeFor(a) > 0 /\ pending' = pending \ {a}
  /\ plan \in DOMAIN intents /\ plan \in Plans /\ a.leg \in DOMAIN intent.legs
  /\ row \in Order /\ a.price \in Nat /\ SizeFor(a) \in Nat
  /\ Appends(n, row)
  /\ UNCHANGED <<intents, fills, cash, positions, snapshots, actions, now, plan, quotes,
                 held, txn, toClose, touched, envVars>>

\* A cross is placed, filled, for the leg of action a.
Crosses(a, n, price) ==
  LET intent == intents[plan]
      leg == intent.legs[a.leg]
      row == Placed(plan, intent.complex, leg, "cross", a.price, SizeFor(a))
  IN
  /\ pc = "apply" /\ pc' = "fill"
  /\ a \in pending /\ a.kind = "place_cross" /\ SizeFor(a) > 0 /\ pending' = pending \ {a}
  /\ plan \in DOMAIN intents /\ plan \in Plans /\ a.leg \in DOMAIN intent.legs
  /\ leg.contract \in DOMAIN quotes
  /\ row \in Order /\ a.price \in Nat /\ SizeFor(a) \in Nat
  /\ price = TakePrice(leg.side, quotes[leg.contract], a.price) /\ price \in Nat
  /\ Appends(n, row)
  /\ txn' = [order |-> n, price |-> price, size |-> SizeFor(a), back |-> "apply"]
  /\ UNCHANGED <<intents, fills, cash, positions, snapshots, actions, now, plan, quotes,
                 toClose, touched, envVars>>

\* The position in c is closed by a new order, filled.
Closes(c, n, price) ==
  LET position == positions[c]
      side == IF position.qty > 0 THEN "sell" ELSE "buy"
      row == Placed(OperatorFlatten, position.complex, [contract |-> c, side |-> side],
                    "cross", price, Abs(position.qty))
  IN
  /\ pc = "close" /\ pc' = "fill"
  /\ c \in toClose /\ c \in DOMAIN positions /\ toClose' = toClose \ {c}
  /\ row \in Order /\ price \in Nat /\ Abs(position.qty) \in Nat
  /\ Appends(n, row)
  /\ txn' = [order |-> n, price |-> price, size |-> Abs(position.qty), back |-> "close"]
  /\ UNCHANGED <<intents, fills, cash, positions, snapshots, actions, now, plan, pending,
                 held, touched, envVars>>

LEMMA OrdersAre ==
  ASSUME TypeOK
  PROVE  /\ orders \in Seq(Order) /\ Len(orders) \in Nat
         /\ DOMAIN orders = 1 .. Len(orders) /\ IsFiniteSet(DOMAIN orders)
         /\ \A i \in DOMAIN orders :
              /\ orders[i] \in Order /\ orders[i].side \in Sides
              /\ orders[i].filled \in Nat /\ orders[i].remaining \in Nat
              /\ orders[i].requested \in Nat /\ orders[i].limit \in Nat
              /\ orders[i].complex \in Complexes /\ orders[i].contract \in Contracts
  <1>1. orders \in Seq(Order)
    BY DEF TypeOK
  <1>2. Len(orders) \in Nat /\ DOMAIN orders = 1 .. Len(orders)
    BY <1>1
  <1>3. \A i \in DOMAIN orders : orders[i] \in Order
    BY <1>1
  <1>4. IsFiniteSet(1 .. Len(orders))
    BY <1>2, FS_Interval
  <1> QED BY <1>1, <1>2, <1>3, <1>4 DEF Order

LEMMA Rewritten ==
  ASSUME IInv, NEW i \in DOMAIN orders, NEW row, orders' = [orders EXCEPT ![i] = row]
  PROVE  Rewrites(i, row)
  <1>1. orders \in Seq(Order)
    BY DEF IInv, TypeOK
  <1> QED BY <1>1 DEF Rewrites

LEMMA Appended ==
  ASSUME IInv, NEW row \in Order, orders' = Append(orders, row)
  PROVE  Appends(Len(orders) + 1, row)
  BY OrderAppended DEF Appends

LEMMA OpenIsOrder ==
  ASSUME IInv, NEW i \in OpenOrders
  PROVE  i \in DOMAIN orders /\ orders[i] \in Order /\ orders[i].status = "open"
  BY DEF IInv, TypeOK, OpenOrders

LEMMA ReconcileWrites ==
  ASSUME IInv, ReconcileFill
  PROVE  \E i \in DOMAIN orders, size \in Nat, price \in Nat : FillsResting(i, size, price)
  <1>1. PICK i \in work :
          /\ orders' = [orders EXCEPT ![i] =
               MergeFill(orders[i], ExecutableSize(orders[i], quotes[orders[i].contract]))]
          /\ txn' = [order |-> i,
                     price |-> ExecutablePrice(orders[i], quotes[orders[i].contract]),
                     size |-> ExecutableSize(orders[i], quotes[orders[i].contract]),
                     back |-> "reconcile"]
    BY DEF ReconcileFill
  <1>2. PICK quote, size, price :
          /\ quote = quotes[orders[i].contract]
          /\ size = ExecutableSize(orders[i], quote)
          /\ price = ExecutablePrice(orders[i], quote)
    OBVIOUS
  <1>3. /\ pc = "reconcile" /\ pc' = "fill"
        /\ UNCHANGED <<intents, fills, cash, positions, snapshots, actions, now, plan, quotes,
                       pending, held, toClose, touched, envVars>>
    BY DEF ReconcileFill
  <1>4. /\ i \in OpenOrders /\ orders[i].plan = plan /\ Executable(orders[i], quote)
    BY <1>2, <1>3 DEF IInv, TickInv, WorkInHand, Reconciling
  <1>5. i \in DOMAIN orders /\ orders[i] \in Order
    BY <1>4, OpenIsOrder
  <1>6. plan \in Plans /\ ContractsOf(intents[plan].legs) \subseteq DOMAIN quotes
    BY <1>3 DEF IInv, TickInv, IntentInHand, InIntent, TypeOK
  <1>7. quote \in Quote
    BY <1>2, <1>4, <1>5, <1>6 DEF IInv, RowsInv, OrdersOfIntents, TypeOK
  <1>8. orders[i].remaining \in Nat /\ orders[i].side \in Sides /\ orders[i].limit \in Nat
    BY <1>5 DEF Order
  <1>9. size \in Nat /\ price \in Nat
    BY <1>2, <1>4, <1>7, <1>8, ExecutableFields
  <1>10. /\ size # 0 /\ size <= orders[i].remaining
         /\ orders[i].side = "buy" => price <= orders[i].limit
         /\ orders[i].side = "sell" => orders[i].limit <= price
    <2>1. size > 0 /\ size <= orders[i].remaining
      BY <1>2, <1>4, <1>7, <1>8, <1>9
      DEF Executable, ExecutableSize, MinOf, Quote, PriceOrNull
    <2>2. price # Null
      BY <1>2, <1>4 DEF Executable
    <2>3. orders[i].side = "buy" => price <= orders[i].limit
      BY <1>2, <2>2 DEF ExecutablePrice
    <2>4. orders[i].side = "sell" => orders[i].limit <= price
      BY <1>2, <2>2 DEF ExecutablePrice
    <2> QED BY <1>9, <2>1, <2>3, <2>4
  <1>11. Rewrites(i, MergeFill(orders[i], size))
    BY <1>1, <1>2, <1>5, Rewritten
  <1>12. txn' = [order |-> i, price |-> price, size |-> size, back |-> "reconcile"]
    BY <1>1, <1>2
  <1>13. FillsResting(i, size, price)
    BY <1>3, <1>4, <1>5, <1>9, <1>10, <1>11, <1>12 DEF FillsResting
  <1> QED BY <1>5, <1>9, <1>13

LEMMA ApplyWrites ==
  ASSUME IInv, ApplyNext
  PROVE  \/ UNCHANGED <<pc, orders, held, txn>> /\ pc = "apply"
         \/ \E i \in DOMAIN orders : CancelsOpen(i)
         \/ \E a \in pending, n \in Nat : Rests(a, n)
         \/ \E a \in pending, n, price \in Nat : Crosses(a, n, price)
  <1>1. /\ pc = "apply"
        /\ UNCHANGED <<intents, fills, cash, positions, snapshots, actions, now, plan, quotes,
                       toClose, touched, envVars>>
    BY DEF ApplyNext
  <1>2. PICK a \in pending :
          /\ pending' = pending \ {a}
          /\ ApplyCancel(a) \/ ApplyUnaffordable(a) \/ ApplyPassive(a) \/ ApplyCross(a)
    BY DEF ApplyNext
  <1>3. Len(orders) + 1 \in Nat
    BY DEF IInv, TypeOK
  <1>4. CASE ApplyCancel(a)
    <2>1. a.order \in OpenOrders
      BY <1>4 DEF ApplyCancel, IInv, TickInv, PendingInHand
    <2>2. a.order \in DOMAIN orders /\ orders[a.order] \in Order
      BY <2>1, OpenIsOrder
    <2>3. Rewrites(a.order, CancelOrder(orders[a.order]))
      BY <1>4, <2>2, Rewritten DEF ApplyCancel
    <2>4. CancelsOpen(a.order)
      BY <1>1, <1>2, <1>4, <2>1, <2>2, <2>3 DEF ApplyCancel, CancelsOpen
    <2> QED BY <2>2, <2>4
  <1>5. CASE ApplyUnaffordable(a)
    BY <1>1, <1>5 DEF ApplyUnaffordable
  <1>6. CASE ApplyPassive(a)
    <2> DEFINE row == Placed(plan, intents[plan].complex, intents[plan].legs[a.leg], "passive",
                             a.price, SizeFor(a))
    <2>1. /\ a.kind = "place_passive" /\ SizeFor(a) > 0 /\ pc' = "restate"
          /\ orders' = Append(orders, row) /\ UNCHANGED <<txn, held>>
      BY <1>6 DEF ApplyPassive
    <2>2. /\ plan \in Plans /\ plan \in DOMAIN intents /\ a.leg \in DOMAIN intents[plan].legs
          /\ a.price \in Nat /\ SizeFor(a) \in Nat /\ row \in Order
      BY <1>1, <2>1, PlacementFields
    <2>3. Appends(Len(orders) + 1, row)
      BY <2>1, <2>2, Appended
    <2>4. Rests(a, Len(orders) + 1)
      BY <1>1, <1>2, <2>1, <2>2, <2>3 DEF Rests
    <2> QED BY <1>3, <2>4
  <1>7. CASE ApplyCross(a)
    <2> DEFINE leg == intents[plan].legs[a.leg]
               row == Placed(plan, intents[plan].complex, leg, "cross", a.price, SizeFor(a))
               price == TakePrice(leg.side, quotes[leg.contract], a.price)
    <2>1. /\ a.kind = "place_cross" /\ SizeFor(a) > 0 /\ pc' = "fill"
          /\ orders' = Append(orders, row)
          /\ txn' = [order |-> Len(orders) + 1, price |-> price, size |-> SizeFor(a),
                     back |-> "apply"]
      BY <1>7 DEF ApplyCross
    <2>2. /\ plan \in Plans /\ plan \in DOMAIN intents /\ a.leg \in DOMAIN intents[plan].legs
          /\ a.price \in Nat /\ SizeFor(a) \in Nat /\ row \in Order
          /\ leg.contract \in DOMAIN quotes
      <3>1. a.kind # "cancel"
        BY <2>1
      <3> QED BY <1>1, <3>1, PlacementFields
    <2>3. price \in Nat
      <3>1. quotes[leg.contract] \in Quote
        BY <2>2 DEF IInv, TypeOK
      <3> QED BY <2>2, <3>1, TakePriceNat
    <2>4. Appends(Len(orders) + 1, row)
      BY <2>1, <2>2, Appended
    <2>5. Crosses(a, Len(orders) + 1, price)
      <3> HIDE DEF price
      <3>1. price = TakePrice(leg.side, quotes[leg.contract], a.price)
        BY DEF price
      <3> QED BY <1>1, <1>2, <2>1, <2>2, <2>3, <2>4, <3>1 DEF Crosses
    <2> HIDE DEF price
    <2> QED BY <1>3, <2>3, <2>5
  <1> QED BY <1>2, <1>4, <1>5, <1>6, <1>7

LEMMA FlattenCancelWrites ==
  ASSUME IInv, FlattenCancel PROVE \E i \in DOMAIN orders : CancelsOpen(i)
  <1>1. PICK i \in work : orders' = [orders EXCEPT ![i] = CancelOrder(orders[i])]
                          /\ work' = work \ {i}
    BY DEF FlattenCancel
  <1>2. /\ pc = "cancel" /\ pc' = pc
        /\ UNCHANGED <<intents, fills, cash, positions, snapshots, actions, now, plan, quotes,
                       pending, held, txn, toClose, touched, envVars>>
    BY DEF FlattenCancel
  <1>3. i \in OpenOrders
    BY <1>2 DEF IInv, TickInv, WorkInHand
  <1>4. i \in DOMAIN orders /\ orders[i] \in Order
    BY <1>3, OpenIsOrder
  <1>5. Rewrites(i, CancelOrder(orders[i]))
    BY <1>1, <1>4, Rewritten
  <1>6. CancelsOpen(i)
    BY <1>1, <1>2, <1>3, <1>4, <1>5 DEF CancelsOpen
  <1> QED BY <1>4, <1>6

LEMMA CloseWrites ==
  ASSUME IInv, NEW c \in Contracts, ClosePosition(c)
  PROVE  \E n \in Nat, price \in Nat : Closes(c, n, price)
  <1>1. PICK position, side, size :
          /\ position = positions[c]
          /\ side = (IF position.qty > 0 THEN "sell" ELSE "buy")
          /\ size = Abs(position.qty)
    OBVIOUS
  <1>2. PICK quote, price :
          /\ quote \in Quotes
          /\ price = TakePrice(side, quote, position.avg)
          /\ orders' = Append(orders, Placed(OperatorFlatten, position.complex,
                                             [contract |-> c, side |-> side], "cross",
                                             price, size))
          /\ txn' = [order |-> Len(orders) + 1, price |-> price, size |-> size, back |-> "close"]
    BY <1>1 DEF ClosePosition
  <1>3. /\ pc = "close" /\ pc' = "fill" /\ c \in toClose /\ toClose' = toClose \ {c}
        /\ UNCHANGED <<intents, fills, cash, positions, snapshots, actions, now, plan, pending,
                       held, touched, envVars>>
    BY DEF ClosePosition
  <1>4. c \in DOMAIN positions /\ position \in Position /\ quote \in Quote
    BY <1>1, <1>2, <1>3, WorkerAssumption DEF IInv, TypeOK
  <1>5. /\ position.qty \in Int /\ position.avg \in Nat /\ position.complex \in Complexes
    BY <1>4 DEF Position
  <1>6. size \in Nat /\ side \in Sides /\ price \in Nat
    BY <1>1, <1>2, <1>4, <1>5, TakePriceNat DEF Abs, MaxOf, Sides
  <1>7. PICK row : row = Placed(OperatorFlatten, position.complex,
                                [contract |-> c, side |-> side], "cross", price, size)
    OBVIOUS
  <1>8. row \in Order
    <2>1. PICK leg : leg = [contract |-> c, side |-> side]
      OBVIOUS
    <2>2. leg.contract \in Contracts /\ leg.side \in Sides
      BY <1>6, <2>1
    <2> QED BY <1>5, <1>6, <1>7, <2>1, <2>2, PlacedFields
  <1>9. Appends(Len(orders) + 1, row)
    BY <1>2, <1>7, <1>8, Appended
  <1>10. Closes(c, Len(orders) + 1, price)
    BY <1>1, <1>2, <1>3, <1>4, <1>6, <1>7, <1>8, <1>9 DEF Closes
  <1>11. Len(orders) + 1 \in Nat
    BY DEF IInv, TypeOK
  <1> QED BY <1>6, <1>10, <1>11

\* Every step leaves the orders alone or is one of these.
LEMMA OrderWrites ==
  ASSUME IInv, [Next]_vars
  PROVE  \/ UNCHANGED orders
         \/ \E i \in DOMAIN orders, size \in Nat, price \in Nat : FillsResting(i, size, price)
         \/ \E i \in DOMAIN orders : CancelsOpen(i)
         \/ \E a \in pending, n \in Nat : Rests(a, n)
         \/ \E a \in pending, n, price \in Nat : Crosses(a, n, price)
         \/ \E c \in Contracts, n, price \in Nat : Closes(c, n, price)
  <1>1. \/ ReconcileFill \/ ApplyNext \/ FlattenCancel \/ UNCHANGED orders
        \/ \E c \in Contracts : ClosePosition(c)
    BY DEF Next, Worker, Environment, BeginTick, ScanIntents, EnsureCash, EndTick, PersistFill,
           PersistPosition, PersistCash, LoadIntent, FinishReconcile, EvaluateIntent, RestateCash,
           FinishApply, FlattenCancelled, FlattenSnapshot, EndFlatten, Crash, PublishIntent,
           Command, Pause, Resume, Flatten, AdvanceClock, vars, tableVars, tickVars
  <1>2. CASE ReconcileFill
    BY <1>2, ReconcileWrites
  <1>3. CASE ApplyNext
    BY <1>3, ApplyWrites
  <1>4. CASE FlattenCancel
    BY <1>4, FlattenCancelWrites
  <1>5. CASE \E c \in Contracts : ClosePosition(c)
    BY <1>5, CloseWrites
  <1> QED BY <1>1, <1>2, <1>3, <1>4, <1>5

\* Orders keep their plan, contract and complex; a new one has those of the
\* intent in hand, or is a flatten's.
LEMMA OrdersKeepComplex ==
  ASSUME IInv, [Next]_vars
  PROVE  /\ \A i \in DOMAIN orders : /\ i \in DOMAIN orders'
                                     /\ orders'[i].plan = orders[i].plan
                                     /\ orders'[i].contract = orders[i].contract
                                     /\ orders'[i].complex = orders[i].complex
         /\ \A i \in DOMAIN orders' \ DOMAIN orders :
              \/ orders'[i].plan = OperatorFlatten
              \/ /\ orders'[i].plan = plan /\ plan \in DOMAIN intents
                 /\ orders'[i].complex = intents[plan].complex
  <1> DEFINE Kept == /\ \A i \in DOMAIN orders : /\ i \in DOMAIN orders'
                                     /\ orders'[i].plan = orders[i].plan
                                     /\ orders'[i].contract = orders[i].contract
                                     /\ orders'[i].complex = orders[i].complex
             New == \A i \in DOMAIN orders' \ DOMAIN orders :
              \/ orders'[i].plan = OperatorFlatten
              \/ /\ orders'[i].plan = plan /\ plan \in DOMAIN intents
                 /\ orders'[i].complex = intents[plan].complex
  <1>1. CASE UNCHANGED orders
    BY <1>1
  <1>2. ASSUME NEW i, NEW row, Rewrites(i, row), row.plan = orders[i].plan,
               row.contract = orders[i].contract, row.complex = orders[i].complex
        PROVE  Kept /\ New
    BY <1>2 DEF Rewrites
  <1>3. ASSUME NEW n, NEW row, Appends(n, row),
               \/ row.plan = OperatorFlatten
               \/ /\ row.plan = plan /\ plan \in DOMAIN intents
                  /\ row.complex = intents[plan].complex
        PROVE  Kept /\ New
    BY <1>3 DEF Appends
  <1> HIDE DEF Kept, New
  <1>4. ASSUME NEW i \in DOMAIN orders, NEW size \in Nat, NEW price \in Nat,
               FillsResting(i, size, price)
        PROVE  Kept /\ New
    <2>1. PICK row : row = MergeFill(orders[i], size)
      OBVIOUS
    <2>2. /\ Rewrites(i, row) /\ row.plan = orders[i].plan
          /\ row.contract = orders[i].contract /\ row.complex = orders[i].complex
      BY <1>4, <2>1 DEF FillsResting, MergeFill, Order
    <2> QED BY <1>2, <2>2
  <1>5. ASSUME NEW i \in DOMAIN orders, CancelsOpen(i) PROVE Kept /\ New
    <2>1. PICK row : row = CancelOrder(orders[i])
      OBVIOUS
    <2>2. /\ Rewrites(i, row) /\ row.plan = orders[i].plan
          /\ row.contract = orders[i].contract /\ row.complex = orders[i].complex
      BY <1>5, <2>1 DEF CancelsOpen, CancelOrder, Order
    <2> QED BY <1>2, <2>2
  <1>6. ASSUME NEW a \in pending, NEW n \in Nat, Rests(a, n) PROVE Kept /\ New
    <2>1. PICK row : /\ Appends(n, row) /\ row.plan = plan /\ plan \in DOMAIN intents
                     /\ row.complex = intents[plan].complex
      BY <1>6 DEF Rests, Placed
    <2> QED BY <1>3, <2>1
  <1>7. ASSUME NEW a \in pending, NEW n \in Nat, NEW price \in Nat, Crosses(a, n, price)
        PROVE  Kept /\ New
    <2>1. PICK row : /\ Appends(n, row) /\ row.plan = plan /\ plan \in DOMAIN intents
                     /\ row.complex = intents[plan].complex
      BY <1>7 DEF Crosses, Placed
    <2> QED BY <1>3, <2>1
  <1>8. ASSUME NEW c \in Contracts, NEW n \in Nat, NEW price \in Nat, Closes(c, n, price)
        PROVE  Kept /\ New
    <2>1. PICK row : Appends(n, row) /\ row.plan = OperatorFlatten
      BY <1>8 DEF Closes, Placed
    <2> QED BY <1>3, <2>1
  <1>9. Kept /\ New
    <2>1. UNCHANGED orders => Kept /\ New
      BY <1>1 DEF Kept, New
    <2> QED BY <2>1, <1>4, <1>5, <1>6, <1>7, <1>8, OrderWrites
  <1> QED BY <1>9 DEF Kept, New

-----------------------------------------------------------------------------
(* What the orders of a leg commit. *)

\* A resting order has its rest to go, any other has nothing left to go.
OrderSizes ==
  \A i \in DOMAIN orders :
    /\ orders[i].filled <= orders[i].requested
    /\ orders[i].status = "open" =>
         orders[i].remaining = orders[i].requested - orders[i].filled /\ orders[i].remaining > 0
    /\ orders[i].status # "open" => orders[i].remaining = 0

\* Only a plan that may rest has orders resting, or to put to rest.
RestingStyle ==
  /\ \A i \in OpenOrders : intents[orders[i].plan].style = "passive_then_cross"
  /\ \A a \in pending : a.kind = "place_passive" => intents[plan].style = "passive_then_cross"

OnLeg(p, k) == {i \in DOMAIN orders : /\ orders[i].plan = p
                                      /\ orders[i].contract = intents[p].legs[k].contract}
FilledOn(p, k) == Total([i \in OnLeg(p, k) |-> orders[i].filled])

Placement(a) == a.kind \in {"place_passive", "place_cross"}

\* A placement still fits its leg, where nothing rests, and is the leg's only one.
PlacementsFit ==
  /\ \A a \in pending : Placement(a) =>
       /\ a.size <= intents[plan].legs[a.leg].size - FilledOn(plan, a.leg)
       /\ \A i \in OpenOrders : orders[i].plan = plan =>
            orders[i].contract # intents[plan].legs[a.leg].contract
  /\ \A a, b \in pending : Placement(a) /\ Placement(b) /\ a.leg = b.leg => a = b

LegsInv == OrderSizes /\ RestingStyle /\ PlacementsFit /\ NoOverfill

LEMMA OnLegIs ==
  ASSUME TypeOK, NEW p, NEW k
  PROVE  /\ OfLeg(intents[p].legs[k], orders, PlanOrders(p)) = OnLeg(p, k)
         /\ OnLeg(p, k) \subseteq DOMAIN orders /\ IsFiniteSet(OnLeg(p, k))
         /\ FilledOn(p, k) \in Int
         /\ Committed(p, k) = Total([i \in OnLeg(p, k) |-> orders[i].filled + orders[i].remaining])
         /\ Committed(p, k) \in Int
  <1>1. OfLeg(intents[p].legs[k], orders, PlanOrders(p)) = OnLeg(p, k)
    BY DEF OfLeg, PlanOrders, OnLeg
  <1>2. OnLeg(p, k) \subseteq DOMAIN orders
    BY DEF OnLeg
  <1>3. IsFiniteSet(OnLeg(p, k))
    BY <1>2, OrdersAre, FS_Subset
  <1> QED BY <1>1, <1>2, <1>3, TotalInt DEF FilledOn, Committed

\* What the policy takes for left is what the leg's size exceeds its fills by.
LEMMA RemainingIs ==
  ASSUME TypeOK, OrderSizes, NEW p, NEW k, intents[p].legs[k].size \in Nat
  PROVE  RemainingSize(intents[p].legs[k], orders, PlanOrders(p))
           = MaxOf(0, intents[p].legs[k].size - FilledOn(p, k))
  <1>1. ASSUME NEW i \in OnLeg(p, k) PROVE MinOf(orders[i].filled, orders[i].requested) = orders[i].filled
    BY OnLegIs DEF OrderSizes, MinOf
  <1>2. [i \in OnLeg(p, k) |-> MinOf(orders[i].filled, orders[i].requested)]
          = [i \in OnLeg(p, k) |-> orders[i].filled]
    BY <1>1
  <1>3. OfLeg(intents[p].legs[k], orders, PlanOrders(p)) = OnLeg(p, k)
    BY OnLegIs
  <1> QED BY <1>2, <1>3 DEF RemainingSize, FilledOn

\* A leg on which nothing rests commits what it has filled.
LEMMA NothingRestsCommitted ==
  ASSUME TypeOK, OrderSizes, NEW p, NEW k,
         \A i \in OpenOrders : orders[i].plan = p =>
           orders[i].contract # intents[p].legs[k].contract
  PROVE  Committed(p, k) = FilledOn(p, k)
  <1>1. ASSUME NEW i \in OnLeg(p, k) PROVE orders[i].filled + orders[i].remaining = orders[i].filled
    <2>1. i \in DOMAIN orders /\ i \notin OpenOrders /\ orders[i].filled \in Nat
      BY OrdersAre DEF OnLeg
    <2>2. orders[i].remaining = 0
      BY <2>1 DEF OrderSizes, OpenOrders
    <2> QED BY <2>1, <2>2
  <1>2. [i \in OnLeg(p, k) |-> orders[i].filled + orders[i].remaining]
          = [i \in OnLeg(p, k) |-> orders[i].filled]
    BY <1>1
  <1> QED BY <1>2, OnLegIs DEF FilledOn

\* The sums of a leg stay when its rows keep their plan, contract and amounts.
LEMMA LegKept ==
  ASSUME NEW p, NEW k, intents'[p].legs[k] = intents[p].legs[k],
         OnLeg(p, k)' = OnLeg(p, k),
         \A i \in OnLeg(p, k) : orders'[i].filled = orders[i].filled
  PROVE  FilledOn(p, k)' = FilledOn(p, k)
  <1>1. [i \in OnLeg(p, k)' |-> orders'[i].filled] = [i \in OnLeg(p, k) |-> orders[i].filled]
    OBVIOUS
  <1> QED BY <1>1 DEF FilledOn

LEMMA LegCommitsNoMore ==
  ASSUME TypeOK, TypeOK', NEW p, NEW k, intents'[p].legs[k] = intents[p].legs[k],
         OnLeg(p, k)' = OnLeg(p, k),
         \A i \in OnLeg(p, k) :
           orders'[i].filled + orders'[i].remaining <= orders[i].filled + orders[i].remaining
  PROVE  Committed(p, k)' <= Committed(p, k)
  <1>1. PICK S : S = OnLeg(p, k)
    OBVIOUS
  <1>2. PICK f, g : /\ f = [i \in S |-> orders'[i].filled + orders'[i].remaining]
                    /\ g = [i \in S |-> orders[i].filled + orders[i].remaining]
    OBVIOUS
  <1>3. Committed(p, k) = Total(g)
    BY <1>1, <1>2, OnLegIs
  <1>4. Committed(p, k)' = Total(f)
    <2>1. OfLeg(intents[p].legs[k], orders, PlanOrders(p))' = OnLeg(p, k)'
      BY DEF OfLeg, PlanOrders, OnLeg
    <2> QED BY <1>1, <1>2, <2>1 DEF Committed
  <1>5. ASSUME NEW i \in S
        PROVE  /\ orders[i].filled + orders[i].remaining \in Int
               /\ orders'[i].filled + orders'[i].remaining \in Int
    <2>1. i \in DOMAIN orders /\ i \in DOMAIN orders'
      BY <1>1 DEF OnLeg
    <2>2. orders[i].filled \in Nat /\ orders[i].remaining \in Nat
      BY <2>1, OrdersAre
    <2>3. orders'[i] \in Order
      BY <2>1 DEF TypeOK
    <2>4. orders'[i].filled \in Nat /\ orders'[i].remaining \in Nat
      BY <2>3 DEF Order
    <2> QED BY <2>2, <2>4
  <1>6. /\ DOMAIN f = S /\ DOMAIN g = S /\ IsFiniteSet(DOMAIN g)
        /\ \A i \in S : f[i] \in Int /\ g[i] \in Int /\ f[i] <= g[i]
    BY <1>1, <1>2, <1>5, OnLegIs
  <1>7. Total(f) <= Total(g)
    BY <1>6, TotalMonotone
  <1> QED BY <1>3, <1>4, <1>7

\* A new order of the leg adds what it commits.
LEMMA LegGrows ==
  ASSUME TypeOK, TypeOK', NEW p, NEW k, intents'[p].legs[k] = intents[p].legs[k],
         NEW n, NEW row \in Order, Appends(n, row), OnLeg(p, k)' = OnLeg(p, k) \cup {n}
  PROVE  Committed(p, k)' = Committed(p, k) + row.filled + row.remaining
  <1>1. PICK S : S = OnLeg(p, k)
    OBVIOUS
  <1>2. PICK f, g : /\ f = [i \in S |-> orders[i].filled + orders[i].remaining]
                    /\ g = [i \in S \cup {n} |-> orders'[i].filled + orders'[i].remaining]
    OBVIOUS
  <1>3. Committed(p, k) = Total(f) /\ Total(f) \in Int
    BY <1>1, <1>2, OnLegIs
  <1>4. Committed(p, k)' = Total(g)
    <2>1. OfLeg(intents[p].legs[k], orders, PlanOrders(p))' = OnLeg(p, k)'
      BY DEF OfLeg, PlanOrders, OnLeg
    <2> QED BY <1>1, <1>2, <2>1 DEF Committed
  <1>5. ASSUME NEW i \in S
        PROVE  /\ orders[i].filled + orders[i].remaining \in Int
               /\ orders'[i] = orders[i]
    <2>1. i \in DOMAIN orders
      BY <1>1 DEF OnLeg
    <2>2. orders[i].filled \in Nat /\ orders[i].remaining \in Nat
      BY <2>1, OrdersAre
    <2> QED BY <2>1, <2>2 DEF Appends
  <1>6. n \notin S /\ orders'[n] = row /\ row.filled \in Nat /\ row.remaining \in Nat
    BY <1>1 DEF OnLeg, Appends, Order
  <1>7. /\ DOMAIN f = S /\ DOMAIN g = DOMAIN f \cup {n} /\ n \notin DOMAIN f
        /\ IsFiniteSet(DOMAIN f)
        /\ g[n] = row.filled + row.remaining /\ g[n] \in Int
        /\ \A i \in DOMAIN f : f[i] \in Int /\ g[i] = f[i]
    BY <1>1, <1>2, <1>5, <1>6, OnLegIs
  <1>8. Total(g) = Total(f) + g[n]
    BY <1>7, TotalAdd
  <1> QED BY <1>3, <1>4, <1>6, <1>7, <1>8

\* A published intent stays as it is.
LEMMA IntentsKept ==
  ASSUME IInv, [Next]_vars
  PROVE  /\ \A p \in DOMAIN intents : p \in DOMAIN intents' /\ intents'[p] = intents[p]
         /\ UNCHANGED intents \/ (UNCHANGED orders /\ pending' = pending /\ plan' = plan)
  <1>1. ASSUME NEW p \in Plans, NEW payload \in Payloads, PublishIntent(p, payload)
        PROVE  /\ \A q \in DOMAIN intents : q \in DOMAIN intents' /\ intents'[q] = intents[q]
               /\ UNCHANGED orders /\ pending' = pending /\ plan' = plan
    BY <1>1 DEF PublishIntent, Upsert, tickVars
  <1>2. \/ UNCHANGED intents
        \/ \E p \in Plans, payload \in Payloads : PublishIntent(p, payload)
    BY DEF Next, Worker, Environment, BeginTick, ScanIntents, EnsureCash, EndTick, PersistFill,
           PersistPosition, PersistCash, LoadIntent, ReconcileFill, FinishReconcile,
           EvaluateIntent, ApplyNext, RestateCash, FinishApply, FlattenCancel, FlattenCancelled,
           ClosePosition, FlattenSnapshot, EndFlatten, Crash, Command, Pause, Resume, Flatten,
           AdvanceClock, vars, tableVars
  <1> QED BY <1>1, <1>2

\* What is pending is decided at once and then only taken.
LEMMA PendingTaken ==
  ASSUME IInv, [Next]_vars
  PROVE  \/ EvaluateIntent
         \/ pending' = {}
         \/ pending' \subseteq pending /\ plan' = plan /\ plan \in DOMAIN intents
  <1>1. pc \in {"idle", "next"} => pending = {}
    BY DEF IInv, TickInv, PendingInHand, Applying, Booking
  <1>2. pending # {} => plan \in DOMAIN intents
    BY DEF IInv, TickInv, IntentInHand, PendingInHand, InIntent, Applying
  <1>3. CASE BeginTick \/ EndTick \/ Crash \/ FinishApply \/ \E p \in Plans : LoadIntent(p)
    BY <1>1, <1>3 DEF BeginTick, EndTick, Crash, FinishApply, LoadIntent
  <1>4. CASE ~(BeginTick \/ EndTick \/ Crash \/ FinishApply \/ \E p \in Plans : LoadIntent(p))
    <2>1. EvaluateIntent \/ (pending' \subseteq pending /\ plan' = plan)
      BY <1>4 DEF Next, Worker, Environment, ScanIntents, EnsureCash, PersistFill,
           PersistPosition, PersistCash, ReconcileFill, FinishReconcile, ApplyNext, RestateCash,
           FlattenCancel, FlattenCancelled, ClosePosition, FlattenSnapshot, EndFlatten,
           PublishIntent, Command, Pause, Resume, Flatten, AdvanceClock, vars, tickVars
    <2> QED BY <1>2, <2>1
  <1> QED BY <1>3, <1>4

LEMMA OrderSizesStep == ASSUME IInv, OrderSizes, [Next]_vars PROVE OrderSizes'
  <1>1. ASSUME NEW i, NEW row, Rewrites(i, row),
               row.filled <= row.requested,
               row.status = "open" =>
                 row.remaining = row.requested - row.filled /\ row.remaining > 0,
               row.status # "open" => row.remaining = 0
        PROVE  OrderSizes'
    BY <1>1 DEF Rewrites, OrderSizes
  <1>2. ASSUME NEW n, NEW row, Appends(n, row),
               row.filled <= row.requested,
               row.status = "open" =>
                 row.remaining = row.requested - row.filled /\ row.remaining > 0,
               row.status # "open" => row.remaining = 0
        PROVE  OrderSizes'
    BY <1>2 DEF Appends, OrderSizes
  <1>3. CASE UNCHANGED orders
    BY <1>3 DEF OrderSizes
  <1>4. ASSUME NEW i \in DOMAIN orders, NEW size \in Nat, NEW price \in Nat,
               FillsResting(i, size, price)
        PROVE  OrderSizes'
    <2>1. PICK row : row = MergeFill(orders[i], size)
      OBVIOUS
    <2>2. /\ orders[i].filled \in Nat /\ orders[i].requested \in Nat /\ orders[i] \in Order
          /\ orders[i].remaining = orders[i].requested - orders[i].filled
          /\ size <= orders[i].remaining
      <3>1. orders[i].status = "open"
        BY <1>4 DEF FillsResting, OpenOrders
      <3> QED BY <1>4, <3>1, OrdersAre DEF FillsResting, OrderSizes, IInv
    <2>3. PICK f \in Nat : f = orders[i].filled + size
      BY <2>2
    <2>4. /\ row.requested = orders[i].requested /\ row.filled = f
          /\ row.remaining = MaxOf(0, orders[i].requested - f)
          /\ row.status = IF f >= orders[i].requested THEN "filled" ELSE "open"
      BY <2>1, <2>2, <2>3 DEF MergeFill, Order
    <2>5. f <= orders[i].requested
      BY <2>2, <2>3
    <2>6. /\ row.filled <= row.requested
          /\ row.status = "open" =>
               row.remaining = row.requested - row.filled /\ row.remaining > 0
          /\ row.status # "open" => row.remaining = 0
      BY <2>2, <2>4, <2>5 DEF MaxOf
    <2> QED BY <1>1, <1>4, <2>1, <2>6 DEF FillsResting
  <1>5. ASSUME NEW i \in DOMAIN orders, CancelsOpen(i) PROVE OrderSizes'
    <2>1. PICK row : row = CancelOrder(orders[i])
      OBVIOUS
    <2>2. /\ row.status = "cancelled" /\ row.remaining = 0 /\ row.filled = orders[i].filled
          /\ row.requested = orders[i].requested
      BY <1>5, <2>1 DEF CancelsOpen, CancelOrder, Order
    <2> QED BY <1>1, <1>5, <2>1, <2>2 DEF CancelsOpen, OrderSizes
  <1>6. ASSUME NEW a \in pending, NEW n \in Nat, Rests(a, n) PROVE OrderSizes'
    <2>1. PICK row : row = Placed(plan, intents[plan].complex, intents[plan].legs[a.leg],
                                  "passive", a.price, SizeFor(a))
      OBVIOUS
    <2>2. /\ row.status = "open" /\ row.filled = 0 /\ row.remaining = SizeFor(a)
          /\ row.requested = SizeFor(a)
      BY <2>1 DEF Placed
    <2>3. Appends(n, row) /\ SizeFor(a) > 0 /\ SizeFor(a) \in Nat
      BY <1>6, <2>1 DEF Rests
    <2> QED BY <1>2, <2>2, <2>3
  <1>7. ASSUME NEW n, NEW p, NEW complex, NEW leg, NEW limit, NEW size \in Nat,
               Appends(n, Placed(p, complex, leg, "cross", limit, size))
        PROVE  OrderSizes'
    <2>1. PICK row : row = Placed(p, complex, leg, "cross", limit, size)
      OBVIOUS
    <2>2. row.status = "filled" /\ row.filled = size /\ row.requested = size /\ row.remaining = 0
      BY <2>1 DEF Placed
    <2>3. row.filled <= row.requested
      BY <2>2
    <2> QED BY <1>2, <1>7, <2>1, <2>2, <2>3
  <1>8. CASE \E a \in pending, n, price \in Nat : Crosses(a, n, price)
    BY <1>7, <1>8 DEF Crosses
  <1>9. CASE \E c \in Contracts, n, price \in Nat : Closes(c, n, price)
    BY <1>7, <1>9 DEF Closes
  <1> QED BY <1>3, <1>4, <1>5, <1>6, <1>8, <1>9, OrderWrites

\* The placements a decision asks for: their size is what the leg has left,
\* and the leg has no order resting.
LEMMA DecidedPlacements ==
  ASSUME IInv, OrderSizes, RestingStyle, EvaluateIntent, NEW a \in pending', Placement(a)
  PROVE  /\ plan \in DOMAIN intents /\ a.leg \in DOMAIN intents[plan].legs
         /\ a.size <= intents[plan].legs[a.leg].size - FilledOn(plan, a.leg)
         /\ \A i \in OpenOrders : orders[i].plan = plan =>
              orders[i].contract # intents[plan].legs[a.leg].contract
         /\ a.kind = "place_passive" => intents[plan].style = "passive_then_cross"
         /\ \A b \in pending' : Placement(b) /\ b.leg = a.leg => b = a
  <1> DEFINE intent == intents[plan]
             ids == PlanOrders(plan)
             left(k) == RemainingSize(intent.legs[k], orders, ids)
             cross(k) == CrossPrice(intent.legs[k].side, quotes[intent.legs[k].contract])
  <1>1. /\ pc = "evaluate" /\ pending' = PlanDecision.actions
        /\ plan \in DOMAIN intents
    BY DEF EvaluateIntent, IInv, TickInv, IntentInHand, InIntent
  <1>2. pending' = LegActions(intent, quotes, orders, ids, now)
    <2> DEFINE d == EvaluateExecutionAction(intent, quotes, orders, ids, TRUE, now)
    <2>1. \/ d.actions = {}
          \/ d.actions = ExpiryCancels(orders, ids)
          \/ /\ d.actions = LegActions(intent, quotes, orders, ids, now)
             /\ ~NoCrossPrice(intent, quotes, orders, ids, now)
      BY DecisionCases
    <2>2. PlanDecision = d \/ PlanDecision.actions = {}
      BY DEF PlanDecision, Decision
    <2>3. \A b \in ExpiryCancels(orders, ids) : ~Placement(b)
      BY DEF ExpiryCancels, Cancel, Placement
    <2> HIDE DEF d, intent, ids
    <2> QED BY <1>1, <2>1, <2>2, <2>3
  <1>3. ASSUME NEW b \in pending', Placement(b)
        PROVE  \E k \in DOMAIN intent.legs :
                 /\ b.leg = k
                 /\ \/ /\ MustRest(intent, intent.legs[k], orders, ids, now)
                       /\ b = Place(k, "place_passive", intent.legs[k].limit, left(k))
                    \/ /\ MustCross(intent, intent.legs[k], orders, ids, now)
                       /\ b = Place(k, "place_cross", cross(k), left(k))
    <2>1. PICK k \in DOMAIN intent.legs :
            \/ /\ MustRest(intent, intent.legs[k], orders, ids, now)
               /\ b = Place(k, "place_passive", intent.legs[k].limit, left(k))
            \/ \E i \in ids : /\ MustPull(intent, intent.legs[k], i, orders, ids, now)
                              /\ b = Cancel(k, i)
            \/ /\ MustCross(intent, intent.legs[k], orders, ids, now)
               /\ b = Place(k, "place_cross", cross(k), left(k))
      BY <1>2, <1>3, LegActionCases
    <2>2. \A i : b # Cancel(k, i)
      BY <1>3 DEF Cancel, Placement
    <2>3. \A kind, price, size : Place(k, kind, price, size).leg = k
      BY DEF Place
    <2> QED BY <2>1, <2>2, <2>3
  <1>4. PICK k \in DOMAIN intent.legs :
          /\ a.leg = k
          /\ \/ /\ MustRest(intent, intent.legs[k], orders, ids, now)
                /\ a = Place(k, "place_passive", intent.legs[k].limit, left(k))
             \/ /\ MustCross(intent, intent.legs[k], orders, ids, now)
                /\ a = Place(k, "place_cross", cross(k), left(k))
    BY <1>3
  <1>5. a.size = left(k) /\ left(k) > 0
    BY <1>4 DEF Place, MustRest, MustCross
  <1>6. left(k) = MaxOf(0, intent.legs[k].size - FilledOn(plan, k))
        /\ intent.legs[k].size \in Nat /\ FilledOn(plan, k) \in Int
    BY <1>1, RemainingIs, IntentFields, OnLegIs DEF IInv
  <1>7. a.size <= intent.legs[k].size - FilledOn(plan, k)
    <2> HIDE DEF left, intent
    <2> QED BY <1>5, <1>6 DEF MaxOf
  <1>8. ASSUME NEW i \in OpenOrders, orders[i].plan = plan,
               orders[i].contract = intent.legs[k].contract
        PROVE  FALSE
    <2>1. i \in RestingOf(intent.legs[k], orders, ids)
      BY <1>1, <1>8, RestingFound
    <2>2. intent.style = "passive_then_cross"
      BY <1>8 DEF RestingStyle
    <2>3. CASE MustRest(intent, intent.legs[k], orders, ids, now)
      BY <2>1, <2>3 DEF MustRest
    <2>4. CASE MustCross(intent, intent.legs[k], orders, ids, now)
      BY <2>1, <2>2, <2>4 DEF MustCross
    <2> QED BY <1>4, <2>3, <2>4
  <1>9. a.kind = "place_passive" => intent.style = "passive_then_cross"
    BY <1>4 DEF Place, MustRest, MayRest
  <1>10. ASSUME NEW b \in pending', Placement(b), b.leg = k PROVE b = a
    <2>1. \/ /\ MustRest(intent, intent.legs[k], orders, ids, now)
             /\ b = Place(k, "place_passive", intent.legs[k].limit, left(k))
          \/ /\ MustCross(intent, intent.legs[k], orders, ids, now)
             /\ b = Place(k, "place_cross", cross(k), left(k))
      BY <1>3, <1>10
    <2>2. ~(MustRest(intent, intent.legs[k], orders, ids, now)
            /\ MustCross(intent, intent.legs[k], orders, ids, now))
      BY DEF MustRest, MustCross
    <2> QED BY <1>4, <2>1, <2>2
  <1> QED BY <1>1, <1>4, <1>7, <1>8, <1>9, <1>10

\* An open order was open before, for the same plan and leg, or was just put to rest.
LEMMA OpenFate ==
  ASSUME IInv, [Next]_vars, NEW i \in OpenOrders'
  PROVE  \/ /\ i \in OpenOrders
            /\ orders'[i].plan = orders[i].plan /\ orders'[i].contract = orders[i].contract
         \/ \E a \in pending, n \in Nat : Rests(a, n) /\ i = n
  <1>0. i \in DOMAIN orders' /\ orders'[i].status = "open"
    BY DEF OpenOrders
  <1>1. CASE UNCHANGED orders
    BY <1>0, <1>1 DEF OpenOrders
  <1>2. ASSUME NEW j \in DOMAIN orders, NEW size \in Nat, NEW price \in Nat,
               FillsResting(j, size, price)
        PROVE  i \in OpenOrders /\ orders'[i].plan = orders[i].plan
               /\ orders'[i].contract = orders[i].contract
    <2>1. orders[j] \in Order /\ Rewrites(j, MergeFill(orders[j], size)) /\ j \in OpenOrders
      BY <1>2 DEF FillsResting
    <2>2. /\ MergeFill(orders[j], size).plan = orders[j].plan
          /\ MergeFill(orders[j], size).contract = orders[j].contract
      BY <2>1, MergeFillFields
    <2> QED BY <1>0, <2>1, <2>2 DEF Rewrites, OpenOrders
  <1>3. ASSUME NEW j \in DOMAIN orders, CancelsOpen(j)
        PROVE  i \in OpenOrders /\ orders'[i].plan = orders[i].plan
               /\ orders'[i].contract = orders[i].contract
    <2>1. orders[j] \in Order /\ Rewrites(j, CancelOrder(orders[j])) /\ j \in OpenOrders
      BY <1>3 DEF CancelsOpen
    <2>2. /\ CancelOrder(orders[j]).plan = orders[j].plan
          /\ CancelOrder(orders[j]).contract = orders[j].contract
      BY <2>1, CancelOrderFields
    <2> QED BY <1>0, <2>1, <2>2 DEF Rewrites, OpenOrders
  <1>4. ASSUME NEW a \in pending, NEW n \in Nat, Rests(a, n)
        PROVE  \/ /\ i \in OpenOrders
                  /\ orders'[i].plan = orders[i].plan /\ orders'[i].contract = orders[i].contract
               \/ i = n
    BY <1>0, <1>4 DEF Rests, Appends, OpenOrders
  <1>5. ASSUME NEW n, NEW p, NEW complex, NEW leg, NEW limit, NEW size,
               Appends(n, Placed(p, complex, leg, "cross", limit, size))
        PROVE  i \in OpenOrders /\ orders'[i].plan = orders[i].plan
               /\ orders'[i].contract = orders[i].contract
    <2>1. Placed(p, complex, leg, "cross", limit, size).status = "filled"
      BY DEF Placed
    <2> QED BY <1>0, <1>5, <2>1 DEF Appends, OpenOrders
  <1>6. ASSUME NEW a \in pending, NEW n \in Nat, NEW price \in Nat, Crosses(a, n, price)
        PROVE  i \in OpenOrders /\ orders'[i].plan = orders[i].plan
               /\ orders'[i].contract = orders[i].contract
    BY <1>5, <1>6 DEF Crosses
  <1>7. ASSUME NEW c \in Contracts, NEW n \in Nat, NEW price \in Nat, Closes(c, n, price)
        PROVE  i \in OpenOrders /\ orders'[i].plan = orders[i].plan
               /\ orders'[i].contract = orders[i].contract
    BY <1>5, <1>7 DEF Closes
  <1> QED BY <1>1, <1>2, <1>3, <1>4, <1>6, <1>7, OrderWrites

LEMMA RestingStyleStep ==
  ASSUME IInv, OrderSizes, RestingStyle, [Next]_vars PROVE RestingStyle'
  <1>1. ASSUME NEW i \in OpenOrders' PROVE intents'[orders'[i].plan].style = "passive_then_cross"
    <2>1. CASE i \in OpenOrders /\ orders'[i].plan = orders[i].plan
      <3>1. orders[i].plan \in DOMAIN intents /\ intents[orders[i].plan].style = "passive_then_cross"
        BY <2>1 DEF RestingStyle, IInv, RowsInv, RestsAtLimit
      <3> QED BY <2>1, <3>1, IntentsKept
    <2>2. ASSUME NEW a \in pending, NEW n \in Nat, Rests(a, n), i = n
          PROVE  intents'[orders'[i].plan].style = "passive_then_cross"
      <3>1. orders'[i].plan = plan
        BY <2>2 DEF Rests, Appends, Placed
      <3>2. intents[plan].style = "passive_then_cross" /\ plan \in DOMAIN intents
        BY <2>2 DEF Rests, RestingStyle
      <3> QED BY <3>1, <3>2, IntentsKept
    <2> QED BY <2>1, <2>2, OpenFate
  <1>2. ASSUME NEW a \in pending', a.kind = "place_passive"
        PROVE  intents'[plan'].style = "passive_then_cross"
    <2>1. CASE EvaluateIntent
      <3>1. /\ plan \in DOMAIN intents
            /\ intents[plan].style = "passive_then_cross"
        BY <1>2, <2>1, DecidedPlacements DEF Placement
      <3>2. UNCHANGED <<plan, intents>>
        BY <2>1 DEF EvaluateIntent
      <3> QED BY <3>1, <3>2
    <2>2. CASE pending' \subseteq pending /\ plan' = plan /\ plan \in DOMAIN intents
      <3>1. intents[plan].style = "passive_then_cross"
        BY <1>2, <2>2 DEF RestingStyle
      <3> QED BY <2>2, <3>1, IntentsKept
    <2> QED BY <1>2, <2>1, <2>2, PendingTaken
  <1> QED BY <1>1, <1>2 DEF RestingStyle

\* The orders on a leg stay when rows are rewritten, and what is filled of them
\* when the rewritten row keeps it.
LEMMA LegRewritten ==
  ASSUME NEW p, NEW k, intents'[p].legs[k] = intents[p].legs[k],
         NEW i, NEW row, Rewrites(i, row),
         row.plan = orders[i].plan, row.contract = orders[i].contract
  PROVE  OnLeg(p, k)' = OnLeg(p, k)
  <1>1. \A j \in DOMAIN orders : /\ orders'[j].plan = orders[j].plan
                                /\ orders'[j].contract = orders[j].contract
    BY DEF Rewrites
  <1> QED BY <1>1 DEF Rewrites, OnLeg

\* An appended order is on the leg of its plan and contract.
LEMMA LegAppended ==
  ASSUME NEW p, NEW k, intents'[p].legs[k] = intents[p].legs[k],
         NEW n, NEW row, Appends(n, row)
  PROVE  /\ row.plan = p /\ row.contract = intents[p].legs[k].contract =>
              OnLeg(p, k)' = OnLeg(p, k) \cup {n}
         /\ ~(row.plan = p /\ row.contract = intents[p].legs[k].contract) =>
              OnLeg(p, k)' = OnLeg(p, k)
         /\ \A i \in OnLeg(p, k) : orders'[i] = orders[i]
  BY DEF Appends, OnLeg

\* Nothing is pending while a resting order trades or a position is closed.
LEMMA NothingPending ==
  ASSUME IInv, pc \in {"reconcile", "close"} PROVE pending = {}
  BY DEF IInv, TickInv, PendingInHand, Applying, Booking

LEMMA PlacementsFitStep ==
  ASSUME IInv, IInv', OrderSizes, RestingStyle, PlacementsFit, [Next]_vars PROVE PlacementsFit'
  <1>1. CASE EvaluateIntent
    <2>1. UNCHANGED <<plan, intents, orders>>
      BY <1>1 DEF EvaluateIntent
    <2>2. /\ OpenOrders' = OpenOrders
          /\ \A k : FilledOn(plan, k)' = FilledOn(plan, k)
      BY <2>1 DEF OpenOrders, FilledOn, OnLeg
    <2> QED BY <1>1, <2>1, <2>2, DecidedPlacements DEF PlacementsFit
  <1>2. CASE pending' = {}
    BY <1>2 DEF PlacementsFit
  <1>3. CASE pending' \subseteq pending /\ plan' = plan /\ plan \in DOMAIN intents
    <2>1. intents'[plan] = intents[plan]
      BY <1>3, IntentsKept
    <2>2. ASSUME NEW b \in pending', Placement(b)
          PROVE  b \in pending /\ b.leg \in DOMAIN intents[plan].legs /\ b.kind # "cancel"
      <3>1. b \in pending /\ b.kind # "cancel"
        BY <1>3, <2>2 DEF Placement
      <3> QED BY <3>1 DEF IInv, TickInv, PendingInHand
    <2>3. ASSUME NEW b \in pending', Placement(b),
                 FilledOn(plan, b.leg)' = FilledOn(plan, b.leg),
                 ~\E a \in pending, n \in Nat : Rests(a, n)
          PROVE  /\ b.size <= intents'[plan'].legs[b.leg].size - FilledOn(plan, b.leg)'
                 /\ \A i \in OpenOrders' : orders'[i].plan = plan' =>
                      orders'[i].contract # intents'[plan'].legs[b.leg].contract
      <3>1. \A i \in OpenOrders' : /\ i \in OpenOrders /\ orders'[i].plan = orders[i].plan
                                   /\ orders'[i].contract = orders[i].contract
        BY <2>3, OpenFate
      <3>2. b \in pending
        BY <2>2, <2>3
      <3>3. b.size <= intents[plan].legs[b.leg].size - FilledOn(plan, b.leg)
        BY <2>3, <3>2 DEF PlacementsFit
      <3>4. \A i \in OpenOrders : orders[i].plan = plan =>
                      orders[i].contract # intents[plan].legs[b.leg].contract
        BY <2>3, <3>2 DEF PlacementsFit
      <3> QED BY <1>3, <2>1, <2>3, <3>1, <3>3, <3>4
    <2>4. ASSUME NEW b \in pending', Placement(b)
          PROVE  /\ b.size <= intents'[plan'].legs[b.leg].size - FilledOn(plan, b.leg)'
                 /\ \A i \in OpenOrders' : orders'[i].plan = plan' =>
                      orders'[i].contract # intents'[plan'].legs[b.leg].contract
      <3>0. b \in pending /\ b.leg \in DOMAIN intents[plan].legs
        BY <2>2, <2>4
      <3>1. CASE UNCHANGED orders
        <4>1. FilledOn(plan, b.leg)' = FilledOn(plan, b.leg)
          BY <1>3, <2>1, <3>1 DEF FilledOn, OnLeg
        <4>2. ~\E a \in pending, n \in Nat : Rests(a, n)
          BY <3>1 DEF Rests, Appends
        <4> QED BY <2>3, <2>4, <4>1, <4>2
      <3>2. ASSUME NEW i \in DOMAIN orders, NEW size \in Nat, NEW price \in Nat,
                   FillsResting(i, size, price)
            PROVE  FALSE
        BY <3>0, <3>2, NothingPending DEF FillsResting
      <3>3. ASSUME NEW i \in DOMAIN orders, CancelsOpen(i)
            PROVE  /\ FilledOn(plan, b.leg)' = FilledOn(plan, b.leg)
                   /\ ~\E a \in pending, n \in Nat : Rests(a, n)
        <4>1. PICK row : row = CancelOrder(orders[i])
          OBVIOUS
        <4>2. /\ row.plan = orders[i].plan /\ row.contract = orders[i].contract
              /\ row.filled = orders[i].filled
          BY <3>3, <4>1, CancelOrderFields DEF CancelsOpen
        <4>3. Rewrites(i, row)
          BY <3>3, <4>1 DEF CancelsOpen
        <4>4. OnLeg(plan, b.leg)' = OnLeg(plan, b.leg)
          BY <1>3, <2>1, <4>2, <4>3, LegRewritten DEF OnLeg
        <4>5. \A j \in OnLeg(plan, b.leg) : orders'[j].filled = orders[j].filled
          BY <4>2, <4>3 DEF Rewrites, OnLeg
        <4>6. FilledOn(plan, b.leg)' = FilledOn(plan, b.leg)
          BY <1>3, <2>1, <4>4, <4>5, LegKept DEF FilledOn
        <4>7. ~\E a \in pending, n \in Nat : Rests(a, n)
          BY <3>3 DEF CancelsOpen, Rewrites, Rests, Appends
        <4> QED BY <4>6, <4>7
      <3>4. ASSUME NEW a \in pending, Placement(a), a \notin pending', NEW n, NEW row,
                   Appends(n, row), row.plan = plan,
                   row.contract = intents[plan].legs[a.leg].contract
            PROVE  /\ FilledOn(plan, b.leg)' = FilledOn(plan, b.leg)
                   /\ intents[plan].legs[b.leg].contract # row.contract
        <4>1. a.leg # b.leg
          BY <2>4, <3>0, <3>4 DEF PlacementsFit
        <4>2. a.leg \in DOMAIN intents[plan].legs
          BY <3>4 DEF Placement, IInv, TickInv, PendingInHand
        <4>3. intents[plan].legs[b.leg].contract # row.contract
          BY <1>3, <3>0, <3>4, <4>1, <4>2 DEF IInv, RowsInv, DistinctLegs
        <4>4. /\ OnLeg(plan, b.leg)' = OnLeg(plan, b.leg)
              /\ \A i \in OnLeg(plan, b.leg) : orders'[i] = orders[i]
          BY <1>3, <2>1, <3>4, <4>3, LegAppended DEF OnLeg
        <4> QED BY <1>3, <2>1, <4>3, <4>4, LegKept DEF FilledOn
      <3>5. ASSUME NEW a \in pending, NEW n \in Nat, Rests(a, n)
            PROVE  /\ b.size <= intents'[plan'].legs[b.leg].size - FilledOn(plan, b.leg)'
                   /\ \A i \in OpenOrders' : orders'[i].plan = plan' =>
                        orders'[i].contract # intents'[plan'].legs[b.leg].contract
        <4>1. PICK row : row = Placed(plan, intents[plan].complex, intents[plan].legs[a.leg],
                                      "passive", a.price, SizeFor(a))
          OBVIOUS
        <4>2. /\ Appends(n, row) /\ row.plan = plan /\ Placement(a) /\ a \notin pending'
              /\ row.contract = intents[plan].legs[a.leg].contract
          BY <3>5, <4>1 DEF Rests, Placed, Placement
        <4>3. /\ FilledOn(plan, b.leg)' = FilledOn(plan, b.leg)
              /\ intents[plan].legs[b.leg].contract # row.contract
          BY <3>4, <4>2
        <4>4. ASSUME NEW i \in OpenOrders', orders'[i].plan = plan
              PROVE  orders'[i].contract # intents[plan].legs[b.leg].contract
          <5>1. CASE i = n
            BY <4>2, <4>3, <5>1 DEF Appends
          <5>2. CASE i # n
            <6>1. i \in OpenOrders /\ orders'[i] = orders[i]
              BY <4>2, <5>2 DEF Appends, OpenOrders
            <6> QED BY <2>4, <3>0, <4>4, <6>1 DEF PlacementsFit
          <5> QED BY <5>1, <5>2
        <4>5. b.size <= intents[plan].legs[b.leg].size - FilledOn(plan, b.leg)
          BY <2>4, <3>0 DEF PlacementsFit
        <4> QED BY <1>3, <2>1, <4>3, <4>4, <4>5
      <3>6. ASSUME NEW a \in pending, NEW n \in Nat, NEW price \in Nat, Crosses(a, n, price)
            PROVE  /\ FilledOn(plan, b.leg)' = FilledOn(plan, b.leg)
                   /\ ~\E d \in pending, m \in Nat : Rests(d, m)
        <4>1. PICK row : row = Placed(plan, intents[plan].complex, intents[plan].legs[a.leg],
                                      "cross", a.price, SizeFor(a))
          OBVIOUS
        <4>2. /\ Appends(n, row) /\ row.plan = plan /\ Placement(a) /\ a \notin pending'
              /\ row.contract = intents[plan].legs[a.leg].contract
          BY <3>6, <4>1 DEF Crosses, Placed, Placement
        <4>3. ~\E d \in pending, m \in Nat : Rests(d, m)
          BY <3>6 DEF Crosses, Rests
        <4> QED BY <3>4, <4>2, <4>3
      <3>7. ASSUME NEW c \in Contracts, NEW n \in Nat, NEW price \in Nat, Closes(c, n, price)
            PROVE  FALSE
        BY <3>0, <3>7, NothingPending DEF Closes
      <3> QED BY <2>3, <2>4, <3>1, <3>2, <3>3, <3>5, <3>6, <3>7, OrderWrites
    <2>5. \A a, b \in pending' : Placement(a) /\ Placement(b) /\ a.leg = b.leg => a = b
      BY <1>3 DEF PlacementsFit
    <2> QED BY <2>4, <2>5 DEF PlacementsFit
  <1> QED BY <1>1, <1>2, <1>3, PendingTaken

\* A placement commits no more than it was decided for, on the one leg it is for.
LEMMA LegPlaced ==
  ASSUME IInv, IInv', OrderSizes, PlacementsFit, NoOverfill,
         NEW p \in DOMAIN intents, NEW k \in DOMAIN intents[p].legs, intents'[p] = intents[p],
         plan \in DOMAIN intents,
         NEW a \in pending, Placement(a), a.leg \in DOMAIN intents[plan].legs,
         SizeFor(a) \in Nat,
         NEW n, NEW row \in Order, Appends(n, row), row.plan = plan,
         row.contract = intents[plan].legs[a.leg].contract,
         row.filled + row.remaining = SizeFor(a)
  PROVE  Committed(p, k)' <= intents[p].legs[k].size
  <1>0. TypeOK /\ TypeOK' /\ intents'[p].legs[k] = intents[p].legs[k]
        /\ intents[p].legs[k].size \in Nat
    BY IntentFields DEF IInv
  <1>1. CASE p = plan /\ k = a.leg
    <2>1. OnLeg(p, k)' = OnLeg(p, k) \cup {n}
      BY <1>0, <1>1, LegAppended
    <2>2. Committed(p, k)' = Committed(p, k) + row.filled + row.remaining
      BY <1>0, <2>1, LegGrows
    <2>3. /\ a.size <= intents[p].legs[k].size - FilledOn(p, k)
          /\ \A i \in OpenOrders : orders[i].plan = p =>
               orders[i].contract # intents[p].legs[k].contract
      BY <1>1 DEF PlacementsFit
    <2>4. Committed(p, k) = FilledOn(p, k) /\ FilledOn(p, k) \in Int
      BY <1>0, <2>3, NothingRestsCommitted, OnLegIs
    <2>5. SizeFor(a) <= a.size /\ a.size \in Nat
      <3>1. a.size \in Nat /\ a.kind # "cancel"
        BY DEF IInv, TypeOK, LegAction, Placement
      <3>2. a.price \in Nat
        BY <3>1 DEF IInv, TickInv, PendingInHand
      <3>3. Available(held) \in Int
        <4>1. held \in Cash
          BY <1>0 DEF TypeOK
        <4> QED BY <4>1 DEF Cash, Available
      <3> QED BY <3>1, <3>2, <3>3, AffordableSizeNat DEF SizeFor
    <2>6. row.filled \in Nat /\ row.remaining \in Nat
      BY DEF Order
    <2> QED BY <1>0, <2>2, <2>3, <2>4, <2>5, <2>6
  <1>2. CASE ~(p = plan /\ k = a.leg)
    <2>1. ~(row.plan = p /\ row.contract = intents[p].legs[k].contract)
      BY <1>2 DEF IInv, RowsInv, DistinctLegs
    <2>2. /\ OnLeg(p, k)' = OnLeg(p, k)
          /\ \A i \in OnLeg(p, k) : orders'[i] = orders[i]
      BY <1>0, <2>1, LegAppended
    <2>3. \A i \in OnLeg(p, k) : orders[i].filled + orders[i].remaining \in Int
      BY <1>0, OrdersAre DEF OnLeg
    <2>4. Committed(p, k)' <= Committed(p, k)
      BY <1>0, <2>2, <2>3, LegCommitsNoMore
    <2>5. Committed(p, k) <= intents[p].legs[k].size /\ Committed(p, k) \in Int
      BY <1>0, OnLegIs DEF NoOverfill
    <2>6. Committed(p, k)' \in Int
      BY TotalInt DEF Committed
    <2> QED BY <1>0, <2>4, <2>5, <2>6
  <1> QED BY <1>1, <1>2

LEMMA NoOverfillStep ==
  ASSUME IInv, IInv', OrderSizes, PlacementsFit, NoOverfill, [Next]_vars PROVE NoOverfill'
  <1>1. ASSUME NEW p \in DOMAIN intents', NEW k \in DOMAIN intents'[p].legs, p \notin DOMAIN intents
        PROVE  Committed(p, k)' <= intents'[p].legs[k].size
    <2>1. UNCHANGED orders /\ p \in Plans
      BY <1>1, IntentsKept DEF IInv, TypeOK
    <2>2. \A i \in DOMAIN orders : orders[i].plan # p
      BY <1>1, <2>1 DEF IInv, RowsInv, OrdersOfIntents
    <2>3. PICK S : S = OfLeg(intents'[p].legs[k], orders', PlanOrders(p)')
      OBVIOUS
    <2>4. S = {}
      BY <2>1, <2>2, <2>3 DEF OfLeg, PlanOrders
    <2>5. PICK f : f = [i \in S |-> orders'[i].filled + orders'[i].remaining]
      OBVIOUS
    <2>6. Total(f) = 0
      BY <2>4, <2>5, TotalEmpty
    <2>7. Committed(p, k)' = Total(f)
      BY <2>3, <2>5 DEF Committed
    <2>8. intents'[p].legs[k].size \in Nat
      <3>1. intents'[p] \in Intent
        BY DEF IInv, TypeOK
      <3>2. intents'[p].legs[k] \in Leg
        BY <3>1 DEF Intent
      <3> QED BY <3>2 DEF Leg
    <2> QED BY <2>6, <2>7, <2>8
  <1>2. ASSUME NEW p \in DOMAIN intents, NEW k \in DOMAIN intents[p].legs
        PROVE  Committed(p, k)' <= intents[p].legs[k].size
    <2>0. /\ TypeOK /\ TypeOK' /\ intents'[p] = intents[p]
          /\ intents'[p].legs[k] = intents[p].legs[k]
          /\ intents[p].legs[k].size \in Nat /\ Committed(p, k) \in Int
          /\ Committed(p, k)' \in Int /\ Committed(p, k) <= intents[p].legs[k].size
      <3>1. intents'[p] = intents[p] /\ intents'[p].legs[k] = intents[p].legs[k]
        BY IntentsKept
      <3> QED BY <3>1, IntentFields, TotalInt DEF IInv, NoOverfill, Committed
    <2>1. ASSUME OnLeg(p, k)' = OnLeg(p, k),
                 \A i \in OnLeg(p, k) :
                   orders'[i].filled + orders'[i].remaining <= orders[i].filled + orders[i].remaining
          PROVE  Committed(p, k)' <= intents[p].legs[k].size
      <3>1. Committed(p, k)' <= Committed(p, k)
        BY <2>0, <2>1, LegCommitsNoMore
      <3> QED BY <2>0, <3>1
    <2>2. \A i \in OnLeg(p, k) : i \in DOMAIN orders /\ orders[i].filled + orders[i].remaining \in Int
      BY <2>0, OrdersAre DEF OnLeg
    <2>3. CASE UNCHANGED orders
      <3>1. OnLeg(p, k)' = OnLeg(p, k)
        BY <2>0, <2>3 DEF OnLeg
      <3> QED BY <2>1, <2>2, <2>3, <3>1
    <2>4. ASSUME NEW i \in DOMAIN orders, NEW row, Rewrites(i, row),
                 row.plan = orders[i].plan, row.contract = orders[i].contract,
                 row.filled + row.remaining <= orders[i].filled + orders[i].remaining
          PROVE  Committed(p, k)' <= intents[p].legs[k].size
      <3>1. OnLeg(p, k)' = OnLeg(p, k)
        BY <2>0, <2>4, LegRewritten
      <3> QED BY <2>1, <2>2, <2>4, <3>1 DEF Rewrites
    <2>5. ASSUME NEW i \in DOMAIN orders, NEW size \in Nat, NEW price \in Nat,
                 FillsResting(i, size, price)
          PROVE  Committed(p, k)' <= intents[p].legs[k].size
      <3>1. PICK row : row = MergeFill(orders[i], size)
        OBVIOUS
      <3>2. /\ orders[i] \in Order /\ orders[i].status = "open" /\ size <= orders[i].remaining
            /\ orders[i].filled \in Nat /\ orders[i].requested \in Nat
            /\ orders[i].remaining = orders[i].requested - orders[i].filled
            /\ Rewrites(i, row)
        BY <2>0, <2>5, <3>1, OrdersAre DEF FillsResting, OpenOrders, OrderSizes
      <3>3. PICK f \in Nat : f = orders[i].filled + size
        BY <3>2
      <3>4. row.filled = f /\ row.remaining = MaxOf(0, orders[i].requested - f)
            /\ row.plan = orders[i].plan /\ row.contract = orders[i].contract
        BY <3>1, <3>2, <3>3 DEF MergeFill, Order
      <3>5. row.filled + row.remaining <= orders[i].filled + orders[i].remaining
        BY <3>2, <3>3, <3>4 DEF MaxOf
      <3> QED BY <2>4, <3>2, <3>4, <3>5
    <2>6. ASSUME NEW i \in DOMAIN orders, CancelsOpen(i)
          PROVE  Committed(p, k)' <= intents[p].legs[k].size
      <3>1. PICK row : row = CancelOrder(orders[i])
        OBVIOUS
      <3>2. /\ row.filled = orders[i].filled /\ row.remaining = 0 /\ Rewrites(i, row)
            /\ row.plan = orders[i].plan /\ row.contract = orders[i].contract
        BY <2>6, <3>1 DEF CancelsOpen, CancelOrder, Order
      <3>3. orders[i].filled \in Nat /\ orders[i].remaining \in Nat
        BY <2>0, OrdersAre
      <3>4. row.filled + row.remaining <= orders[i].filled + orders[i].remaining
        BY <3>2, <3>3
      <3> QED BY <2>4, <3>2, <3>4
    <2>7. ASSUME NEW a \in pending, NEW n \in Nat, Rests(a, n)
          PROVE  Committed(p, k)' <= intents[p].legs[k].size
      <3>1. PICK row : row = Placed(plan, intents[plan].complex, intents[plan].legs[a.leg],
                                    "passive", a.price, SizeFor(a))
        OBVIOUS
      <3>2. /\ row \in Order /\ Appends(n, row) /\ row.plan = plan /\ Placement(a)
            /\ row.contract = intents[plan].legs[a.leg].contract
            /\ row.filled = 0 /\ row.remaining = SizeFor(a)
            /\ SizeFor(a) \in Nat /\ plan \in DOMAIN intents /\ a.leg \in DOMAIN intents[plan].legs
        BY <2>7, <3>1 DEF Rests, Placed, Placement
      <3>3. row.filled + row.remaining = SizeFor(a)
        BY <3>2
      <3> QED BY <2>0, <3>2, <3>3, LegPlaced
    <2>8. ASSUME NEW a \in pending, NEW n \in Nat, NEW price \in Nat, Crosses(a, n, price)
          PROVE  Committed(p, k)' <= intents[p].legs[k].size
      <3>1. PICK row : row = Placed(plan, intents[plan].complex, intents[plan].legs[a.leg],
                                    "cross", a.price, SizeFor(a))
        OBVIOUS
      <3>2. /\ row \in Order /\ Appends(n, row) /\ row.plan = plan /\ Placement(a)
            /\ row.contract = intents[plan].legs[a.leg].contract
            /\ row.filled = SizeFor(a) /\ row.remaining = 0
            /\ SizeFor(a) \in Nat /\ plan \in DOMAIN intents /\ a.leg \in DOMAIN intents[plan].legs
        BY <2>8, <3>1 DEF Crosses, Placed, Placement
      <3>3. row.filled + row.remaining = SizeFor(a)
        BY <3>2
      <3> QED BY <2>0, <3>2, <3>3, LegPlaced
    <2>9. ASSUME NEW c \in Contracts, NEW n \in Nat, NEW price \in Nat, Closes(c, n, price)
          PROVE  Committed(p, k)' <= intents[p].legs[k].size
      <3>1. PICK row : Appends(n, row) /\ row.plan = OperatorFlatten
        BY <2>9 DEF Closes, Placed
      <3>2. row.plan # p
        BY <2>0, <3>1, WorkerAssumption DEF TypeOK
      <3>3. /\ OnLeg(p, k)' = OnLeg(p, k)
            /\ \A i \in OnLeg(p, k) : orders'[i] = orders[i]
        BY <2>0, <3>1, <3>2, LegAppended
      <3> QED BY <2>1, <2>2, <3>3
    <2> QED BY <2>3, <2>5, <2>6, <2>7, <2>8, <2>9, OrderWrites
  <1>3. \A p \in DOMAIN intents : intents'[p] = intents[p]
    BY IntentsKept
  <1> QED BY <1>1, <1>2, <1>3 DEF NoOverfill

LEMMA InitLegs == Init => LegsInv
  <1> SUFFICES ASSUME Init PROVE LegsInv
    OBVIOUS
  <1>1. DOMAIN orders = {} /\ DOMAIN intents = {} /\ pending = {} /\ OpenOrders = {}
    BY DEF Init, OpenOrders
  <1> QED BY <1>1 DEF LegsInv, OrderSizes, RestingStyle, PlacementsFit, NoOverfill

LEMMA LegsInvariance == Spec => []LegsInv
  <1>1. IInv /\ IInv' /\ LegsInv /\ [Next]_vars => LegsInv'
    BY OrderSizesStep, RestingStyleStep, PlacementsFitStep, NoOverfillStep DEF LegsInv
  <1> QED BY <1>1, InitLegs, Invariance, PTL DEF Spec

\* However the reconciliations, cancels, replacements, flattens and crashes
\* interleave, the orders of a leg never commit more than the leg's size: what
\* is left is computed from the stored rows, nothing rests on the leg when an
\* order is placed for it, and an order is placed for it once.
THEOREM LegsNeverOverfill == Spec => []NoOverfill
  <1>1. LegsInv => NoOverfill
    BY DEF LegsInv
  <1> QED BY <1>1, LegsInvariance, PTL

-----------------------------------------------------------------------------
(* Plans that are completed. *)

\* Every leg of the plan is filled, or it expired before it placed an order.
Settled(p) ==
  \/ \A k \in DOMAIN intents[p].legs : intents[p].legs[k].size <= FilledOn(p, k)
  \/ intents[p].expiry <= now /\ PlanOrders(p) = {}

CompletedInv ==
  /\ now <= clock
  /\ pending # {} => actions[plan] # "completed"
  /\ \A p \in Plans : actions[p] = "completed" => p \in DOMAIN intents /\ Settled(p)

LEMMA InitCompleted == Init => CompletedInv
  BY DEF Init, CompletedInv

\* Whatever rests on a leg is committed on top of what is filled.
LEMMA OpenCommits ==
  ASSUME TypeOK, NEW p, NEW k, NEW i \in OnLeg(p, k)
  PROVE  FilledOn(p, k) + orders[i].remaining <= Committed(p, k)
  <1>1. PICK S : S = OnLeg(p, k)
    OBVIOUS
  <1>2. /\ IsFiniteSet(S) /\ i \in S
        /\ \A j \in S : orders[j].filled \in Nat /\ orders[j].remaining \in Nat
    BY <1>1, OnLegIs, OrdersAre
  <1>3. PICK f, g, h :
          /\ f = [j \in S |-> orders[j].filled]
          /\ g = [j \in S |-> orders[j].filled + orders[j].remaining]
          /\ h = [j \in S |-> IF j = i THEN orders[i].filled + orders[i].remaining
                              ELSE orders[j].filled]
    OBVIOUS
  <1>4. Total(f) = FilledOn(p, k) /\ Total(g) = Committed(p, k)
    BY <1>1, <1>3, OnLegIs DEF FilledOn
  <1>5. /\ DOMAIN f = S /\ DOMAIN g = S /\ DOMAIN h = S
        /\ \A j \in S : f[j] \in Int /\ g[j] \in Int /\ h[j] \in Int /\ h[j] <= g[j]
        /\ \A j \in S : j # i => h[j] = f[j]
        /\ h[i] = f[i] + orders[i].remaining
    BY <1>2, <1>3
  <1>6. Total(h) = Total(f) + h[i] - f[i]
    BY <1>2, <1>5, TotalChange
  <1>7. Total(h) <= Total(g)
    BY <1>2, <1>5, TotalMonotone
  <1>8. Total(f) \in Int /\ Total(h) \in Int /\ Total(g) \in Int /\ f[i] \in Int
        /\ orders[i].remaining \in Int
    BY <1>2, <1>5, TotalInt
  <1> QED BY <1>4, <1>5, <1>6, <1>7, <1>8

\* What is filled on a leg never shrinks.
LEMMA FilledGrows ==
  ASSUME IInv, IInv', [Next]_vars, NEW p \in DOMAIN intents, NEW k \in DOMAIN intents[p].legs
  PROVE  FilledOn(p, k) <= FilledOn(p, k)'
  <1>1. intents'[p] = intents[p] /\ TypeOK /\ TypeOK'
    BY IntentsKept DEF IInv
  <1>2. PICK S, T : S = OnLeg(p, k) /\ T = OnLeg(p, k)'
    OBVIOUS
  <1>3. PICK f, g : /\ f = [i \in S |-> orders[i].filled]
                    /\ g = [i \in T |-> orders'[i].filled]
    OBVIOUS
  <1>4. Total(f) = FilledOn(p, k) /\ Total(g) = FilledOn(p, k)'
    BY <1>2, <1>3 DEF FilledOn
  <1>5. \A i \in DOMAIN orders : /\ i \in DOMAIN orders'
                                 /\ orders'[i].plan = orders[i].plan
                                 /\ orders'[i].contract = orders[i].contract
    BY OrdersKeepComplex
  <1>6. \A i \in DOMAIN orders : orders[i].filled <= orders'[i].filled /\ orders[i].filled \in Nat
    BY <1>1, OrdersOnlyGrow, OrdersAre DEF Frozen
  <1>7. S \subseteq T
    BY <1>1, <1>2, <1>5 DEF OnLeg
  <1>8. S \subseteq DOMAIN orders
    BY <1>2 DEF OnLeg
  <1>9. IsFiniteSet(T) /\ \A i \in T : orders'[i].filled \in Nat
    <2>1. T \subseteq DOMAIN orders'
      BY <1>2 DEF OnLeg
    <2>2. orders' \in Seq(Order)
      BY <1>1 DEF TypeOK
    <2>3. DOMAIN orders' = 1 .. Len(orders') /\ Len(orders') \in Nat
      BY <2>2
    <2>4. IsFiniteSet(DOMAIN orders')
      BY <2>3, FS_Interval
    <2>5. \A i \in DOMAIN orders' : orders'[i] \in Order
      BY <2>2
    <2> QED BY <2>1, <2>4, <2>5, FS_Subset DEF Order
  <1>10. /\ DOMAIN f = S /\ DOMAIN g = T /\ IsFiniteSet(DOMAIN g) /\ DOMAIN f \subseteq DOMAIN g
         /\ \A i \in DOMAIN f : f[i] \in Int /\ g[i] \in Int /\ f[i] <= g[i]
         /\ \A i \in DOMAIN g \ DOMAIN f : g[i] \in Nat
    BY <1>3, <1>6, <1>7, <1>8, <1>9
  <1>11. Total(f) <= Total(g)
    BY <1>10, TotalMonotone
  <1> QED BY <1>4, <1>11

\* A new order is a flatten's, or comes of what is pending for the plan in hand.
LEMMA NewOrderPending ==
  ASSUME IInv, [Next]_vars, NEW i \in DOMAIN orders' \ DOMAIN orders
  PROVE  \/ orders'[i].plan = OperatorFlatten
         \/ orders'[i].plan = plan /\ pending # {}
  <1>1. ASSUME NEW a \in pending, NEW n \in Nat, Rests(a, n)
        PROVE  orders'[i].plan = plan /\ pending # {}
    BY <1>1 DEF Rests, Appends, Placed
  <1>2. ASSUME NEW a \in pending, NEW n \in Nat, NEW price \in Nat, Crosses(a, n, price)
        PROVE  orders'[i].plan = plan /\ pending # {}
    BY <1>2 DEF Crosses, Appends, Placed
  <1>3. ASSUME NEW c \in Contracts, NEW n \in Nat, NEW price \in Nat, Closes(c, n, price)
        PROVE  orders'[i].plan = OperatorFlatten
    BY <1>3 DEF Closes, Appends, Placed
  <1>4. ASSUME NEW j, NEW row, Rewrites(j, row) PROVE FALSE
    BY <1>4 DEF Rewrites
  <1> QED BY <1>1, <1>2, <1>3, <1>4, OrderWrites DEF FillsResting, CancelsOpen

\* A plan that is settled stays settled as long as nothing is pending for it.
LEMMA SettledKept ==
  ASSUME IInv, IInv', CompletedInv, [Next]_vars,
         NEW p \in DOMAIN intents, Settled(p), actions[p] = "completed"
  PROVE  Settled(p)'
  <1>1. intents'[p] = intents[p] /\ p \in Plans
    BY IntentsKept DEF IInv, TypeOK
  <1>2. CASE \A k \in DOMAIN intents[p].legs : intents[p].legs[k].size <= FilledOn(p, k)
    <2>1. ASSUME NEW k \in DOMAIN intents[p].legs
          PROVE  intents[p].legs[k].size <= FilledOn(p, k)'
      <3>1. FilledOn(p, k) <= FilledOn(p, k)'
        BY FilledGrows
      <3>2. FilledOn(p, k) \in Int /\ FilledOn(p, k)' \in Int /\ intents[p].legs[k].size \in Nat
        BY IntentFields, TotalInt DEF FilledOn, IInv
      <3> QED BY <1>2, <3>1, <3>2
    <2> QED BY <1>1, <2>1 DEF Settled
  <1>3. CASE intents[p].expiry <= now /\ PlanOrders(p) = {}
    <2>1. now' >= now
      <3>1. now' = now \/ now' = clock
        BY DEF Next, Worker, Environment, BeginTick, ScanIntents, EnsureCash, EndTick,
           PersistFill, PersistPosition, PersistCash, LoadIntent, ReconcileFill, FinishReconcile,
           EvaluateIntent, ApplyNext, RestateCash, FinishApply, FlattenCancel, FlattenCancelled,
           ClosePosition, FlattenSnapshot, EndFlatten, Crash, PublishIntent, Command, Pause,
           Resume, Flatten, AdvanceClock, vars, tickVars
      <3> QED BY <3>1 DEF CompletedInv, IInv, TypeOK
    <2>2. intents[p].expiry <= now'
      <3>1. intents[p] \in Intent /\ now \in Nat /\ now' \in Nat
        BY DEF IInv, TypeOK
      <3>2. intents[p].expiry \in Nat
        BY <3>1 DEF Intent
      <3> QED BY <1>3, <2>1, <3>1, <3>2
    <2>3. PlanOrders(p)' = {}
      <3> SUFFICES ASSUME NEW i \in DOMAIN orders', orders'[i].plan = p PROVE FALSE
        BY DEF PlanOrders
      <3>1. CASE i \in DOMAIN orders
        BY <1>3, <3>1, OrdersKeepComplex DEF PlanOrders
      <3>2. CASE i \notin DOMAIN orders
        <4>1. p = plan /\ pending # {}
          BY <1>1, <3>2, NewOrderPending, WorkerAssumption
        <4> QED BY <4>1 DEF CompletedInv
      <3> QED BY <3>1, <3>2
    <2> QED BY <1>1, <2>2, <2>3 DEF Settled
  <1> QED BY <1>2, <1>3 DEF Settled

\* What the decision says of a plan: a completed one asks for nothing and is
\* settled, and a settled one is completed.
LEMMA CompletedDecision ==
  ASSUME IInv, LegsInv, pc = "evaluate"
  PROVE  /\ plan \in DOMAIN intents
         /\ PlanDecision.status = "completed" => PlanDecision.actions = {} /\ Settled(plan)
         /\ Settled(plan) => PlanDecision.status = "completed"
  <1>0. plan \in DOMAIN intents /\ TypeOK /\ OrderSizes
    BY DEF IInv, TickInv, IntentInHand, InIntent, LegsInv
  <1>1. PICK intent, ids : intent = intents[plan] /\ ids = PlanOrders(plan)
    OBVIOUS
  <1>2. PICK d : d = EvaluateExecutionAction(intent, quotes, orders, ids, TRUE, now)
    OBVIOUS
  <1>3. PlanDecision = IF intent.expiry <= now /\ ids = {} THEN Decision("completed", {}) ELSE d
    BY <1>1, <1>2 DEF PlanDecision
  <1>4. d.status = "completed" => FullyFilled(intent, orders, ids) /\ d.actions = {}
    BY <1>2 DEF EvaluateExecutionAction, Decision
  <1>5. \A k \in DOMAIN intent.legs :
          RemainingSize(intent.legs[k], orders, ids) = MaxOf(0, intent.legs[k].size - FilledOn(plan, k))
          /\ intent.legs[k].size \in Nat /\ FilledOn(plan, k) \in Int
    BY <1>0, <1>1, RemainingIs, IntentFields, OnLegIs
  <1>6. FullyFilled(intent, orders, ids)
          <=> \A k \in DOMAIN intent.legs : intent.legs[k].size <= FilledOn(plan, k)
    <2>1. \A k \in DOMAIN intent.legs : RemainingSize(intent.legs[k], orders, ids) = 0
            <=> intent.legs[k].size <= FilledOn(plan, k)
      BY <1>5 DEF MaxOf
    <2> QED BY <2>1 DEF FullyFilled
  <1>7. PlanDecision.status = "completed" => PlanDecision.actions = {} /\ Settled(plan)
    <2>1. CASE intent.expiry <= now /\ ids = {}
      BY <1>1, <1>3, <2>1 DEF Decision, Settled
    <2>2. CASE ~(intent.expiry <= now /\ ids = {})
      BY <1>1, <1>3, <1>4, <1>6, <2>2 DEF Settled
    <2> QED BY <2>1, <2>2
  <1>8. ASSUME Settled(plan) PROVE PlanDecision.status = "completed"
    <2>1. CASE intent.expiry <= now /\ ids = {}
      BY <1>3, <2>1 DEF Decision
    <2>2. CASE ~(intent.expiry <= now /\ ids = {})
      <3>1. FullyFilled(intent, orders, ids)
        BY <1>1, <1>6, <1>8, <2>2 DEF Settled
      <3>2. OpenOf(orders, ids) = {}
        <4> SUFFICES ASSUME NEW i \in OpenOf(orders, ids) PROVE FALSE
          OBVIOUS
        <4>1. i \in DOMAIN orders /\ orders[i].plan = plan /\ orders[i].status = "open"
          BY <1>1 DEF OpenOf, PlanOrders
        <4>2. PICK k \in DOMAIN intent.legs : orders[i].contract = intent.legs[k].contract
          BY <1>1, <4>1 DEF IInv, RowsInv, RestsAtLimit, OpenOrders
        <4>3. i \in OnLeg(plan, k)
          BY <1>1, <4>1, <4>2 DEF OnLeg
        <4>4. FilledOn(plan, k) + orders[i].remaining <= Committed(plan, k)
          BY <1>0, <4>3, OpenCommits
        <4>5. Committed(plan, k) <= intent.legs[k].size /\ Committed(plan, k) \in Int
          BY <1>0, <1>1, <4>2, OnLegIs DEF LegsInv, NoOverfill
        <4>6. intent.legs[k].size <= FilledOn(plan, k)
          BY <1>6, <3>1
        <4>7. orders[i].remaining > 0 /\ orders[i].remaining \in Nat
          BY <1>0, <4>1, OrdersAre DEF OrderSizes
        <4> QED BY <1>5, <4>2, <4>4, <4>5, <4>6, <4>7
      <3>3. ~NoCrossPrice(intent, quotes, orders, ids, now)
        BY <3>1 DEF NoCrossPrice, MustCross, FullyFilled
      <3>4. d.status = "completed"
        BY <1>2, <3>1, <3>2, <3>3 DEF EvaluateExecutionAction, Decision
      <3> QED BY <1>3, <2>2, <3>4
    <2> QED BY <2>1, <2>2
  <1> QED BY <1>0, <1>7, <1>8

\* Only an evaluation writes the status of a plan.
LEMMA StatusWritten ==
  ASSUME [Next]_vars
  PROVE  \/ UNCHANGED actions /\ ~EvaluateIntent
         \/ EvaluateIntent /\ actions' = [actions EXCEPT ![plan] = PlanDecision.status]
  <1>1. EvaluateIntent => actions' = [actions EXCEPT ![plan] = PlanDecision.status]
    BY DEF EvaluateIntent
  <1>2. ~EvaluateIntent => UNCHANGED actions
    BY DEF Next, Worker, Environment, BeginTick, ScanIntents, EnsureCash, EndTick,
           PersistFill, PersistPosition, PersistCash, LoadIntent, ReconcileFill, FinishReconcile,
           ApplyNext, RestateCash, FinishApply, FlattenCancel, FlattenCancelled,
           ClosePosition, FlattenSnapshot, EndFlatten, Crash, PublishIntent, Command, Pause,
           Resume, Flatten, AdvanceClock, vars, tableVars
  <1> QED BY <1>1, <1>2

LEMMA CompletedStep ==
  ASSUME IInv, IInv', LegsInv, CompletedInv, [Next]_vars
  PROVE  /\ CompletedInv'
         /\ \A p \in Plans : actions[p] = "completed" => actions'[p] = "completed"
  <1>1. now' <= clock'
    <2>1. \/ now' = clock /\ clock' = clock
          \/ now' = now /\ clock' = clock
          \/ now' = now /\ clock' = clock + 1
      BY DEF Next, Worker, Environment, BeginTick, ScanIntents, EnsureCash, EndTick,
           PersistFill, PersistPosition, PersistCash, LoadIntent, ReconcileFill, FinishReconcile,
           EvaluateIntent, ApplyNext, RestateCash, FinishApply, FlattenCancel, FlattenCancelled,
           ClosePosition, FlattenSnapshot, EndFlatten, Crash, PublishIntent, Command, Pause,
           Resume, Flatten, AdvanceClock, vars, tickVars, envVars
    <2> QED BY <2>1 DEF CompletedInv, IInv, TypeOK
  <1>2. actions \in [Plans -> ActionStatuses \cup {"none"}] /\ DOMAIN intents \subseteq Plans
    BY DEF IInv, TypeOK
  <1>3. CASE EvaluateIntent
    <2>1. /\ actions' = [actions EXCEPT ![plan] = PlanDecision.status]
          /\ pending' = PlanDecision.actions /\ pc = "evaluate"
          /\ UNCHANGED <<plan, intents, orders, now>>
      BY <1>3 DEF EvaluateIntent
    <2>2. /\ plan \in DOMAIN intents
          /\ PlanDecision.status = "completed" => PlanDecision.actions = {} /\ Settled(plan)
          /\ Settled(plan) => PlanDecision.status = "completed"
      BY <2>1, CompletedDecision
    <2>3. \A p : Settled(p)' <=> Settled(p)
      BY <2>1 DEF Settled, FilledOn, OnLeg, PlanOrders
    <2>4. actions'[plan] = PlanDecision.status /\ \A p \in Plans : p # plan => actions'[p] = actions[p]
      BY <1>2, <2>1, <2>2
    <2> QED BY <1>1, <2>1, <2>2, <2>3, <2>4 DEF CompletedInv
  <1>4. CASE ~EvaluateIntent
    <2>1. UNCHANGED actions
      BY <1>4, StatusWritten
    <2>2. pending' # {} => actions'[plan'] # "completed"
      BY <1>4, <2>1, PendingTaken DEF CompletedInv
    <2>3. ASSUME NEW p \in Plans, actions'[p] = "completed"
          PROVE  p \in DOMAIN intents' /\ Settled(p)'
      BY <2>1, <2>3, SettledKept, IntentsKept DEF CompletedInv
    <2> QED BY <1>1, <2>1, <2>2, <2>3 DEF CompletedInv
  <1> QED BY <1>3, <1>4

\* A plan reported completed stays completed: it has its whole size and nothing
\* rests for it, or it expired before it placed an order, and then nothing is
\* ever placed for it again.
THEOREM CompletedPlansStay == Spec => CompletedIsFinal
  <1> DEFINE Stays == \A p \in Plans : actions[p] = "completed" => actions'[p] = "completed"
  <1>1. Spec => []CompletedInv
    <2>1. IInv /\ IInv' /\ LegsInv /\ CompletedInv /\ [Next]_vars => CompletedInv'
      BY CompletedStep
    <2> QED BY <2>1, InitCompleted, LegsInvariance, Invariance, PTL DEF Spec
  <1>2. IInv /\ IInv' /\ LegsInv /\ CompletedInv /\ [Next]_vars => [Stays]_vars
    BY CompletedStep
  <1> QED BY <1>1, <1>2, LegsInvariance, Invariance, PTL DEF Spec, CompletedIsFinal

-----------------------------------------------------------------------------
(* Sums over the fills. *)

\* A fill row carries an order that exists.
FillsHaveOrders == \A f \in DOMAIN fills : fills[f].order \in DOMAIN orders

\* The fill about to be written.
TxnCents == SignedQuantity(orders[txn.order].side, FillCents)
TxnFill == [order |-> txn.order, contract |-> orders[txn.order].contract,
            side |-> orders[txn.order].side, size |-> txn.size, cents |-> FillCents]
TxnQuantity == SignedQuantity(orders[txn.order].side, txn.size)

LEMMA FillsAre ==
  ASSUME TypeOK
  PROVE  /\ fills \in Seq(Fill) /\ Len(fills) \in Nat
         /\ DOMAIN fills = 1 .. Len(fills) /\ IsFiniteSet(DOMAIN fills)
         /\ \A f \in DOMAIN fills : /\ fills[f] \in Fill
                                    /\ fills[f].size \in Nat /\ fills[f].cents \in Int
                                    /\ fills[f].side \in Sides
  <1>1. fills \in Seq(Fill)
    BY DEF TypeOK
  <1>2. Len(fills) \in Nat /\ DOMAIN fills = 1 .. Len(fills)
    BY <1>1
  <1>3. \A f \in DOMAIN fills : fills[f] \in Fill
    BY <1>1
  <1>4. IsFiniteSet(1 .. Len(fills))
    BY <1>2, FS_Interval
  <1> QED BY <1>1, <1>2, <1>3, <1>4 DEF Fill

LEMMA SignedInt ==
  ASSUME NEW side, NEW n \in Int PROVE SignedQuantity(side, n) \in Int
  BY DEF SignedQuantity

\* A new fill row adds its amounts to the sums it belongs to, and to no other.
LEMMA FillAppended ==
  ASSUME TypeOK, NEW fill \in Fill, fills' = Append(fills, fill)
  PROVE  /\ SpentInFills' = SpentInFills + SignedQuantity(fill.side, fill.cents)
         /\ \A i : FilledIn(i)' = FilledIn(i) + (IF fill.order = i THEN fill.size ELSE 0)
         /\ \A c : BoughtOf(c)' = BoughtOf(c) + (IF fill.contract = c
                                                 THEN SignedQuantity(fill.side, fill.size) ELSE 0)
  <1>1. PICK n \in Nat : n = Len(fills)
    BY FillsAre
  <1>2. PICK D : D = DOMAIN fills
    OBVIOUS
  <1>3. /\ DOMAIN fills' = D \cup {n + 1} /\ n + 1 \notin D /\ IsFiniteSet(D)
        /\ fills'[n + 1] = fill
        /\ \A f \in D : fills'[f] = fills[f]
        /\ \A f \in D : fills[f].size \in Nat /\ fills[f].cents \in Int
    <2>1. fills \in Seq(Fill) /\ D = 1 .. n
      BY <1>1, <1>2, FillsAre
    <2>2. \A f \in D : fills[f].size \in Nat /\ fills[f].cents \in Int
      BY <1>2, FillsAre
    <2>3. IsFiniteSet(D)
      BY <1>2, FillsAre
    <2>4. /\ Len(fills') = n + 1 /\ DOMAIN fills' = 1 .. n + 1
          /\ \A f \in 1 .. n : fills'[f] = fills[f]
          /\ fills'[n + 1] = fill
      BY <1>1, <2>1, AppendProperties
    <2> QED BY <2>1, <2>2, <2>3, <2>4
  <1>4. fill.size \in Nat /\ fill.cents \in Int
    BY DEF Fill
  <1>5. SpentInFills' = SpentInFills + SignedQuantity(fill.side, fill.cents)
    <2>1. PICK f, g : /\ f = [x \in D |-> SignedQuantity(fills[x].side, fills[x].cents)]
                      /\ g = [x \in DOMAIN fills' |-> SignedQuantity(fills'[x].side, fills'[x].cents)]
      OBVIOUS
    <2>2. /\ DOMAIN f = D /\ DOMAIN g = DOMAIN f \cup {n + 1}
          /\ n + 1 \notin DOMAIN f /\ IsFiniteSet(DOMAIN f)
          /\ g[n + 1] = SignedQuantity(fill.side, fill.cents)
          /\ g[n + 1] \in Int
          /\ \A x \in DOMAIN f : f[x] \in Int /\ g[x] = f[x]
      BY <1>3, <1>4, <2>1, SignedInt
    <2>3. Total(g) = Total(f) + g[n + 1]
      BY <2>2, TotalAdd
    <2> QED BY <1>2, <2>1, <2>2, <2>3 DEF SpentInFills
  <1>6. ASSUME NEW i
        PROVE  FilledIn(i)' = FilledIn(i) + (IF fill.order = i THEN fill.size ELSE 0)
    <2>1. PICK f, g : /\ f = [x \in FillsOf(i) |-> fills[x].size]
                      /\ g = [x \in FillsOf(i)' |-> fills'[x].size]
      OBVIOUS
    <2>2. Total(f) = FilledIn(i) /\ Total(g) = FilledIn(i)'
      BY <2>1 DEF FilledIn
    <2>3. /\ DOMAIN f \subseteq D /\ DOMAIN f = FillsOf(i)
          /\ \A x \in DOMAIN f : f[x] \in Int /\ f[x] = fills[x].size
      BY <1>2, <1>3, <2>1 DEF FillsOf
    <2>4. IsFiniteSet(DOMAIN f)
      BY <1>3, <2>3, FS_Subset
    <2>5. CASE fill.order = i
      <3>1. FillsOf(i)' = FillsOf(i) \cup {n + 1}
        BY <1>2, <1>3, <2>5 DEF FillsOf
      <3>2. /\ DOMAIN g = DOMAIN f \cup {n + 1} /\ n + 1 \notin DOMAIN f
            /\ g[n + 1] = fill.size /\ g[n + 1] \in Int
            /\ \A x \in DOMAIN f : g[x] = f[x]
        BY <1>3, <1>4, <2>1, <2>3, <3>1
      <3>3. Total(g) = Total(f) + g[n + 1]
        BY <2>3, <2>4, <3>2, TotalAdd
      <3> QED BY <2>2, <2>5, <3>2, <3>3
    <2>6. CASE fill.order # i
      <3>1. FillsOf(i)' = FillsOf(i)
        BY <1>2, <1>3, <2>6 DEF FillsOf
      <3>2. f = g
        BY <1>3, <2>1, <2>3, <3>1
      <3> QED BY <2>2, <2>6, <3>2, TotalInt
    <2> QED BY <2>5, <2>6
  <1>7. ASSUME NEW c
        PROVE  BoughtOf(c)' = BoughtOf(c) + (IF fill.contract = c
                                             THEN SignedQuantity(fill.side, fill.size) ELSE 0)
    <2>1. PICK S, T, f, g :
            /\ S = {x \in DOMAIN fills : fills[x].contract = c}
            /\ T = {x \in DOMAIN fills' : fills'[x].contract = c}
            /\ f = [x \in S |-> SignedQuantity(fills[x].side, fills[x].size)]
            /\ g = [x \in T |-> SignedQuantity(fills'[x].side, fills'[x].size)]
      OBVIOUS
    <2>2. Total(f) = BoughtOf(c) /\ Total(g) = BoughtOf(c)'
      BY <2>1 DEF BoughtOf
    <2>3. /\ DOMAIN f \subseteq D /\ DOMAIN f = S
          /\ \A x \in DOMAIN f : f[x] \in Int
      BY <1>2, <1>3, <2>1, SignedInt
    <2>4. IsFiniteSet(DOMAIN f)
      BY <1>3, <2>3, FS_Subset
    <2>5. CASE fill.contract = c
      <3>1. T = S \cup {n + 1}
        BY <1>2, <1>3, <2>1, <2>5
      <3>2. /\ DOMAIN g = DOMAIN f \cup {n + 1} /\ n + 1 \notin DOMAIN f
            /\ g[n + 1] = SignedQuantity(fill.side, fill.size) /\ g[n + 1] \in Int
            /\ \A x \in DOMAIN f : g[x] = f[x]
        BY <1>3, <1>4, <2>1, <2>3, <3>1, SignedInt
      <3>3. Total(g) = Total(f) + g[n + 1]
        BY <2>3, <2>4, <3>2, TotalAdd
      <3> QED BY <2>2, <2>5, <3>2, <3>3
    <2>6. CASE fill.contract # c
      <3>1. T = S
        BY <1>2, <1>3, <2>1, <2>6
      <3>2. f = g
        BY <1>3, <2>1, <2>3, <3>1
      <3> QED BY <2>2, <2>6, <3>2, TotalInt
    <2> QED BY <2>5, <2>6
  <1> QED BY <1>5, <1>6, <1>7

-----------------------------------------------------------------------------
(* The cash balance. *)

\* Where the cash of the fills booked so far is kept: in the cash row, or in
\* held from the write of the position to the write of the cash.
CashAccounted ==
  crashes = 0 =>
    /\ pc \notin {"position", "cash"} => cash.balance = StartingCash - SpentInFills
    /\ pc = "position" => cash.balance - TxnCents = StartingCash - SpentInFills
    /\ pc = "cash" => held.balance = StartingCash - SpentInFills
    /\ pc \in {"apply", "restate"} => held.balance = cash.balance

LEMMA InitCash == Init => CashAccounted
  <1> SUFFICES ASSUME Init PROVE CashAccounted
    OBVIOUS
  <1>1. fills = <<>> /\ pc = "idle" /\ cash.balance = StartingCash
    BY DEF Init, SeedCash
  <1>2. PICK f : f = [x \in DOMAIN fills |-> SignedQuantity(fills[x].side, fills[x].cents)]
    OBVIOUS
  <1>3. Total(f) = 0
    <2>1. DOMAIN f = {}
      BY <1>1, <1>2
    <2> QED BY <2>1, TotalEmpty
  <1>4. SpentInFills = 0
    BY <1>2, <1>3 DEF SpentInFills
  <1> QED BY <1>1, <1>4, BrokerAssumption DEF CashAccounted

\* A step that writes neither a fill nor the cash balance.
LEMMA CashKept ==
  ASSUME CashAccounted, UNCHANGED <<fills, crashes>>, cash'.balance = cash.balance,
         pc \notin {"position", "cash"}, pc' \notin {"position", "cash"},
         pc' \in {"apply", "restate"} => held'.balance = cash'.balance
  PROVE  CashAccounted'
  BY DEF CashAccounted, SpentInFills

LEMMA CashStep == ASSUME IInv, CashAccounted, [Next]_vars PROVE CashAccounted'
  <1>0. cash \in Cash /\ held \in Cash /\ TypeOK
    BY DEF IInv, TypeOK
  <1>1. CASE PersistFill
    <2>1. /\ pc = "fill" /\ pc' = "position" /\ UNCHANGED <<orders, cash, txn, crashes>>
          /\ fills' = Append(fills, TxnFill)
      BY <1>1 DEF PersistFill, envVars, TxnFill
    <2>2. txn.order \in DOMAIN orders /\ txn.size \in Nat /\ txn.price \in Nat
      BY <2>1 DEF IInv, TickInv, TxnInHand, Booking, TypeOK
    <2>3. orders[txn.order] \in Order /\ txn.order \in Nat
      BY <1>0, <2>2 DEF TypeOK
    <2>4. FillCents \in Int
      BY <2>2, RoundUsdInt DEF FillCents
    <2>5. TxnFill \in Fill
      BY <2>2, <2>3, <2>4 DEF TxnFill, Fill, Order
    <2>6. SpentInFills' = SpentInFills + TxnCents /\ TxnCents \in Int
      BY <1>0, <2>1, <2>4, <2>5, FillAppended, SignedInt DEF TxnFill, TxnCents
    <2>7. TxnCents' = TxnCents
      BY <2>1 DEF TxnCents, FillCents
    <2>8. SpentInFills \in Int /\ StartingCash \in Int /\ cash.balance \in Int
      BY <1>0, TotalInt, BrokerAssumption DEF SpentInFills, Cash
    <2> QED BY <2>1, <2>6, <2>7, <2>8 DEF CashAccounted
  <1>2. CASE PersistPosition
    <2>1. /\ pc = "position" /\ pc' = "cash" /\ UNCHANGED <<fills, crashes>>
          /\ held' = CashAfterFill(cash, orders[txn.order].side, FillCents, orders, positions)
      BY <1>2 DEF PersistPosition, envVars
    <2>2. held'.balance = cash.balance - TxnCents
      <3> DEFINE next == [cash EXCEPT !.balance = @ - TxnCents]
      <3>1. FillCents \in Int
        <4>1. txn.size \in Nat /\ txn.price \in Nat
          BY <1>0 DEF TypeOK
        <4> QED BY <4>1, RoundUsdInt DEF FillCents
      <3>2. next \in [balance : Int, reserved : Int, realized : Int]
            /\ next.balance = cash.balance - TxnCents
        BY <1>0, <3>1, SignedInt DEF TxnCents, Cash
      <3>3. held' = RecomputeCash(next, orders, positions)
        BY <2>1 DEF CashAfterFill, TxnCents
      <3> HIDE DEF next
      <3> QED BY <3>2, <3>3, RecomputeCashFields
    <2>3. SpentInFills' = SpentInFills
      BY <2>1 DEF SpentInFills
    <2> QED BY <2>1, <2>2, <2>3 DEF CashAccounted
  <1>3. CASE PersistCash
    <2>1. /\ pc = "cash" /\ UNCHANGED <<fills, crashes>> /\ cash' = held
          /\ pc' \in {"reconcile", "apply", "close"}
          /\ pc' = "apply" => held' = held
      <3>1. txn.back \in {"reconcile", "apply", "close"}
        BY <1>0, <1>3 DEF PersistCash, IInv, TickInv, TxnInHand, Booking, TypeOK
      <3> QED BY <1>3, <3>1 DEF PersistCash, envVars
    <2>2. SpentInFills' = SpentInFills
      BY <2>1 DEF SpentInFills
    <2> QED BY <2>1, <2>2 DEF CashAccounted
  <1>4. CASE EnsureCash \/ FlattenCancelled
    <2>1. /\ UNCHANGED <<fills, crashes>>
          /\ pc \in {"ensure", "cancel"} /\ pc' \in {"cancel", "next", "close"}
          /\ cash' = cash \/ cash' = RecomputeCash(cash, orders, positions)
      BY <1>4 DEF EnsureCash, FlattenCancelled, envVars
    <2>2. cash'.balance = cash.balance
      BY <1>0, <2>1, RecomputeCashFields DEF Cash
    <2> QED BY <2>1, <2>2, CashKept
  <1>5. CASE EvaluateIntent
    <2>1. /\ UNCHANGED <<fills, crashes, cash>> /\ pc = "evaluate" /\ pc' = "apply"
          /\ held' = RecomputeCash(cash, orders, positions)
      BY <1>5 DEF EvaluateIntent, envVars
    <2>2. held'.balance = cash.balance
      BY <1>0, <2>1, RecomputeCashFields DEF Cash
    <2> QED BY <2>1, <2>2, CashKept
  <1>6. CASE RestateCash
    <2>1. /\ UNCHANGED <<fills, crashes>> /\ pc = "restate" /\ pc' = "apply"
          /\ held' = RecomputeCash(held, orders, positions) /\ cash' = held'
      BY <1>6 DEF RestateCash, envVars
    <2>2. held'.balance = held.balance
      BY <1>0, <2>1, RecomputeCashFields DEF Cash
    <2> QED BY <2>1, <2>2 DEF CashAccounted, SpentInFills
  <1>7. CASE ApplyNext
    <2>1. /\ UNCHANGED <<fills, crashes, cash>> /\ pc = "apply"
          /\ \/ pc' \in {"apply", "restate"} /\ UNCHANGED held
             \/ pc' = "fill"
      BY <1>7 DEF ApplyNext, ApplyCancel, ApplyUnaffordable, ApplyPassive, ApplyCross, envVars
    <2> QED BY <2>1 DEF CashAccounted, SpentInFills
  <1>8. CASE Crash
    <2>1. crashes' = crashes + 1 /\ crashes \in Nat
      BY <1>0, <1>8 DEF Crash, TypeOK
    <2> QED BY <2>1 DEF CashAccounted
  <1>9. CASE UNCHANGED <<pc, fills, crashes, cash, held, txn, orders>>
    BY <1>9 DEF CashAccounted, SpentInFills, TxnCents, FillCents
  <1>10. CASE /\ UNCHANGED <<fills, crashes, cash>>
              /\ pc \notin {"position", "cash", "apply", "restate"}
              /\ pc' \notin {"position", "cash", "apply", "restate"}
    BY <1>10 DEF CashAccounted, SpentInFills
  <1>11. CASE FinishApply
    BY <1>11 DEF FinishApply, CashAccounted, SpentInFills, envVars
  <1>12. \/ PersistFill \/ PersistPosition \/ PersistCash \/ EnsureCash \/ FlattenCancelled
         \/ EvaluateIntent \/ RestateCash \/ ApplyNext \/ FinishApply \/ Crash
         \/ UNCHANGED <<pc, fills, crashes, cash, held, txn, orders>>
         \/ /\ UNCHANGED <<fills, crashes, cash>>
            /\ pc \notin {"position", "cash", "apply", "restate"}
            /\ pc' \notin {"position", "cash", "apply", "restate"}
    BY DEF Next, Worker, Environment, BeginTick, ScanIntents, EndTick, LoadIntent, ReconcileFill,
           FinishReconcile, FlattenCancel, FlattenSnapshot, EndFlatten, ClosePosition,
           PublishIntent, Command, Pause, Resume, Flatten, AdvanceClock, vars, tableVars,
           tickVars, envVars
  <1> QED BY <1>1, <1>2, <1>3, <1>4, <1>5, <1>6, <1>7, <1>8, <1>9, <1>10, <1>11, <1>12

\* Without a crash the cash balance is the starting cash less the cost of every
\* fill, whatever the ticks, the quotes, the intents and the commands: the copy
\* of the cash a tick holds is never stale when it is written back.
THEOREM CashAlwaysBalances == Spec => []CashBalances
  <1>1. CashAccounted => CashBalances
    BY DEF CashAccounted, CashBalances, Booking
  <1>2. IInv /\ CashAccounted /\ [Next]_vars => CashAccounted'
    BY CashStep
  <1> QED BY <1>1, <1>2, InitCash, Invariance, PTL DEF Spec

-----------------------------------------------------------------------------
(* Orders, fills and positions. *)

\* What the fill being booked still owes the fill rows, and the position.
OwedFill(i) == IF pc = "fill" /\ txn.order = i THEN txn.size ELSE 0
OwedMove(c) == IF pc = "position" /\ orders[txn.order].contract = c THEN TxnQuantity ELSE 0

OrdersAstray == {i \in DOMAIN orders : orders[i].filled # FilledIn(i) + OwedFill(i)}
ContractsAstray == {c \in Contracts : QuantityOf(c) + OwedMove(c) # BoughtOf(c)}

\* The crashes so far account for every order and contract gone astray.
CrashesAccount ==
  /\ FillsHaveOrders
  /\ IsFiniteSet(OrdersAstray) /\ IsFiniteSet(ContractsAstray)
  /\ Cardinality(OrdersAstray) + Cardinality(ContractsAstray) <= crashes

LEMMA InitAccount == Init => CrashesAccount
  <1> SUFFICES ASSUME Init PROVE CrashesAccount
    OBVIOUS
  <1>1. orders = <<>> /\ DOMAIN orders = {} /\ DOMAIN fills = {} /\ DOMAIN positions = {}
        /\ pc = "idle" /\ crashes = 0
    BY DEF Init
  <1>2. OrdersAstray = {}
    BY <1>1 DEF OrdersAstray
  <1>3. ASSUME NEW c \in Contracts PROVE QuantityOf(c) + OwedMove(c) = BoughtOf(c)
    <2>1. PICK f : f = [x \in {g \in DOMAIN fills : fills[g].contract = c} |->
                          SignedQuantity(fills[x].side, fills[x].size)]
      OBVIOUS
    <2>2. DOMAIN f = {}
      BY <1>1, <2>1
    <2>3. BoughtOf(c) = 0
      BY <2>1, <2>2, TotalEmpty DEF BoughtOf
    <2> QED BY <1>1, <2>3 DEF QuantityOf, OwedMove
  <1>4. ContractsAstray = {}
    BY <1>3 DEF ContractsAstray
  <1>5. IsFiniteSet({}) /\ Cardinality({}) = 0
    BY FS_EmptySet
  <1> QED BY <1>1, <1>2, <1>4, <1>5 DEF CrashesAccount, FillsHaveOrders

\* An order without a fill row has nothing filled in.
LEMMA NoFillsYet ==
  ASSUME FillsHaveOrders, NEW n, n \notin DOMAIN orders PROVE FilledIn(n) = 0
  <1>1. PICK f : f = [x \in FillsOf(n) |-> fills[x].size]
    OBVIOUS
  <1>2. DOMAIN f = {}
    BY <1>1 DEF FillsOf, FillsHaveOrders
  <1> QED BY <1>1, <1>2, TotalEmpty DEF FilledIn

\* A step that writes orders owes exactly what it fills.
LEMMA OrdersWrittenKeep ==
  ASSUME IInv, IInv', FillsHaveOrders, UNCHANGED <<fills, positions>>,
         pc \notin {"fill", "position"}, pc' # "position",
         DOMAIN orders \subseteq DOMAIN orders',
         \A j \in DOMAIN orders : orders'[j].filled = orders[j].filled + OwedFill(j)',
         \A j \in DOMAIN orders' \ DOMAIN orders : orders'[j].filled = OwedFill(j)'
  PROVE  OrdersAstray' = OrdersAstray /\ ContractsAstray' = ContractsAstray
  <1>1. \A j : FilledIn(j)' = FilledIn(j)
    BY DEF FilledIn, FillsOf
  <1>2. \A j : OwedFill(j) = 0
    BY DEF OwedFill
  <1>3. \A j : FilledIn(j) \in Int
    BY TotalInt DEF FilledIn
  <1>4. \A j : OwedFill(j)' \in Int
    <2>1. txn.size' \in Nat
      BY DEF IInv, TypeOK
    <2> QED BY <2>1 DEF OwedFill
  <1>5. \A j \in DOMAIN orders : orders[j].filled \in Int
    BY OrdersAre DEF IInv
  <1>6. OrdersAstray' = OrdersAstray
    <2>1. ASSUME NEW j \in DOMAIN orders PROVE j \in OrdersAstray' <=> j \in OrdersAstray
      BY <1>1, <1>2, <1>3, <1>4, <1>5 DEF OrdersAstray
    <2>2. ASSUME NEW j \in DOMAIN orders' \ DOMAIN orders PROVE j \notin OrdersAstray'
      BY <1>1, <1>3, <1>4, NoFillsYet DEF OrdersAstray
    <2> QED BY <2>1, <2>2 DEF OrdersAstray
  <1>7. ContractsAstray' = ContractsAstray
    BY DEF ContractsAstray, QuantityOf, OwedMove, BoughtOf
  <1> QED BY <1>6, <1>7

\* The position of the fill's contract moves by the fill, no other moves.
LEMMA PositionMoves ==
  ASSUME IInv, pc = "position",
         positions' = Upsert(positions, orders[txn.order].contract,
               RealizeAgainstPosition(PositionOf(orders[txn.order].contract,
                                                 orders[txn.order].complex),
                                      orders[txn.order].side, txn.size, txn.price)),
         NEW c \in Contracts
  PROVE  QuantityOf(c)' = QuantityOf(c) + (IF orders[txn.order].contract = c
                                          THEN TxnQuantity ELSE 0)
  <1>1. PICK contract, complex, side :
          /\ contract = orders[txn.order].contract /\ complex = orders[txn.order].complex
          /\ side = orders[txn.order].side
    OBVIOUS
  <1>2. PICK old, row : /\ old = PositionOf(contract, complex)
                        /\ row = RealizeAgainstPosition(old, side, txn.size, txn.price)
    OBVIOUS
  <1>3. old \in Position /\ old.qty = QuantityOf(contract)
    <2>1. txn.order \in DOMAIN orders
      BY DEF IInv, TickInv, TxnInHand, Booking
    <2>2. complex \in Complexes
      BY <1>1, <2>1, OrdersAre DEF IInv
    <2> QED BY <1>2, <2>2 DEF PositionOf, QuantityOf, IInv, TypeOK, Position
  <1>4. row.qty = old.qty + SignedQuantity(side, txn.size)
    <2>1. /\ \A v : [old EXCEPT !.qty = v].qty = v
          /\ \A v, w : [old EXCEPT !.qty = v, !.avg = w].qty = v
          /\ \A v, w, x : [old EXCEPT !.qty = v, !.avg = w, !.realized = x].qty = v
      BY <1>3 DEF Position
    <2> QED BY <1>2, <2>1 DEF RealizeAgainstPosition
  <1>5. QuantityOf(c) \in Int
    BY DEF QuantityOf, IInv, TypeOK, Position
  <1>6. CASE c = contract
    <2>1. c \in DOMAIN positions' /\ positions'[c] = row
      BY <1>1, <1>2, <1>6 DEF Upsert
    <2> QED BY <1>1, <1>3, <1>4, <1>6, <2>1 DEF QuantityOf, TxnQuantity
  <1>7. CASE c # contract
    <2>1. /\ c \in DOMAIN positions' <=> c \in DOMAIN positions
          /\ c \in DOMAIN positions => positions'[c] = positions[c]
      BY <1>1, <1>7 DEF Upsert
    <2> QED BY <1>1, <1>5, <1>7, <2>1 DEF QuantityOf
  <1> QED BY <1>6, <1>7

\* Every step but a crash keeps rows that agree in agreement.
LEMMA StepSpoilsNothing ==
  ASSUME IInv, IInv', FillsHaveOrders, [Next]_vars, ~Crash
  PROVE  OrdersAstray' = OrdersAstray /\ ContractsAstray' = ContractsAstray
  <1>1. CASE PersistFill
    <2>1. /\ pc = "fill" /\ pc' = "position" /\ UNCHANGED <<orders, positions, txn>>
          /\ fills' = Append(fills, TxnFill)
      BY <1>1 DEF PersistFill, TxnFill
    <2>2. txn.order \in DOMAIN orders /\ txn.size \in Nat /\ txn.price \in Nat
      BY <2>1 DEF IInv, TickInv, TxnInHand, Booking, TypeOK
    <2>3. TxnFill \in Fill
      <3>1. FillCents \in Int
        BY <2>2, RoundUsdInt DEF FillCents
      <3>2. orders[txn.order] \in Order /\ txn.order \in Nat
        BY <2>2, OrdersAre DEF IInv
      <3> QED BY <2>2, <3>1, <3>2 DEF TxnFill, Fill, Order
    <2>4. /\ \A i : FilledIn(i)' = FilledIn(i) + (IF txn.order = i THEN txn.size ELSE 0)
          /\ \A c : BoughtOf(c)' = BoughtOf(c) + (IF orders[txn.order].contract = c
                                                 THEN TxnQuantity ELSE 0)
      BY <2>1, <2>3, FillAppended DEF TxnFill, TxnQuantity, IInv
    <2>5. \A i : FilledIn(i)' = FilledIn(i) + OwedFill(i) /\ OwedFill(i)' = 0
                 /\ FilledIn(i) \in Int /\ OwedFill(i) \in Int
      <3>1. \A i : FilledIn(i) \in Int
        BY TotalInt DEF FilledIn
      <3>2. \A i : OwedFill(i) = (IF txn.order = i THEN txn.size ELSE 0) /\ OwedFill(i)' = 0
        BY <2>1 DEF OwedFill
      <3> QED BY <2>2, <2>4, <3>1, <3>2
    <2>6. OrdersAstray' = OrdersAstray
      BY <2>1, <2>5 DEF OrdersAstray
    <2>7. TxnQuantity' = TxnQuantity /\ TxnQuantity \in Int
      BY <2>1, <2>2, SignedInt DEF TxnQuantity
    <2>8. \A c : /\ OwedMove(c) = 0 /\ OwedMove(c)' \in Int
                 /\ BoughtOf(c)' = BoughtOf(c) + OwedMove(c)' /\ BoughtOf(c) \in Int
      <3>1. \A c : BoughtOf(c) \in Int
        BY TotalInt DEF BoughtOf
      <3>2. \A c : /\ OwedMove(c) = 0
                   /\ OwedMove(c)' = IF orders[txn.order].contract = c THEN TxnQuantity ELSE 0
        BY <2>1, <2>7 DEF OwedMove
      <3> QED BY <2>4, <2>7, <3>1, <3>2
    <2>9. \A c \in Contracts : QuantityOf(c)' = QuantityOf(c) /\ QuantityOf(c) \in Int
      BY <2>1 DEF QuantityOf, IInv, TypeOK, Position
    <2>10. ContractsAstray' = ContractsAstray
      <3>1. ASSUME NEW c \in Contracts PROVE c \in ContractsAstray' <=> c \in ContractsAstray
        <4>1. PICK q, b, m \in Int : q = QuantityOf(c) /\ b = BoughtOf(c) /\ m = OwedMove(c)'
          BY <2>8, <2>9
        <4>2. QuantityOf(c)' = q /\ BoughtOf(c)' = b + m /\ OwedMove(c) = 0
          BY <2>8, <2>9, <4>1
        <4>3. (q + 0 # b) <=> (q + m # b + m)
          BY <4>1
        <4>4. c \in ContractsAstray <=> q + 0 # b
          BY <4>1, <4>2 DEF ContractsAstray
        <4>5. c \in ContractsAstray' <=> q + m # b + m
          BY <4>1, <4>2 DEF ContractsAstray
        <4> QED BY <4>3, <4>4, <4>5
      <3> QED BY <3>1 DEF ContractsAstray
    <2> QED BY <2>6, <2>10
  <1>2. CASE PersistPosition
    <2>1. /\ pc = "position" /\ pc' = "cash" /\ UNCHANGED <<orders, fills, txn>>
          /\ positions' = Upsert(positions, orders[txn.order].contract,
               RealizeAgainstPosition(PositionOf(orders[txn.order].contract,
                                                 orders[txn.order].complex),
                                      orders[txn.order].side, txn.size, txn.price))
      BY <1>2 DEF PersistPosition
    <2>2. OrdersAstray' = OrdersAstray
      BY <2>1 DEF OrdersAstray, OwedFill, FilledIn, FillsOf
    <2>3. \A c \in Contracts : QuantityOf(c)' = QuantityOf(c) + OwedMove(c)
      BY <2>1, PositionMoves DEF OwedMove
    <2>4. \A c \in Contracts : QuantityOf(c) \in Int /\ OwedMove(c) \in Int /\ OwedMove(c)' = 0
      <3>1. TxnQuantity \in Int
        BY SignedInt DEF TxnQuantity, IInv, TypeOK
      <3> QED BY <2>1, <3>1 DEF QuantityOf, OwedMove, IInv, TypeOK, Position
    <2>5. \A c : BoughtOf(c)' = BoughtOf(c)
      BY <2>1 DEF BoughtOf
    <2>6. ContractsAstray' = ContractsAstray
      BY <2>3, <2>4, <2>5 DEF ContractsAstray
    <2> QED BY <2>2, <2>6
  <1>3. CASE \E i \in DOMAIN orders, size \in Nat, price \in Nat : FillsResting(i, size, price)
    <2>1. PICK i \in DOMAIN orders, size \in Nat, price \in Nat : FillsResting(i, size, price)
      BY <1>3
    <2>2. /\ pc = "reconcile" /\ pc' = "fill" /\ UNCHANGED <<fills, positions>>
          /\ txn'.order = i /\ txn'.size = size
          /\ DOMAIN orders' = DOMAIN orders
          /\ orders'[i] = MergeFill(orders[i], size)
          /\ \A j \in DOMAIN orders : j # i => orders'[j] = orders[j]
      BY <2>1 DEF FillsResting, Rewrites
    <2>3. orders'[i].filled = orders[i].filled + size
      <3>1. orders[i] \in Order
        BY OrdersAre DEF IInv
      <3> QED BY <2>2, <3>1, MergeFillFields
    <2>4. \A j \in DOMAIN orders : orders'[j].filled = orders[j].filled + OwedFill(j)'
      BY <2>2, <2>3, OrdersAre DEF OwedFill, IInv
    <2> QED BY <2>2, <2>4, OrdersWrittenKeep
  <1>4. CASE \E i \in DOMAIN orders : CancelsOpen(i)
    <2>1. PICK i \in DOMAIN orders : CancelsOpen(i)
      BY <1>4
    <2>2. /\ pc \in {"apply", "cancel"} /\ pc' \in {"restate", "cancel"}
          /\ UNCHANGED <<fills, positions>>
          /\ DOMAIN orders' = DOMAIN orders
          /\ orders'[i] = CancelOrder(orders[i])
          /\ \A j \in DOMAIN orders : j # i => orders'[j] = orders[j]
      BY <2>1 DEF CancelsOpen, Rewrites
    <2>3. orders'[i].filled = orders[i].filled
      BY <2>2, OrdersAre, CancelOrderFields DEF IInv
    <2>4. \A j \in DOMAIN orders : orders'[j].filled = orders[j].filled + OwedFill(j)'
      BY <2>2, <2>3, OrdersAre DEF OwedFill, IInv
    <2> QED BY <2>2, <2>4, OrdersWrittenKeep
  <1>5. CASE \E a \in pending, n \in Nat : Rests(a, n)
    <2>1. PICK a \in pending, n \in Nat : Rests(a, n)
      BY <1>5
    <2>2. /\ pc = "apply" /\ pc' = "restate" /\ UNCHANGED <<fills, positions>>
          /\ n \notin DOMAIN orders /\ DOMAIN orders' = DOMAIN orders \cup {n}
          /\ orders'[n].filled = 0
          /\ \A j \in DOMAIN orders : orders'[j] = orders[j]
      BY <2>1 DEF Rests, Appends, Placed
    <2>3. /\ \A j \in DOMAIN orders : orders'[j].filled = orders[j].filled + OwedFill(j)'
          /\ OwedFill(n)' = 0
      BY <2>2, OrdersAre DEF OwedFill, IInv
    <2> QED BY <2>2, <2>3, OrdersWrittenKeep
  <1>6. CASE \/ \E a \in pending, n, price \in Nat : Crosses(a, n, price)
             \/ \E c \in Contracts, n, price \in Nat : Closes(c, n, price)
    <2>1. PICK n \in Nat :
            /\ pc \in {"apply", "close"} /\ pc' = "fill" /\ UNCHANGED <<fills, positions>>
            /\ n \notin DOMAIN orders /\ DOMAIN orders' = DOMAIN orders \cup {n}
            /\ orders'[n].filled = txn'.size /\ txn'.order = n
            /\ \A j \in DOMAIN orders : orders'[j] = orders[j]
      <3>1. CASE \E a \in pending, n, price \in Nat : Crosses(a, n, price)
        BY <3>1 DEF Crosses, Appends, Placed
      <3>2. CASE \E c \in Contracts, n, price \in Nat : Closes(c, n, price)
        BY <3>2 DEF Closes, Appends, Placed
      <3> QED BY <1>6, <3>1, <3>2
    <2>2. /\ \A j \in DOMAIN orders : orders'[j].filled = orders[j].filled + OwedFill(j)'
          /\ orders'[n].filled = OwedFill(n)'
      BY <2>1, OrdersAre DEF OwedFill, IInv
    <2> QED BY <2>1, <2>2, OrdersWrittenKeep
  <1>7. CASE UNCHANGED <<orders, fills, positions, pc, txn>>
    BY <1>7 DEF OrdersAstray, ContractsAstray, OwedFill, OwedMove, FilledIn, FillsOf, BoughtOf,
                QuantityOf, TxnQuantity
  <1>8. CASE /\ UNCHANGED <<orders, fills, positions>>
             /\ pc \notin {"fill", "position"} /\ pc' \notin {"fill", "position"}
    BY <1>8 DEF OrdersAstray, ContractsAstray, OwedFill, OwedMove, FilledIn, FillsOf, BoughtOf,
                QuantityOf
  <1>9. \/ PersistFill \/ PersistPosition
        \/ ~UNCHANGED orders
        \/ UNCHANGED <<orders, fills, positions, pc, txn>>
        \/ /\ UNCHANGED <<orders, fills, positions>>
           /\ pc \notin {"fill", "position"} /\ pc' \notin {"fill", "position"}
    <2>1. PersistCash => pc' \notin {"fill", "position"}
      BY DEF PersistCash, IInv, TypeOK
    <2>2. ApplyNext /\ UNCHANGED orders =>
            pc \notin {"fill", "position"} /\ pc' \notin {"fill", "position"}
      <3>1. ASSUME NEW n, NEW row, Appends(n, row), UNCHANGED orders PROVE FALSE
        BY <3>1 DEF Appends
      <3> QED BY <3>1, ApplyWrites DEF CancelsOpen, Rests, Crosses
    <2>3. ASSUME NEW c \in Contracts, ClosePosition(c), UNCHANGED orders PROVE FALSE
      BY <2>3, CloseWrites DEF Closes, Appends
    <2>4. ReconcileFill /\ UNCHANGED orders => FALSE
      <3> SUFFICES ASSUME ReconcileFill, UNCHANGED orders PROVE FALSE
        OBVIOUS
      <3>1. PICK i \in DOMAIN orders, size \in Nat, price \in Nat : FillsResting(i, size, price)
        BY ReconcileWrites
      <3>2. orders'[i].filled = orders[i].filled + size /\ size # 0 /\ orders[i].filled \in Nat
        BY <3>1, OrdersAre, MergeFillFields DEF FillsResting, Rewrites, IInv
      <3> QED BY <3>2
    <2> QED BY <2>1, <2>2, <2>3, <2>4
        DEF Next, Worker, Environment, BeginTick, ScanIntents, EnsureCash, EndTick, PersistCash,
            LoadIntent, FinishReconcile, EvaluateIntent, RestateCash, FinishApply, FlattenCancel,
            FlattenCancelled, FlattenSnapshot, EndFlatten, PublishIntent, ApplyNext,
            Command, Pause, Resume, Flatten, AdvanceClock, vars, tableVars, tickVars
  <1> QED BY <1>1, <1>2, <1>3, <1>4, <1>5, <1>6, <1>7, <1>8, <1>9, OrderWrites

\* One more crash accounts for one more element at most.
LEMMA CardinalityGrows ==
  ASSUME NEW S, NEW T, NEW x, IsFiniteSet(S), T \subseteq S \cup {x}
  PROVE  /\ IsFiniteSet(T) /\ Cardinality(T) \in Nat /\ Cardinality(S) \in Nat
         /\ Cardinality(T) <= Cardinality(S) + 1
  <1>1. IsFiniteSet(S \cup {x}) /\ Cardinality(S \cup {x}) \in Nat /\ Cardinality(S) \in Nat
        /\ Cardinality(S \cup {x}) <= Cardinality(S) + 1
    BY FS_AddElement, FS_CardinalityType
  <1>2. IsFiniteSet(T) /\ Cardinality(T) \in Nat /\ Cardinality(T) <= Cardinality(S \cup {x})
    BY <1>1, FS_Subset, FS_CardinalityType
  <1> QED BY <1>1, <1>2

LEMMA AccountStep == ASSUME IInv, IInv', CrashesAccount, [Next]_vars PROVE CrashesAccount'
  <1>1. FillsHaveOrders'
    <2>1. DOMAIN orders \subseteq DOMAIN orders'
      BY OrdersOnlyGrow DEF Frozen
    <2>2. CASE PersistFill
      <3>1. fills' = Append(fills, TxnFill) /\ TxnFill.order \in DOMAIN orders
        BY <2>2 DEF PersistFill, TxnFill, IInv, TickInv, TxnInHand, Booking
      <3>2. fills \in Seq(Fill)
        BY FillsAre DEF IInv
      <3>3. \A f \in DOMAIN fills' : fills'[f] = TxnFill \/ (f \in DOMAIN fills /\ fills'[f] = fills[f])
        BY <3>1, <3>2
      <3> QED BY <2>1, <3>1, <3>3 DEF FillsHaveOrders, CrashesAccount
    <2>3. CASE UNCHANGED fills
      BY <2>1, <2>3 DEF FillsHaveOrders, CrashesAccount
    <2> QED BY <2>2, <2>3
        DEF Next, Worker, Environment, BeginTick, ScanIntents, EnsureCash, EndTick,
            PersistPosition, PersistCash, LoadIntent, ReconcileFill, FinishReconcile,
            EvaluateIntent, ApplyNext, RestateCash, FinishApply, FlattenCancel, FlattenCancelled,
            ClosePosition, FlattenSnapshot, EndFlatten, Crash, PublishIntent, Command, Pause,
            Resume, Flatten, AdvanceClock, vars, tableVars, tickVars
  <1>2. CASE Crash
    <2>1. /\ UNCHANGED <<orders, fills, positions>> /\ pc' = "idle"
          /\ crashes' = crashes + 1 /\ crashes \in Nat
      BY <1>2 DEF Crash, tableVars, IInv, TypeOK
    <2>2. \A i : FilledIn(i)' = FilledIn(i) /\ OwedFill(i)' = 0
      BY <2>1 DEF FilledIn, FillsOf, OwedFill
    <2>3. \A c : QuantityOf(c)' = QuantityOf(c) /\ BoughtOf(c)' = BoughtOf(c) /\ OwedMove(c)' = 0
      BY <2>1 DEF QuantityOf, BoughtOf, OwedMove
    <2>4. OrdersAstray' \subseteq OrdersAstray \cup (IF pc = "fill" THEN {txn.order} ELSE {})
      BY <2>1, <2>2 DEF OrdersAstray, OwedFill
    <2>5. ContractsAstray' \subseteq
            ContractsAstray \cup (IF pc = "position" THEN {orders[txn.order].contract} ELSE {})
      BY <2>3 DEF ContractsAstray, OwedMove
    <2>6. /\ IsFiniteSet(OrdersAstray) /\ IsFiniteSet(ContractsAstray)
          /\ Cardinality(OrdersAstray) + Cardinality(ContractsAstray) <= crashes
      BY DEF CrashesAccount
    <2>7. CASE pc # "position"
      <3>1. /\ IsFiniteSet(OrdersAstray') /\ Cardinality(OrdersAstray') \in Nat
            /\ Cardinality(OrdersAstray) \in Nat
            /\ Cardinality(OrdersAstray') <= Cardinality(OrdersAstray) + 1
        <4>1. OrdersAstray' \subseteq OrdersAstray \cup {txn.order}
          BY <2>4
        <4> QED BY <2>6, <4>1, CardinalityGrows
      <3>2. /\ IsFiniteSet(ContractsAstray') /\ Cardinality(ContractsAstray') \in Nat
            /\ Cardinality(ContractsAstray) \in Nat
            /\ Cardinality(ContractsAstray') <= Cardinality(ContractsAstray)
        <4>1. ContractsAstray' \subseteq ContractsAstray
          BY <2>5, <2>7
        <4> QED BY <2>6, <4>1, FS_Subset, FS_CardinalityType
      <3> QED BY <1>1, <2>1, <2>6, <3>1, <3>2 DEF CrashesAccount
    <2>8. CASE pc = "position"
      <3>1. /\ IsFiniteSet(ContractsAstray') /\ Cardinality(ContractsAstray') \in Nat
            /\ Cardinality(ContractsAstray) \in Nat
            /\ Cardinality(ContractsAstray') <= Cardinality(ContractsAstray) + 1
        <4>1. ContractsAstray' \subseteq ContractsAstray \cup {orders[txn.order].contract}
          BY <2>5
        <4> QED BY <2>6, <4>1, CardinalityGrows
      <3>2. /\ IsFiniteSet(OrdersAstray') /\ Cardinality(OrdersAstray') \in Nat
            /\ Cardinality(OrdersAstray) \in Nat
            /\ Cardinality(OrdersAstray') <= Cardinality(OrdersAstray)
        <4>1. OrdersAstray' \subseteq OrdersAstray
          BY <2>4, <2>8
        <4> QED BY <2>6, <4>1, FS_Subset, FS_CardinalityType
      <3> QED BY <1>1, <2>1, <2>6, <3>1, <3>2 DEF CrashesAccount
    <2> QED BY <2>7, <2>8
  <1>3. CASE ~Crash
    <2>1. OrdersAstray' = OrdersAstray /\ ContractsAstray' = ContractsAstray
      BY <1>3, StepSpoilsNothing DEF CrashesAccount
    <2>2. crashes' = crashes
      BY <1>3 DEF Next, Worker, Environment, BeginTick, ScanIntents, EnsureCash, EndTick,
            PersistFill, PersistPosition, PersistCash, LoadIntent, ReconcileFill, FinishReconcile,
            EvaluateIntent, ApplyNext, RestateCash, FinishApply, FlattenCancel, FlattenCancelled,
            ClosePosition, FlattenSnapshot, EndFlatten, PublishIntent, Command, Pause,
            Resume, Flatten, AdvanceClock, vars, envVars
    <2> QED BY <1>1, <2>1, <2>2 DEF CrashesAccount
  <1> QED BY <1>2, <1>3

\* Orders, fills and positions agree outside the booking of a fill, but for one
\* order or one contract for each crash: no interleaving of writes, cancels,
\* flattens and commands sets them apart, and a crash never costs more.
THEOREM CrashesSpoilLittle == Spec => []CrashSpoilsOneFill
  <1>1. IInv /\ CrashesAccount => CrashSpoilsOneFill
    <2> SUFFICES ASSUME IInv, CrashesAccount, ~Booking
                 PROVE  Cardinality(OrdersOff) + Cardinality(ContractsOff) <= crashes
      BY DEF CrashSpoilsOneFill
    <2>1. \A i, c : OwedFill(i) = 0 /\ OwedMove(c) = 0
      BY DEF OwedFill, OwedMove, Booking
    <2>2. \A i : FilledIn(i) \in Int
      BY TotalInt DEF FilledIn
    <2>3. \A c : QuantityOf(c) \in Int
      BY DEF QuantityOf, IInv, TypeOK, Position
    <2>4. OrdersOff = OrdersAstray
      BY <2>1, <2>2 DEF OrdersOff, OrdersAstray
    <2>5. ContractsOff = ContractsAstray
      BY <2>1, <2>3 DEF ContractsOff, ContractsAstray
    <2> QED BY <2>4, <2>5 DEF CrashesAccount
  <1>2. IInv /\ CrashesAccount /\ [Next]_vars => CrashesAccount'
    BY AccountStep, NextIInv
  <1> QED BY <1>1, <1>2, InitAccount, Invariance, PTL DEF Spec

-----------------------------------------------------------------------------
(* The snapshots of the complexes. *)

\* The stored snapshot of k states what the open orders of k reserve.
Current(k) ==
  PositionsIn(k, positions) # {} \/ OpenOrdersIn(k, orders) # {} =>
    k \in DOMAIN snapshots /\ snapshots[k].reserved = ReservedInComplex(k, orders)

Flattening == pc \in {"cancel", "close"} \/ (Booking /\ txn.back = "close")

\* The tick is still to refresh the snapshot of k.
Stale(k) == (InIntent /\ k = intents[plan].complex) \/ (Flattening /\ k \in touched)

PlanComplex ==
  \A i \in DOMAIN orders : orders[i].plan \in Plans =>
    orders[i].complex = intents[orders[i].plan].complex

\* The rows a step may write belong to the complexes to be refreshed.
ToRefresh ==
  /\ Booking /\ txn.back \in {"reconcile", "apply"} => orders[txn.order].plan = plan
  /\ Booking /\ txn.back = "close" => orders[txn.order].contract \in DOMAIN positions
  /\ \A a \in pending : a.kind = "cancel" => orders[a.order].plan = plan
  /\ pc = "cancel" => \A i \in work : orders[i].complex \in touched

SnapshotsKnown == crashes = 0 => \A k \in Complexes : Current(k) \/ Stale(k)

SnapInv == PlanComplex /\ ToRefresh /\ SnapshotsKnown

LEMMA InitSnap == Init => SnapInv
  <1> SUFFICES ASSUME Init PROVE SnapInv
    OBVIOUS
  <1>1. DOMAIN orders = {} /\ DOMAIN positions = {} /\ pending = {} /\ pc = "idle"
    BY DEF Init
  <1>2. \A k : Current(k)
    BY <1>1 DEF Current, PositionsIn, OpenOrdersIn
  <1> QED BY <1>1, <1>2 DEF SnapInv, PlanComplex, ToRefresh, SnapshotsKnown, Booking

LEMMA PlanComplexStep ==
  ASSUME IInv, PlanComplex, [Next]_vars PROVE PlanComplex'
  <1>1. ASSUME NEW i \in DOMAIN orders', orders'[i].plan \in Plans
        PROVE  orders'[i].complex = intents'[orders'[i].plan].complex
    <2>1. CASE i \in DOMAIN orders
      <3>1. orders'[i].plan = orders[i].plan /\ orders'[i].complex = orders[i].complex
        BY <2>1, OrdersKeepComplex
      <3>2. orders[i].plan \in DOMAIN intents /\ orders[i].complex = intents[orders[i].plan].complex
        BY <1>1, <2>1, <3>1 DEF PlanComplex, IInv, RowsInv, OrdersOfIntents
      <3> QED BY <3>1, <3>2, IntentsKept
    <2>2. CASE i \notin DOMAIN orders
      <3>1. /\ orders'[i].plan = plan /\ plan \in DOMAIN intents
            /\ orders'[i].complex = intents[plan].complex
        BY <1>1, <2>2, OrdersKeepComplex, WorkerAssumption
      <3> QED BY <3>1, IntentsKept
    <2> QED BY <2>1, <2>2
  <1> QED BY <1>1 DEF PlanComplex

\* The steps that change what ToRefresh speaks of.
LEMMA DecidedPulls ==
  ASSUME IInv, EvaluateIntent, NEW a \in pending', a.kind = "cancel"
  PROVE  orders[a.order].plan = plan
  <1>1. pending' = PlanDecision.actions
    BY DEF EvaluateIntent
  <1> DEFINE acts == LegActions(intents[plan], quotes, orders, PlanOrders(plan), now)
             cancels == ExpiryCancels(orders, PlanOrders(plan))
             d == EvaluateExecutionAction(intents[plan], quotes, orders, PlanOrders(plan),
                                            TRUE, now)
  <1>2. \/ d.actions = {}
        \/ d.actions = cancels
        \/ /\ d.actions = acts
           /\ ~NoCrossPrice(intents[plan], quotes, orders, PlanOrders(plan), now)
    BY DecisionCases
  <1>3. PlanDecision = d \/ PlanDecision.actions = {}
    BY DEF PlanDecision, Decision
  <1>4. \A b \in cancels : b.order \in PlanOrders(plan)
    BY DEF ExpiryCancels, Cancel, OpenOf
  <1>5. \A b \in acts : b.kind = "cancel" => b.order \in PlanOrders(plan)
    BY LegActionCases DEF Place, Cancel
  <1> HIDE DEF acts, cancels, d
  <1>6. a.order \in PlanOrders(plan)
    BY <1>1, <1>2, <1>3, <1>4, <1>5
  <1> QED BY <1>6 DEF PlanOrders

LEMMA ToRefreshStep ==
  ASSUME IInv, ToRefresh, [Next]_vars PROVE ToRefresh'
  <1>1. \A i \in DOMAIN orders : /\ i \in DOMAIN orders'
                                 /\ orders'[i].plan = orders[i].plan
                                 /\ orders'[i].contract = orders[i].contract
                                 /\ orders'[i].complex = orders[i].complex
    BY OrdersKeepComplex
  <1>2. \A a \in pending' : a.kind = "cancel" => orders'[a.order].plan = plan'
    <2>1. CASE EvaluateIntent
      <3>1. UNCHANGED <<orders, plan>>
        BY <2>1 DEF EvaluateIntent
      <3> QED BY <2>1, <3>1, DecidedPulls
    <2>2. CASE pending' = {}
      BY <2>2
    <2>3. CASE pending' \subseteq pending /\ plan' = plan
      <3>1. \A a \in pending : a.kind = "cancel" =>
              orders[a.order].plan = plan /\ a.order \in DOMAIN orders
        BY DEF ToRefresh, IInv, TickInv, PendingInHand, OpenOrders
      <3> QED BY <1>1, <2>3, <3>1
    <2> QED BY <2>1, <2>2, <2>3, PendingTaken
  <1>3. pc' = "cancel" => \A i \in work' : orders'[i].complex \in touched'
    <2>1. CASE EnsureCash
      BY <2>1 DEF EnsureCash
    <2>2. CASE FlattenCancel
      <3>1. work' \subseteq work /\ UNCHANGED touched /\ pc = "cancel"
        BY <2>2 DEF FlattenCancel
      <3>2. \A i \in work : i \in DOMAIN orders
        BY DEF IInv, TypeOK
      <3> QED BY <1>1, <3>1, <3>2 DEF ToRefresh
    <2>3. CASE UNCHANGED <<pc, work, touched, orders>>
      BY <2>3 DEF ToRefresh
    <2>4. EnsureCash \/ FlattenCancel \/ UNCHANGED <<pc, work, touched, orders>> \/ pc' # "cancel"
      <3>1. PersistCash => pc' # "cancel"
        BY DEF PersistCash, IInv, TypeOK
      <3> QED BY <3>1 DEF Next, Worker, Environment, BeginTick, ScanIntents, EndTick, PersistFill,
           PersistPosition, LoadIntent, ReconcileFill, FinishReconcile, EvaluateIntent,
           ApplyNext, ApplyCancel, ApplyUnaffordable, ApplyPassive, ApplyCross, RestateCash,
           FinishApply, FlattenCancelled, ClosePosition, FlattenSnapshot, EndFlatten, Crash,
           PublishIntent, Command, Pause, Resume, Flatten, AdvanceClock, vars, tableVars, tickVars
    <2> QED BY <2>1, <2>2, <2>3, <2>4
  <1>4. /\ Booking' /\ txn'.back \in {"reconcile", "apply"} => orders'[txn'.order].plan = plan'
        /\ Booking' /\ txn'.back = "close" => orders'[txn'.order].contract \in DOMAIN positions'
    <2>1. CASE ReconcileFill
      <3>1. PICK i \in DOMAIN orders, size \in Nat, price \in Nat : FillsResting(i, size, price)
        BY <2>1, ReconcileWrites
      <3>2. txn'.order = i /\ txn'.back = "reconcile" /\ plan' = plan /\ orders[i].plan = plan
        BY <3>1 DEF FillsResting
      <3> QED BY <1>1, <3>2
    <2>2. ASSUME NEW a \in pending, NEW n \in Nat, NEW price \in Nat, Crosses(a, n, price)
          PROVE  /\ txn'.back = "apply" /\ orders'[txn'.order].plan = plan'
      BY <2>2 DEF Crosses, Appends, Placed
    <2>3. ASSUME NEW c \in Contracts, ClosePosition(c)
          PROVE  /\ txn'.back = "close" /\ orders'[txn'.order].contract \in DOMAIN positions'
      <3>1. PICK n \in Nat, price \in Nat : Closes(c, n, price)
        BY <2>3, CloseWrites
      <3> QED BY <3>1 DEF Closes, Appends, Placed
    <2>4. CASE ~Booking'
      BY <2>4
    <2>5. CASE Booking /\ UNCHANGED <<orders, txn, plan>> /\ DOMAIN positions \subseteq DOMAIN positions'
      BY <2>5 DEF ToRefresh
    <2>6. \/ ReconcileFill \/ ApplyNext \/ \E c \in Contracts : ClosePosition(c)
          \/ ~Booking'
          \/ Booking /\ UNCHANGED <<orders, txn, plan>> /\ DOMAIN positions \subseteq DOMAIN positions'
      <3>1. PersistCash => ~Booking'
        BY DEF PersistCash, IInv, TypeOK, Booking
      <3>2. PersistPosition => DOMAIN positions \subseteq DOMAIN positions'
        BY DEF PersistPosition, Upsert
      <3>3. CASE Booking
        BY <3>1, <3>2, <3>3 DEF Booking, Next, Worker, Environment, BeginTick, ScanIntents, EnsureCash, EndTick, PersistFill,
           PersistPosition, LoadIntent, FinishReconcile, EvaluateIntent, RestateCash,
           FinishApply, FlattenCancel, FlattenCancelled, FlattenSnapshot, EndFlatten, Crash,
           PublishIntent, Command, Pause, Resume, Flatten, AdvanceClock, vars, tableVars, tickVars
      <3>4. CASE ~Booking
        BY <3>1, <3>4 DEF Booking, Next, Worker, Environment, BeginTick, ScanIntents, EnsureCash, EndTick, PersistFill,
           PersistPosition, LoadIntent, FinishReconcile, EvaluateIntent, RestateCash,
           FinishApply, FlattenCancel, FlattenCancelled, FlattenSnapshot, EndFlatten, Crash,
           PublishIntent, Command, Pause, Resume, Flatten, AdvanceClock, vars, tableVars, tickVars
      <3> QED BY <3>3, <3>4
    <2>7. CASE ApplyNext
      <3>1. pc' \in {"apply", "restate"} => ~Booking'
        BY DEF Booking
      <3>2. \/ pc' \in {"apply", "restate"}
            \/ \E a \in pending, n \in Nat, price \in Nat : Crosses(a, n, price)
        BY <2>7, ApplyWrites DEF CancelsOpen, Rests, ApplyNext
      <3> QED BY <2>2, <2>4, <3>1, <3>2
    <2> QED BY <2>1, <2>3, <2>4, <2>5, <2>6, <2>7
  <1> QED BY <1>2, <1>3, <1>4 DEF ToRefresh, Booking

\* A current snapshot stays so while the rows of its complex stay.
LEMMA CurrentKept ==
  ASSUME NEW k, Current(k),
         k \in DOMAIN snapshots => k \in DOMAIN snapshots' /\ snapshots'[k] = snapshots[k],
         PositionsIn(k, positions)' = PositionsIn(k, positions),
         OpenOrdersIn(k, orders)' = OpenOrdersIn(k, orders),
         \A i \in OpenOrdersIn(k, orders) : /\ orders'[i].remaining = orders[i].remaining
                                            /\ orders'[i].limit = orders[i].limit
  PROVE  Current(k)'
  <1>1. [i \in OpenOrdersIn(k, orders)' |-> orders'[i].remaining * orders'[i].limit]
          = [i \in OpenOrdersIn(k, orders) |-> orders[i].remaining * orders[i].limit]
    OBVIOUS
  <1>2. ReservedInComplex(k, orders)' = ReservedInComplex(k, orders)
    BY <1>1 DEF ReservedInComplex
  <1> QED BY <1>2 DEF Current

\* A refreshed snapshot is current, and the others stay.
LEMMA Refreshed ==
  ASSUME NEW k, NEW quotesRead,
         snapshots' = UpdateSnapshot(snapshots, k, orders, positions, quotesRead),
         UNCHANGED <<orders, positions>>
  PROVE  /\ Current(k)'
         /\ \A j : j # k /\ Current(j) => Current(j)'
  <1>1. Current(k)'
    BY DEF UpdateSnapshot, Upsert, Current
  <1>2. ASSUME NEW j, j # k, Current(j) PROVE Current(j)'
    BY <1>2 DEF UpdateSnapshot, Upsert, Current
  <1> QED BY <1>1, <1>2

\* What the rewriting of an order leaves of the other complexes.
LEMMA OthersCurrent ==
  ASSUME TypeOK, NEW k, Current(k), UNCHANGED <<positions, snapshots>>,
         \/ \E i \in DOMAIN orders : \E row :
              /\ Rewrites(i, row) /\ row.complex = orders[i].complex /\ orders[i].complex # k
         \/ \E n, row : Appends(n, row) /\ (row.complex # k \/ row.status # "open")
         \/ UNCHANGED orders
  PROVE  Current(k)'
  <1>1. ASSUME NEW i \in DOMAIN orders, NEW row, Rewrites(i, row),
               row.complex = orders[i].complex, orders[i].complex # k
        PROVE  /\ OpenOrdersIn(k, orders)' = OpenOrdersIn(k, orders)
               /\ \A j \in OpenOrdersIn(k, orders) : orders'[j] = orders[j]
    BY <1>1 DEF Rewrites, OpenOrdersIn
  <1>2. ASSUME NEW n, NEW row, Appends(n, row), row.complex # k \/ row.status # "open"
        PROVE  /\ OpenOrdersIn(k, orders)' = OpenOrdersIn(k, orders)
               /\ \A j \in OpenOrdersIn(k, orders) : orders'[j] = orders[j]
    BY <1>2 DEF Appends, OpenOrdersIn
  <1>3. PositionsIn(k, positions)' = PositionsIn(k, positions)
    BY DEF PositionsIn
  <1>4. UNCHANGED orders =>
          /\ OpenOrdersIn(k, orders)' = OpenOrdersIn(k, orders)
          /\ \A j \in OpenOrdersIn(k, orders) : orders'[j] = orders[j]
    OBVIOUS
  <1> QED BY <1>1, <1>2, <1>3, <1>4, CurrentKept

\* A booked position is a row of the complex to be refreshed, or stays in its own.
LEMMA BookingCurrent ==
  ASSUME IInv, IInv', PlanComplex, ToRefresh, PersistPosition, NEW k, Current(k) \/ Stale(k)
  PROVE  Current(k)' \/ Stale(k)'
  <1>1. PICK c, complex, order :
          /\ order = orders[txn.order] /\ c = order.contract /\ complex = order.complex
    OBVIOUS
  <1>2. /\ pc = "position" /\ pc' = "cash" /\ UNCHANGED <<orders, snapshots, intents, plan, txn, touched>>
        /\ positions' = Upsert(positions, c,
                               RealizeAgainstPosition(PositionOf(c, complex), order.side,
                                                      txn.size, txn.price))
    BY <1>1 DEF PersistPosition
  <1>3. Stale(k) => Stale(k)'
    BY <1>2 DEF Stale, InIntent, Flattening, Booking
  <1>4. /\ txn.order \in DOMAIN orders /\ txn.back \in {"reconcile", "apply", "close"}
        /\ order \in Order
    <2>1. txn.order \in DOMAIN orders /\ txn.back # "idle"
      BY <1>2 DEF IInv, TickInv, TxnInHand, Booking
    <2>2. txn.back \in {"idle", "reconcile", "apply", "close"} /\ orders \in Seq(Order)
      BY DEF IInv, TypeOK
    <2> QED BY <1>1, <2>1, <2>2
  <1>5. ASSUME Current(k), ~Stale(k) PROVE Current(k)'
    <2>1. PICK old, new : /\ old = PositionOf(c, complex)
                          /\ new = RealizeAgainstPosition(old, order.side, txn.size, txn.price)
      OBVIOUS
    <2>2. new.complex = old.complex
      <3>1. old \in Position
        <4>1. c \in DOMAIN positions => positions[c] \in Position
          BY DEF IInv, TypeOK
        <4>2. complex \in Complexes
          BY <1>1, <1>4 DEF Order
        <4> QED BY <2>1, <4>1, <4>2 DEF PositionOf, Position
      <3> QED BY <2>1, <3>1 DEF RealizeAgainstPosition, Position
    <2>3. /\ DOMAIN positions' = DOMAIN positions \cup {c}
          /\ positions'[c] = new
          /\ \A d \in DOMAIN positions : d # c => positions'[d] = positions[d]
      BY <1>2, <2>1 DEF Upsert
    <2>4. c \in DOMAIN positions \/ complex # k
      <3>1. CASE txn.back = "close"
        BY <1>1, <1>2, <3>1 DEF ToRefresh, Booking
      <3>2. CASE txn.back # "close"
        <4>1. order.plan = plan /\ plan \in DOMAIN intents
          BY <1>1, <1>2, <1>4, <3>2 DEF ToRefresh, Booking, IInv, TickInv, IntentInHand, InIntent
        <4>2. complex = intents[plan].complex
          BY <1>1, <1>4, <4>1 DEF PlanComplex, IInv, TypeOK
        <4>3. k # intents[plan].complex
          BY <1>2, <1>4, <1>5, <3>2 DEF Stale, InIntent, Booking
        <4> QED BY <4>2, <4>3
      <3> QED BY <3>1, <3>2
    <2>5. PositionsIn(k, positions)' = PositionsIn(k, positions)
      <3>1. CASE c \in DOMAIN positions
        <4>1. old = positions[c]
          BY <2>1, <3>1 DEF PositionOf
        <4> QED BY <2>2, <2>3, <3>1, <4>1 DEF PositionsIn
      <3>2. CASE c \notin DOMAIN positions
        <4>1. old.complex = complex
          BY <2>1, <3>2 DEF PositionOf
        <4> QED BY <2>2, <2>3, <2>4, <3>2, <4>1 DEF PositionsIn
      <3> QED BY <3>1, <3>2
    <2>6. /\ OpenOrdersIn(k, orders)' = OpenOrdersIn(k, orders)
          /\ \A j \in OpenOrdersIn(k, orders) : orders'[j] = orders[j]
      BY <1>2
    <2> QED BY <1>2, <1>5, <2>5, <2>6, CurrentKept
  <1> QED BY <1>3, <1>5

\* What is to be refreshed stays so until it is.
LEMMA StaleKept ==
  ASSUME IInv, IInv', [Next]_vars, NEW k, Stale(k),
         \/ PersistFill \/ PersistCash \/ EvaluateIntent \/ RestateCash \/ FinishReconcile
         \/ FlattenCancelled \/ UNCHANGED <<pc, plan, txn, touched>>
  PROVE  Stale(k)'
  <1>1. \A p \in DOMAIN intents : intents'[p] = intents[p]
    BY IntentsKept
  <1>2. InIntent => plan \in DOMAIN intents
    BY DEF IInv, TickInv, IntentInHand
  <1>3. CASE UNCHANGED <<pc, plan, txn, touched>>
    BY <1>1, <1>2, <1>3 DEF Stale, InIntent, Flattening, Booking
  <1>4. CASE PersistFill
    BY <1>4 DEF Stale, InIntent, Flattening, Booking, PersistFill
  <1>5. CASE PersistCash
    BY <1>5 DEF Stale, InIntent, Flattening, Booking, PersistCash
  <1>6. CASE EvaluateIntent \/ RestateCash \/ FinishReconcile
    BY <1>6 DEF Stale, InIntent, Flattening, Booking, EvaluateIntent, RestateCash, FinishReconcile
  <1>7. CASE FlattenCancelled
    BY <1>7 DEF Stale, InIntent, Flattening, Booking, FlattenCancelled
  <1> QED BY <1>3, <1>4, <1>5, <1>6, <1>7

\* An order is written only where the tick is still to refresh the snapshot.
LEMMA WritesCurrent ==
  ASSUME IInv, PlanComplex, ToRefresh, NEW k, Current(k) \/ Stale(k),
         ReconcileFill \/ ApplyNext \/ FlattenCancel \/ \E c \in Contracts : ClosePosition(c)
  PROVE  Current(k)' \/ Stale(k)'
  <1>0. TypeOK
    BY DEF IInv
  <1>1. ASSUME NEW i \in DOMAIN orders, NEW size \in Nat, NEW price \in Nat,
               FillsResting(i, size, price)
        PROVE  Current(k)' \/ Stale(k)'
    <2>1. /\ InIntent /\ InIntent' /\ ~Flattening /\ UNCHANGED <<plan, intents>>
          /\ plan \in DOMAIN intents
      BY <1>1 DEF FillsResting, InIntent, Flattening, Booking, IInv, TickInv, IntentInHand
    <2>2. orders[i].complex = intents[plan].complex
      BY <1>1, <2>1 DEF FillsResting, PlanComplex, IInv, TypeOK
    <2>3. CASE k = intents[plan].complex
      BY <2>1, <2>3 DEF Stale
    <2>4. CASE k # intents[plan].complex
      <3>1. Current(k) /\ UNCHANGED <<positions, snapshots>>
        BY <1>1, <2>1, <2>4 DEF Stale, FillsResting
      <3>2. PICK row : row = MergeFill(orders[i], size)
        OBVIOUS
      <3>3. Rewrites(i, row) /\ row.complex = orders[i].complex
        BY <1>1, <3>2 DEF FillsResting, MergeFill, Order
      <3> QED BY <1>0, <2>2, <2>4, <3>1, <3>3, OthersCurrent
    <2> QED BY <2>3, <2>4
  <1>2. ASSUME NEW i \in DOMAIN orders, CancelsOpen(i)
        PROVE  Current(k)' \/ Stale(k)'
    <2>0. ASSUME Current(k), orders[i].complex # k PROVE Current(k)'
      <3>1. UNCHANGED <<positions, snapshots>>
        BY <1>2 DEF CancelsOpen
      <3>2. PICK row : row = CancelOrder(orders[i])
        OBVIOUS
      <3>3. Rewrites(i, row) /\ row.complex = orders[i].complex
        BY <1>2, <3>2 DEF CancelsOpen, CancelOrder, Order
      <3> QED BY <1>0, <2>0, <3>1, <3>3, OthersCurrent
    <2>1. CASE pc = "apply"
      <3>1. /\ InIntent /\ InIntent' /\ ~Flattening /\ UNCHANGED <<plan, intents>>
            /\ plan \in DOMAIN intents
        BY <1>2, <2>1 DEF CancelsOpen, InIntent, Flattening, Booking, IInv, TickInv, IntentInHand
      <3>2. orders[i].plan = plan
        BY <1>2, <2>1 DEF CancelsOpen, ToRefresh
      <3>3. orders[i].complex = intents[plan].complex
        BY <3>1, <3>2 DEF PlanComplex, IInv, TypeOK
      <3> QED BY <2>0, <3>1, <3>3 DEF Stale
    <2>2. CASE pc = "cancel"
      <3>1. /\ ~InIntent /\ Flattening /\ Flattening' /\ touched' = touched /\ i \in work
        BY <1>2, <2>2 DEF CancelsOpen, InIntent, Flattening, Booking
      <3>2. orders[i].complex \in touched
        BY <2>2, <3>1 DEF ToRefresh
      <3> QED BY <2>0, <3>1, <3>2 DEF Stale
    <2> QED BY <1>2, <2>1, <2>2 DEF CancelsOpen
  <1>3. ASSUME NEW a \in pending, NEW n \in Nat, Rests(a, n)
        PROVE  Current(k)' \/ Stale(k)'
    <2>1. /\ InIntent' /\ ~Flattening /\ UNCHANGED <<plan, intents, positions, snapshots>>
      BY <1>3 DEF Rests, InIntent, Flattening, Booking
    <2>2. PICK row : Appends(n, row) /\ row.complex = intents[plan].complex
      BY <1>3 DEF Rests, Placed
    <2>3. CASE k = intents[plan].complex
      BY <2>1, <2>3 DEF Stale
    <2>4. CASE k # intents[plan].complex
      <3>1. Current(k)
        BY <2>1, <2>4 DEF Stale
      <3> QED BY <1>0, <2>1, <2>2, <2>4, <3>1, OthersCurrent
    <2> QED BY <2>3, <2>4
  <1>4. ASSUME NEW n, NEW row, Appends(n, row), row.status = "filled",
               UNCHANGED <<positions, snapshots>>, Stale(k) => Stale(k)'
        PROVE  Current(k)' \/ Stale(k)'
    <2>1. row.status # "open"
      BY <1>4
    <2> QED BY <1>0, <1>4, <2>1, OthersCurrent
  <1>5. ASSUME NEW a \in pending, NEW n \in Nat, NEW price \in Nat, Crosses(a, n, price)
        PROVE  Current(k)' \/ Stale(k)'
    <2>1. Stale(k) => Stale(k)'
      BY <1>5 DEF Crosses, Stale, InIntent, Flattening, Booking
    <2>2. UNCHANGED <<positions, snapshots>>
      BY <1>5 DEF Crosses
    <2>3. PICK row : Appends(n, row) /\ row.status = "filled"
      BY <1>5 DEF Crosses, Placed
    <2> QED BY <1>4, <2>1, <2>2, <2>3
  <1>6. ASSUME NEW c \in Contracts, NEW n \in Nat, NEW price \in Nat, Closes(c, n, price)
        PROVE  Current(k)' \/ Stale(k)'
    <2>1. Stale(k) => Stale(k)'
      BY <1>6 DEF Closes, Stale, InIntent, Flattening, Booking
    <2>2. UNCHANGED <<positions, snapshots>>
      BY <1>6 DEF Closes
    <2>3. PICK row : Appends(n, row) /\ row.status = "filled"
      BY <1>6 DEF Closes, Placed
    <2> QED BY <1>4, <2>1, <2>2, <2>3
  <1>7. CASE UNCHANGED <<pc, orders>> /\ ApplyNext
    <2>1. UNCHANGED <<positions, snapshots, plan, intents, touched>> /\ pc = "apply"
      BY <1>7 DEF ApplyNext
    <2>2. Stale(k) => Stale(k)'
      BY <1>7, <2>1 DEF Stale, InIntent, Flattening, Booking
    <2>3. Current(k) => Current(k)'
      BY <1>0, <1>7, <2>1, OthersCurrent
    <2> QED BY <2>2, <2>3
  <1> QED BY <1>1, <1>2, <1>3, <1>5, <1>6, <1>7, ReconcileWrites, ApplyWrites,
             FlattenCancelWrites, CloseWrites

LEMMA SnapshotsKnownStep ==
  ASSUME IInv, IInv', PlanComplex, ToRefresh, SnapshotsKnown, [Next]_vars PROVE SnapshotsKnown'
  <1> SUFFICES ASSUME crashes' = 0, NEW k \in Complexes PROVE Current(k)' \/ Stale(k)'
    BY DEF SnapshotsKnown
  <1>1. crashes = 0 /\ ~Crash
    <2>1. crashes \in Nat /\ (crashes' = crashes \/ crashes' = crashes + 1)
      BY DEF IInv, TypeOK, Next, Worker, Environment, BeginTick, ScanIntents, EnsureCash, EndTick,
           PersistFill, PersistPosition, PersistCash, LoadIntent, ReconcileFill, FinishReconcile,
           EvaluateIntent, ApplyNext, RestateCash, FinishApply, FlattenCancel, FlattenCancelled,
           ClosePosition, FlattenSnapshot, EndFlatten, Crash, PublishIntent, Command, Pause,
           Resume, Flatten, AdvanceClock, vars, envVars
    <2>2. Crash => crashes' = crashes + 1
      BY DEF Crash
    <2> QED BY <2>1, <2>2
  <1>2. Current(k) \/ Stale(k)
    BY <1>1 DEF SnapshotsKnown
  <1>3. CASE FinishReconcile
    <2>1. /\ snapshots' = UpdateSnapshot(snapshots, intents[plan].complex, orders, positions, quotes)
          /\ UNCHANGED <<orders, positions>>
      BY <1>3 DEF FinishReconcile
    <2> QED BY <1>2, <1>3, <2>1, Refreshed, StaleKept
  <1>4. CASE FinishApply
    <2>1. /\ snapshots' = UpdateSnapshot(snapshots, intents[plan].complex, orders, positions, quotes)
          /\ UNCHANGED <<orders, positions>> /\ pc = "apply"
      BY <1>4 DEF FinishApply
    <2>2. Stale(k) => k = intents[plan].complex
      BY <2>1 DEF Stale, Flattening, Booking
    <2> QED BY <1>2, <2>1, <2>2, Refreshed
  <1>5. ASSUME NEW j \in Complexes, FlattenSnapshot(j) PROVE Current(k)' \/ Stale(k)'
    <2>1. /\ snapshots' = UpdateSnapshot(snapshots, j, orders, positions, quotes)
          /\ UNCHANGED <<orders, positions>> /\ pc = "close" /\ pc' = "close"
          /\ touched' = touched \ {j}
      BY <1>5 DEF FlattenSnapshot
    <2>2. Stale(k) /\ k # j => Stale(k)'
      BY <2>1 DEF Stale, Flattening, InIntent, Booking
    <2> QED BY <1>2, <2>1, <2>2, Refreshed
  <1>6. CASE PersistPosition
    BY <1>2, <1>6, BookingCurrent
  <1>7. CASE ReconcileFill \/ ApplyNext \/ FlattenCancel \/ \E c \in Contracts : ClosePosition(c)
    BY <1>2, <1>7, WritesCurrent
  <1>8. ASSUME UNCHANGED <<orders, positions, snapshots>>,
               Stale(k) => Stale(k)'
        PROVE  Current(k)' \/ Stale(k)'
    <2>1. Current(k) => Current(k)'
      BY <1>8, OthersCurrent DEF IInv
    <2> QED BY <1>2, <1>8, <2>1
  <1>9. CASE \/ BeginTick \/ ScanIntents \/ EnsureCash \/ EndTick \/ EndFlatten
             \/ \E p \in Plans : LoadIntent(p)
    <2>1. UNCHANGED <<orders, positions, snapshots>> /\ ~Stale(k)
      BY <1>9 DEF BeginTick, ScanIntents, EnsureCash, EndTick, EndFlatten, LoadIntent, tableVars,
                  Stale, InIntent, Flattening, Booking
    <2> QED BY <1>8, <2>1
  <1>10. CASE \/ PersistFill \/ PersistCash \/ EvaluateIntent \/ RestateCash \/ FlattenCancelled
    <2>1. UNCHANGED <<orders, positions, snapshots>>
      BY <1>10 DEF PersistFill, PersistCash, EvaluateIntent, RestateCash, FlattenCancelled
    <2> QED BY <1>8, <1>10, <2>1, StaleKept
  <1>11. CASE \/ Pause \/ Resume \/ Flatten \/ AdvanceClock \/ UNCHANGED vars
              \/ \E p \in Plans, payload \in Payloads : PublishIntent(p, payload)
    <2>1. UNCHANGED <<orders, positions, snapshots, pc, plan, txn, touched>>
      BY <1>11 DEF Pause, Resume, Flatten, Command, AdvanceClock, PublishIntent, vars, tableVars, tickVars
    <2> QED BY <1>8, <2>1, StaleKept
  <1> QED BY <1>1, <1>3, <1>4, <1>5, <1>6, <1>7, <1>9, <1>10, <1>11 DEF Next, Worker, Environment

\* Between ticks, as long as no crash has interrupted one, the snapshot of every
\* complex with a position or an open order states what its open orders reserve:
\* a tick refreshes every complex whose rows it wrote.
THEOREM SnapshotsAreCurrent == Spec => []SnapshotCurrent
  <1>1. IInv /\ IInv' /\ SnapInv /\ [Next]_vars => SnapInv'
    BY PlanComplexStep, ToRefreshStep, SnapshotsKnownStep DEF SnapInv
  <1>2. SnapInv => SnapshotCurrent
    BY DEF SnapInv, SnapshotsKnown, SnapshotCurrent, Current, Stale, InIntent, Flattening, Booking
  <1> QED BY <1>1, <1>2, InitSnap, Invariance, PTL DEF Spec

-----------------------------------------------------------------------------
(* What the resting buys may take of the cash. *)

\* A size unit costs less than a cent: sizes have six decimals in the code and
\* prices are at most a dollar.
SmallPrice(price) == price # Null => price < UnitsPerCent
SmallPrices ==
  /\ \A payload \in Payloads : \A k \in DOMAIN payload.legs : SmallPrice(payload.legs[k].limit)
  /\ \A quote \in Quotes : SmallPrice(quote.bid) /\ SmallPrice(quote.ask)

\* A buy is cut to a size that costs what is available, give or take half a
\* size unit.
LEMMA AffordableCosts ==
  ASSUME NEW size \in Nat, NEW limit \in Nat, NEW available \in Int,
         NEW cut, cut = AffordableSize("buy", size, limit, available), cut > 0
  PROVE  2 * (limit * cut) <= 2 * (UnitsPerCent * available) + limit
  <1>1. UnitsPerCent \in Nat \ {0}
    BY MoneyAssumption
  <1>2. limit > 0
    BY DEF AffordableSize
  <1>3. PICK n \in Int : n = available * UnitsPerCent /\ n = UnitsPerCent * available
    BY <1>1
  <1>4. PICK r \in Int : r = RoundDiv(n, limit)
    BY <1>2, RoundDivInt
  <1>5. cut = MinOf(size, MaxOf(0, r))
    BY <1>2, <1>3, <1>4 DEF AffordableSize
  <1>6. cut \in Nat /\ cut <= r /\ r > 0
    BY <1>5 DEF MinOf, MaxOf
  <1>7. n \in Nat
    BY <1>2, <1>4, <1>6, RoundDivNegative
  <1>8. 2 * (limit * r) <= 2 * n + limit
    BY <1>2, <1>4, <1>7, RoundDivNear
  <1>9. limit * cut <= limit * r
    BY <1>6
  <1>10. limit * cut \in Int /\ limit * r \in Int
    BY <1>6
  <1> QED BY <1>3, <1>8, <1>9, <1>10

Reserve == Total([i \in OpenBuys(orders) |-> orders[i].remaining * orders[i].limit])

\* A recomputed cash row reserves what the open buys of now are worth.
LEMMA RecomputeReserves ==
  ASSUME NEW row \in Cash, NEW table
  PROVE  /\ RecomputeCash(row, orders, table).reserved = ReservedNow
         /\ RecomputeCash(row, orders, table).balance = row.balance
  BY DEF RecomputeCash, ReservedNow, Cash

LEMMA ReserveIs ==
  ASSUME TypeOK
  PROVE  /\ OpenBuys(orders) \subseteq DOMAIN orders /\ IsFiniteSet(OpenBuys(orders))
         /\ \A i \in DOMAIN orders : orders[i].remaining * orders[i].limit \in Nat
         /\ Reserve \in Nat
         /\ ReservedNow = RoundUsd(Reserve) /\ ReservedNow \in Int
  <1>1. OpenBuys(orders) \subseteq DOMAIN orders
    BY DEF OpenBuys
  <1>2. IsFiniteSet(OpenBuys(orders))
    BY <1>1, OrdersAre, FS_Subset
  <1>3. \A i \in DOMAIN orders : orders[i].remaining * orders[i].limit \in Nat
    BY OrdersAre
  <1>4. PICK f : f = [i \in OpenBuys(orders) |-> orders[i].remaining * orders[i].limit]
    OBVIOUS
  <1>5. DOMAIN f = OpenBuys(orders) /\ \A i \in DOMAIN f : f[i] \in Nat
    BY <1>1, <1>3, <1>4
  <1>6. Total(f) \in Nat
    BY <1>2, <1>5, TotalNat
  <1>7. ReservedNow = RoundUsd(Reserve)
    BY DEF ReservedNow, Reserve
  <1> QED BY <1>1, <1>2, <1>3, <1>4, <1>6, <1>7, RoundUsdInt DEF Reserve

\* An order rewritten in place changes the reserve by what it reserves itself.
LEMMA ReserveRewritten ==
  ASSUME TypeOK, TypeOK', NEW i \in OpenOrders, NEW row, Rewrites(i, row),
         row.side = orders[i].side, row.limit = orders[i].limit,
         row.status = "open" \/ row.remaining = 0
  PROVE  Reserve' = IF row.side = "buy"
                    THEN Reserve - orders[i].remaining * row.limit + row.remaining * row.limit
                    ELSE Reserve
  <1>1. PICK S, T : S = OpenBuys(orders) /\ T = OpenBuys(orders')
    OBVIOUS
  <1>2. PICK f, g : /\ f = [j \in S |-> orders[j].remaining * orders[j].limit]
                    /\ g = [j \in T |-> orders'[j].remaining * orders'[j].limit]
    OBVIOUS
  <1>3. Reserve = Total(f) /\ Reserve' = Total(g)
    BY <1>1, <1>2 DEF Reserve
  <1>4. i \in DOMAIN orders /\ orders[i].status = "open"
    BY DEF OpenOrders
  <1>5. /\ IsFiniteSet(S) /\ S \subseteq DOMAIN orders /\ DOMAIN f = S /\ DOMAIN g = T
        /\ \A j \in DOMAIN f : f[j] \in Int
    BY <1>1, <1>2, ReserveIs
  <1>6. orders'[i] = row /\ DOMAIN orders' = DOMAIN orders
        /\ \A j \in DOMAIN orders : j # i => orders'[j] = orders[j]
    BY DEF Rewrites
  <1>7. CASE row.side # "buy"
    <2>1. T = S /\ i \notin S
      BY <1>1, <1>6, <1>7 DEF OpenBuys
    <2>2. f = g
      BY <1>2, <1>5, <1>6, <2>1
    <2> QED BY <1>3, <1>7, <2>2
  <1>8. CASE row.side = "buy" /\ row.status = "open"
    <2>1. T = S /\ i \in S
      BY <1>1, <1>4, <1>6, <1>8 DEF OpenBuys
    <2>2. /\ f[i] = orders[i].remaining * row.limit
          /\ g[i] = row.remaining * row.limit
          /\ \A j \in S : j # i => g[j] = f[j]
      BY <1>2, <1>5, <1>6, <2>1
    <2>3. \A j \in S : g[j] \in Int
      <3>1. orders'[i] \in Order
        BY <1>4, <1>6 DEF TypeOK
      <3>2. row.remaining \in Nat /\ row.limit \in Nat
        BY <1>6, <3>1 DEF Order
      <3>3. g[i] \in Int
        BY <2>2, <3>2
      <3> QED BY <1>5, <2>2, <3>3
    <2>4. Total(g) = Total(f) + g[i] - f[i]
      BY <1>5, <2>1, <2>2, <2>3, TotalChange
    <2>5. Total(f) \in Int /\ g[i] \in Int /\ f[i] \in Int
      BY <1>5, <2>1, <2>3, TotalInt
    <2>6. Total(g) = Total(f) - f[i] + g[i]
      BY <2>4, <2>5
    <2> QED BY <1>3, <1>8, <2>2, <2>6
  <1>9. CASE row.side = "buy" /\ row.status # "open"
    <2>1. T = S \ {i} /\ i \in S
      BY <1>1, <1>4, <1>6, <1>9 DEF OpenBuys
    <2>2. f[i] = orders[i].remaining * row.limit /\ \A j \in T : g[j] = f[j]
      BY <1>2, <1>5, <1>6, <2>1
    <2>3. Total(f) = f[i] + Total(g)
      <3>1. /\ i \in DOMAIN f /\ DOMAIN g = DOMAIN f \ {i}
            /\ \A j \in DOMAIN g : g[j] = f[j]
        BY <1>5, <2>1, <2>2
      <3>2. IsFiniteSet(DOMAIN f) /\ \A j \in DOMAIN f : f[j] \in Int
        BY <1>5
      <3> QED BY <3>1, <3>2, TotalRemove
    <2>4. Total(f) \in Int /\ Total(g) \in Int /\ f[i] \in Int
      BY <1>5, <2>1, TotalInt
    <2>5. row.remaining * row.limit = 0
      <3>1. row.limit \in Nat
        BY <1>4, OrdersAre
      <3> QED BY <1>9, <3>1
    <2>6. Total(g) = Total(f) - f[i] + 0
      BY <2>3, <2>4
    <2> QED BY <1>3, <1>9, <2>2, <2>5, <2>6
  <1> QED BY <1>7, <1>8, <1>9

\* A new order adds what it reserves itself.
LEMMA ReserveAppended ==
  ASSUME TypeOK, NEW n, NEW row \in Order, Appends(n, row)
  PROVE  Reserve' = IF row.side = "buy" /\ row.status = "open"
                    THEN Reserve + row.remaining * row.limit ELSE Reserve
  <1>1. PICK S, T : S = OpenBuys(orders) /\ T = OpenBuys(orders')
    OBVIOUS
  <1>2. PICK f, g : /\ f = [j \in S |-> orders[j].remaining * orders[j].limit]
                    /\ g = [j \in T |-> orders'[j].remaining * orders'[j].limit]
    OBVIOUS
  <1>3. Reserve = Total(f) /\ Reserve' = Total(g)
    BY <1>1, <1>2 DEF Reserve
  <1>4. /\ IsFiniteSet(S) /\ S \subseteq DOMAIN orders /\ DOMAIN f = S /\ DOMAIN g = T
        /\ \A j \in DOMAIN f : f[j] \in Int
    BY <1>1, <1>2, ReserveIs
  <1>5. /\ n \notin S /\ orders'[n] = row /\ DOMAIN orders' = DOMAIN orders \cup {n}
        /\ \A j \in DOMAIN orders : orders'[j] = orders[j]
        /\ n \notin DOMAIN orders
    BY <1>4 DEF Appends
  <1>6. CASE row.side = "buy" /\ row.status = "open"
    <2>1. T = S \cup {n}
      BY <1>1, <1>5, <1>6 DEF OpenBuys
    <2>2. g[n] = row.remaining * row.limit /\ g[n] \in Int /\ \A j \in S : g[j] = f[j]
      <3>1. row.remaining \in Nat /\ row.limit \in Nat
        BY DEF Order
      <3>2. row.remaining * row.limit \in Int
        BY <3>1
      <3> QED BY <1>2, <1>4, <1>5, <2>1, <3>2
    <2>3. Total(g) = Total(f) + g[n]
      BY <1>4, <1>5, <2>1, <2>2, TotalAdd
    <2> QED BY <1>3, <1>6, <2>2, <2>3
  <1>7. CASE ~(row.side = "buy" /\ row.status = "open")
    <2>1. T = S
      BY <1>1, <1>5, <1>7 DEF OpenBuys
    <2>2. f = g
      BY <1>2, <1>4, <1>5, <2>1
    <2> QED BY <1>3, <1>7, <2>2
  <1> QED BY <1>6, <1>7

\* The copy of the cash held in memory is the row of now, where it is used.
HeldInv ==
  /\ pc \in {"apply", "restate"} => held.balance = cash.balance
  /\ pc = "apply" => held.reserved = ReservedNow
  /\ pc = "cash" => held.balance = cash.balance - TxnCents /\ held.reserved = ReservedNow

LEMMA HeldStep == ASSUME IInv, HeldInv, [Next]_vars PROVE HeldInv'
  <1>0. cash \in Cash /\ held \in Cash /\ TypeOK
    BY DEF IInv, TypeOK
  <1>1. UNCHANGED orders => ReservedNow' = ReservedNow
    BY DEF ReservedNow
  <1>2. CASE PersistPosition
    <2>1. /\ pc = "position" /\ pc' = "cash" /\ UNCHANGED <<orders, cash, txn>>
          /\ held' = CashAfterFill(cash, orders[txn.order].side, FillCents, orders, positions)
      BY <1>2 DEF PersistPosition
    <2> DEFINE next == [cash EXCEPT !.balance = @ - TxnCents]
    <2>2. FillCents \in Int
      <3>1. txn.size \in Nat /\ txn.price \in Nat
        BY <1>0 DEF TypeOK
      <3> QED BY <3>1, RoundUsdInt DEF FillCents
    <2>3. next \in Cash /\ next.balance = cash.balance - TxnCents
      BY <1>0, <2>2, SignedInt DEF TxnCents, Cash
    <2>4. held' = RecomputeCash(next, orders, positions)
      BY <2>1 DEF CashAfterFill, TxnCents
    <2> HIDE DEF next
    <2>5. held'.balance = cash.balance - TxnCents /\ held'.reserved = ReservedNow
      BY <2>3, <2>4, RecomputeReserves
    <2>6. TxnCents' = TxnCents
      BY <2>1 DEF TxnCents, FillCents
    <2> QED BY <1>1, <2>1, <2>5, <2>6 DEF HeldInv
  <1>3. CASE PersistCash
    <2>1. /\ pc = "cash" /\ UNCHANGED orders /\ cash' = held
          /\ pc' \in {"reconcile", "apply", "close"}
          /\ pc' = "apply" => held' = held
      <3>1. txn.back \in {"reconcile", "apply", "close"}
        BY <1>0, <1>3 DEF PersistCash, IInv, TickInv, TxnInHand, Booking, TypeOK
      <3> QED BY <1>3, <3>1 DEF PersistCash
    <2> QED BY <1>1, <2>1 DEF HeldInv
  <1>4. CASE EvaluateIntent
    <2>1. /\ UNCHANGED <<orders, cash>> /\ pc' = "apply"
          /\ held' = RecomputeCash(cash, orders, positions)
      BY <1>4 DEF EvaluateIntent
    <2> QED BY <1>0, <1>1, <2>1, RecomputeReserves DEF HeldInv
  <1>5. CASE RestateCash
    <2>1. /\ UNCHANGED orders /\ pc' = "apply"
          /\ held' = RecomputeCash(held, orders, positions) /\ cash' = held'
      BY <1>5 DEF RestateCash
    <2> QED BY <1>0, <1>1, <2>1, RecomputeReserves DEF HeldInv
  <1>6. CASE ApplyNext
    <2>1. /\ UNCHANGED cash /\ pc = "apply"
          /\ \/ pc' = "restate" /\ UNCHANGED held
             \/ pc' = "apply" /\ UNCHANGED <<held, orders>>
             \/ pc' = "fill"
      BY <1>6 DEF ApplyNext, ApplyCancel, ApplyUnaffordable, ApplyPassive, ApplyCross
    <2> QED BY <1>1, <2>1 DEF HeldInv
  <1>7. CASE UNCHANGED <<pc, cash, held, txn, orders>>
    BY <1>1, <1>7 DEF HeldInv, TxnCents, FillCents
  <1>8. CASE pc' \notin {"cash", "apply", "restate"}
    BY <1>8 DEF HeldInv
  <1> QED BY <1>2, <1>3, <1>4, <1>5, <1>6, <1>7, <1>8
      DEF Next, Worker, Environment, BeginTick, ScanIntents, EnsureCash, EndTick, PersistFill,
          LoadIntent, ReconcileFill, FinishReconcile, FinishApply, FlattenCancel, FlattenCancelled,
          ClosePosition, FlattenSnapshot, EndFlatten, Crash, PublishIntent, Command, Pause,
          Resume, Flatten, AdvanceClock, vars, tableVars, tickVars

\* Prices are small, and a cross is priced at the quotes it was decided on.
PricesInv ==
  /\ \A p \in DOMAIN intents : \A k \in DOMAIN intents[p].legs : SmallPrice(intents[p].legs[k].limit)
  /\ \A c \in DOMAIN quotes : SmallPrice(quotes[c].bid) /\ SmallPrice(quotes[c].ask)
  /\ \A a \in pending : a.kind = "place_cross" =>
       LET leg == intents[plan].legs[a.leg] IN
       a.price = CrossPrice(leg.side, quotes[leg.contract])

LEMMA DecidedCrosses ==
  ASSUME IInv, EvaluateIntent, NEW a \in pending', a.kind = "place_cross"
  PROVE  LET leg == intents[plan].legs[a.leg] IN
         a.price = CrossPrice(leg.side, quotes[leg.contract])
  <1>1. pending' = PlanDecision.actions
    BY DEF EvaluateIntent
  <1> DEFINE acts == LegActions(intents[plan], quotes, orders, PlanOrders(plan), now)
             cancels == ExpiryCancels(orders, PlanOrders(plan))
             d == EvaluateExecutionAction(intents[plan], quotes, orders, PlanOrders(plan),
                                            TRUE, now)
  <1>2. \/ d.actions = {}
        \/ d.actions = cancels
        \/ /\ d.actions = acts
           /\ ~NoCrossPrice(intents[plan], quotes, orders, PlanOrders(plan), now)
    BY DecisionCases
  <1>3. PlanDecision = d \/ PlanDecision.actions = {}
    BY DEF PlanDecision, Decision
  <1>4. \A b \in cancels : b.kind = "cancel"
    BY DEF ExpiryCancels, Cancel
  <1>5. ASSUME NEW b \in acts, b.kind = "place_cross"
        PROVE  LET leg == intents[plan].legs[b.leg] IN
               b.price = CrossPrice(leg.side, quotes[leg.contract])
    BY <1>5, LegActionCases DEF Place, Cancel
  <1> HIDE DEF acts, cancels, d
  <1> QED BY <1>1, <1>2, <1>3, <1>4, <1>5

LEMMA PricesStep == ASSUME SmallPrices, IInv, PricesInv, [Next]_vars PROVE PricesInv'
  <1>1. \A p \in DOMAIN intents' : \A k \in DOMAIN intents'[p].legs : SmallPrice(intents'[p].legs[k].limit)
    <2>1. CASE UNCHANGED intents
      BY <2>1 DEF PricesInv
    <2>2. ASSUME NEW p \in Plans, NEW payload \in Payloads, PublishIntent(p, payload)
          PROVE  \A q \in DOMAIN intents' : \A k \in DOMAIN intents'[q].legs :
                   SmallPrice(intents'[q].legs[k].limit)
      <3>1. /\ DOMAIN intents' = DOMAIN intents \cup {p}
            /\ intents'[p].legs = payload.legs
            /\ \A q \in DOMAIN intents : intents'[q] = intents[q] \/ q = p
        BY <2>2 DEF PublishIntent, Upsert
      <3> QED BY <3>1 DEF PricesInv, SmallPrices
    <2>3. UNCHANGED intents \/ \E p \in Plans, payload \in Payloads : PublishIntent(p, payload)
      BY DEF Next, Worker, Environment, BeginTick, ScanIntents, EnsureCash, EndTick, PersistFill,
           PersistPosition, PersistCash, LoadIntent, ReconcileFill, FinishReconcile,
           EvaluateIntent, ApplyNext, RestateCash, FinishApply, FlattenCancel, FlattenCancelled,
           ClosePosition, FlattenSnapshot, EndFlatten, Crash, Command, Pause, Resume, Flatten,
           AdvanceClock, vars, tableVars
    <2> QED BY <2>1, <2>2, <2>3
  <1>2. \/ UNCHANGED quotes
        \/ quotes' = NoQuotes
        \/ \E p \in Plans : LoadIntent(p)
        \/ \E c \in Contracts : ClosePosition(c)
    BY DEF Next, Worker, Environment, BeginTick, ScanIntents, EnsureCash, EndTick, PersistFill,
           PersistPosition, PersistCash, ReconcileFill, FinishReconcile,
           EvaluateIntent, ApplyNext, RestateCash, FinishApply, FlattenCancel, FlattenCancelled,
           FlattenSnapshot, EndFlatten, Crash, PublishIntent, Command, Pause, Resume, Flatten,
           AdvanceClock, vars, tickVars
  <1>3. \A c \in DOMAIN quotes' : SmallPrice(quotes'[c].bid) /\ SmallPrice(quotes'[c].ask)
    <2>1. CASE UNCHANGED quotes
      BY <2>1 DEF PricesInv
    <2>2. CASE quotes' = NoQuotes
      BY <2>2 DEF NoQuotes
    <2>3. ASSUME NEW p \in Plans, LoadIntent(p)
          PROVE  \A c \in DOMAIN quotes' : quotes'[c] \in Quotes
      <3>1. quotes' \in [ContractsOf(intents[p].legs) -> Quotes]
        BY <2>3 DEF LoadIntent
      <3> QED BY <3>1
    <2>4. ASSUME NEW d \in Contracts, ClosePosition(d)
          PROVE  \A c \in DOMAIN quotes' : quotes'[c] \in Quotes \/ (c \in DOMAIN quotes /\ quotes'[c] = quotes[c])
      <3>1. PICK quote \in Quotes : quotes' = Upsert(quotes, d, quote)
        BY <2>4 DEF ClosePosition
      <3> QED BY <3>1 DEF Upsert
    <2> QED BY <1>2, <2>1, <2>2, <2>3, <2>4 DEF PricesInv, SmallPrices
  <1>4. ASSUME NEW a \in pending', a.kind = "place_cross"
        PROVE  LET leg == intents'[plan'].legs[a.leg] IN
               a.price = CrossPrice(leg.side, quotes'[leg.contract])
    <2>1. CASE EvaluateIntent
      <3>1. UNCHANGED <<intents, plan, quotes>>
        BY <2>1 DEF EvaluateIntent
      <3> QED BY <1>4, <2>1, <3>1, DecidedCrosses
    <2>2. CASE pending' \subseteq pending /\ plan' = plan /\ plan \in DOMAIN intents
      <3>1. intents'[plan] = intents[plan]
        BY <2>2, IntentsKept
      <3>2. pc \notin {"next", "close"}
        BY <1>4, <2>2, NothingPending DEF IInv, TickInv, PendingInHand, Applying, Booking
      <3>3. UNCHANGED quotes
        <4>1. UNCHANGED quotes \/ (\E p \in Plans : LoadIntent(p)) \/ (\E c \in Contracts : ClosePosition(c))
              \/ FinishApply \/ EndFlatten \/ Crash
          BY DEF Next, Worker, Environment, BeginTick, ScanIntents, EnsureCash, EndTick, PersistFill,
               PersistPosition, PersistCash, ReconcileFill, FinishReconcile,
               EvaluateIntent, ApplyNext, RestateCash, FlattenCancel, FlattenCancelled,
               FlattenSnapshot, PublishIntent, Command, Pause, Resume, Flatten,
               AdvanceClock, vars, tickVars
        <4>2. ~FinishApply /\ ~Crash
          BY <1>4 DEF FinishApply, Crash
        <4>3. ~EndFlatten /\ (\A p \in Plans : ~LoadIntent(p)) /\ (\A c \in Contracts : ~ClosePosition(c))
          BY <3>2 DEF EndFlatten, LoadIntent, ClosePosition
        <4> QED BY <4>1, <4>2, <4>3
      <3>4. LET leg == intents[plan].legs[a.leg] IN
            a.price = CrossPrice(leg.side, quotes[leg.contract])
        BY <1>4, <2>2 DEF PricesInv
      <3> QED BY <2>2, <3>1, <3>3, <3>4
    <2> QED BY <1>4, <2>1, <2>2, PendingTaken
  <1> QED BY <1>1, <1>3, <1>4 DEF PricesInv

-----------------------------------------------------------------------------
(* Cash never falls short of the resting buys, but for rounding. *)

FlattenBought == \E i \in DOMAIN orders : orders[i].plan = OperatorFlatten /\ orders[i].side = "buy"

\* What the fill being booked will still take of the cash, twice, in units.
Owed ==
  IF Booking /\ orders[txn.order].side = "buy"
  THEN IF pc = "fill" THEN 2 * (txn.price * txn.size) ELSE 2 * (UnitsPerCent * FillCents)
  ELSE 0

\* Twice the cash free for new buys, in units, and the least it falls to.
Room == 2 * (UnitsPerCent * cash.balance - Reserve) - Owed
LeastRoom == 1 - 2 * UnitsPerCent - UnitsPerCent * Len(fills)
RoomInv == FlattenBought \/ Room >= LeastRoom

LEMMA RoomIs ==
  ASSUME TypeOK
  PROVE  /\ UnitsPerCent \in Nat \ {0} /\ cash.balance \in Int /\ UnitsPerCent * cash.balance \in Int
         /\ Reserve \in Nat
         /\ txn.price \in Nat /\ txn.size \in Nat /\ txn.price * txn.size \in Nat
         /\ FillCents \in Nat /\ UnitsPerCent * FillCents \in Nat
         /\ Owed \in Nat
         /\ Len(fills) \in Nat /\ UnitsPerCent * Len(fills) \in Nat
         /\ Room \in Int /\ LeastRoom \in Int /\ LeastRoom <= 1 - 2 * UnitsPerCent
  <1>1. UnitsPerCent \in Nat \ {0}
    BY MoneyAssumption
  <1>2. cash.balance \in Int
    BY DEF TypeOK, Cash
  <1>3. Reserve \in Nat
    BY ReserveIs
  <1>4. txn.price \in Nat /\ txn.size \in Nat
    BY DEF TypeOK
  <1>5. txn.price * txn.size \in Nat
    BY <1>4
  <1>6. FillCents \in Nat
    <2>1. PICK n \in Nat : n = txn.price * txn.size
      BY <1>5
    <2>2. FillCents = RoundDiv(n, UnitsPerCent)
      BY <2>1 DEF FillCents, RoundUsd
    <2> QED BY <1>1, <2>2, RoundDivInt
  <1>7. UnitsPerCent * FillCents \in Nat /\ UnitsPerCent * cash.balance \in Int
    BY <1>1, <1>2, <1>6
  <1>8. Owed \in Nat
    BY <1>5, <1>7 DEF Owed
  <1>9. Len(fills) \in Nat
    BY FillsAre
  <1>10. UnitsPerCent * Len(fills) \in Nat
    BY <1>1, <1>9
  <1>11. Room \in Int
    BY <1>3, <1>7, <1>8 DEF Room
  <1>12. LeastRoom \in Int /\ LeastRoom <= 1 - 2 * UnitsPerCent
    BY <1>1, <1>10 DEF LeastRoom
  <1> QED BY <1>1, <1>2, <1>3, <1>4, <1>5, <1>6, <1>7, <1>8, <1>9, <1>10, <1>11, <1>12

LEMMA InitRoom == Init => RoomInv /\ HeldInv /\ PricesInv
  <1> SUFFICES ASSUME Init PROVE RoomInv /\ HeldInv /\ PricesInv
    OBVIOUS
  <1>1. /\ pc = "idle" /\ pending = {} /\ DOMAIN intents = {} /\ DOMAIN quotes = {}
        /\ DOMAIN orders = {} /\ cash.balance = StartingCash /\ fills = <<>>
    BY DEF Init, NoQuotes, SeedCash
  <1>2. HeldInv /\ PricesInv
    BY <1>1 DEF HeldInv, PricesInv
  <1>3. TypeOK
    BY InitIInv DEF IInv
  <1>4. Reserve = 0
    <2>1. PICK f : f = [i \in OpenBuys(orders) |-> orders[i].remaining * orders[i].limit]
      OBVIOUS
    <2>2. DOMAIN f = {}
      BY <1>1, <2>1 DEF OpenBuys
    <2> QED BY <2>1, <2>2, TotalEmpty DEF Reserve
  <1>5. Owed = 0
    BY <1>1 DEF Owed, Booking
  <1>6. UnitsPerCent * cash.balance \in Nat
    BY <1>1, MoneyAssumption, BrokerAssumption
  <1>7. Room >= LeastRoom
    <2>1. Room = 2 * (UnitsPerCent * cash.balance)
      BY <1>4, <1>5, <1>6 DEF Room
    <2>2. Room >= 0
      BY <1>6, <2>1
    <2>3. LeastRoom <= 1 - 2 * UnitsPerCent /\ LeastRoom \in Int /\ Room \in Int
          /\ UnitsPerCent \in Nat \ {0}
      BY <1>3, RoomIs
    <2> QED BY <2>2, <2>3
  <1> QED BY <1>2, <1>7 DEF RoomInv

\* Nothing takes back the purchase of a flatten.
LEMMA FlattenBoughtStays == ASSUME IInv, [Next]_vars, FlattenBought PROVE FlattenBought'
  <1>1. PICK i \in DOMAIN orders : orders[i].plan = OperatorFlatten /\ orders[i].side = "buy"
    BY DEF FlattenBought
  <1>2. ASSUME NEW j, NEW row, Rewrites(j, row), row.plan = orders[j].plan, row.side = orders[j].side
        PROVE  FlattenBought'
    BY <1>1, <1>2 DEF Rewrites, FlattenBought
  <1>3. ASSUME NEW n, NEW row, Appends(n, row) PROVE FlattenBought'
    BY <1>1, <1>3 DEF Appends, FlattenBought
  <1>4. ASSUME NEW order \in Order, NEW size
        PROVE  /\ MergeFill(order, size).plan = order.plan /\ MergeFill(order, size).side = order.side
               /\ CancelOrder(order).plan = order.plan /\ CancelOrder(order).side = order.side
    BY DEF MergeFill, CancelOrder, Order
  <1>5. CASE UNCHANGED orders
    BY <1>5 DEF FlattenBought
  <1>6. CASE \E j \in DOMAIN orders, size \in Nat, price \in Nat : FillsResting(j, size, price)
    BY <1>2, <1>4, <1>6 DEF FillsResting
  <1>7. CASE \E j \in DOMAIN orders : CancelsOpen(j)
    BY <1>2, <1>4, <1>7 DEF CancelsOpen
  <1>8. CASE \E a \in pending, n \in Nat : Rests(a, n)
    BY <1>3, <1>8 DEF Rests
  <1>9. CASE \E a \in pending, n, price \in Nat : Crosses(a, n, price)
    BY <1>3, <1>9 DEF Crosses
  <1>10. CASE \E c \in Contracts, n, price \in Nat : Closes(c, n, price)
    BY <1>3, <1>10 DEF Closes
  <1> QED BY <1>5, <1>6, <1>7, <1>8, <1>9, <1>10, OrderWrites

\* A step that books no fill and writes no order leaves the room at least as it was.
LEMMA RoomKept ==
  ASSUME TypeOK, UNCHANGED fills, cash'.balance = cash.balance,
         Reserve' \in Nat, Reserve' <= Reserve, Owed' \in Nat, Owed' <= Owed,
         Room >= LeastRoom
  PROVE  Room' >= LeastRoom'
  <1>1. /\ UnitsPerCent * cash.balance \in Int /\ Reserve \in Nat /\ Owed \in Nat
        /\ UnitsPerCent \in Nat \ {0} /\ UnitsPerCent * Len(fills) \in Nat
    BY RoomIs
  <1>3. LeastRoom' = LeastRoom
    BY DEF LeastRoom
  <1>4. Room' = 2 * (UnitsPerCent * cash.balance - Reserve') - Owed'
    BY DEF Room
  <1>5. Room = 2 * (UnitsPerCent * cash.balance - Reserve) - Owed
    BY DEF Room
  <1>6. LeastRoom \in Int
    BY RoomIs
  <1> QED BY <1>1, <1>3, <1>4, <1>5, <1>6

LEMMA RoomUnwritten ==
  ASSUME IInv, IInv', HeldInv, [Next]_vars, UNCHANGED orders, Room >= LeastRoom
  PROVE  Room' >= LeastRoom'
  <1>1. Reserve' = Reserve
    BY DEF Reserve
  <1>2. TypeOK /\ TypeOK' /\ Reserve \in Nat
    BY RoomIs DEF IInv
  <1>3. CASE PersistFill
    <2>1. /\ pc = "fill" /\ pc' = "position" /\ UNCHANGED <<cash, txn>>
          /\ Len(fills') = Len(fills) + 1
      BY <1>2, <1>3, FillsAre DEF PersistFill
    <2>2. PICK u, n, k, m : /\ u = UnitsPerCent /\ n = Len(fills) /\ k = FillCents
                            /\ m = txn.price * txn.size
      OBVIOUS
    <2>3. u \in Nat \ {0} /\ n \in Nat /\ k \in Nat /\ m \in Nat /\ u * k \in Nat
      BY <1>2, <2>2, RoomIs
    <2>4. 2 * (u * k) <= 2 * m + u
      BY <2>2, <2>3, RoundDivNear DEF FillCents, RoundUsd
    <2>5. FillCents' = k
      BY <2>1, <2>2 DEF FillCents
    <2>6. Owed' <= Owed + u /\ Owed \in Nat /\ Owed' \in Nat
      <3>1. CASE orders[txn.order].side = "buy"
        <4>1. Owed = 2 * m
          BY <2>1, <2>2, <3>1 DEF Owed, Booking
        <4>2. Owed' = 2 * (u * k)
          BY <2>1, <2>2, <2>5, <3>1 DEF Owed, Booking
        <4> QED BY <2>3, <2>4, <4>1, <4>2
      <3>2. CASE orders[txn.order].side # "buy"
        <4>1. Owed = 0 /\ Owed' = 0
          BY <2>1, <3>2 DEF Owed
        <4> QED BY <2>3, <4>1
      <3> QED BY <3>1, <3>2
    <2>7. LeastRoom = 1 - 2 * u - u * n /\ LeastRoom' = 1 - 2 * u - u * (n + 1)
      BY <2>1, <2>2 DEF LeastRoom
    <2>8. u * (n + 1) = u * n + u /\ u * n \in Nat
      BY <2>3
    <2>9. Room' = 2 * (u * cash.balance - Reserve) - Owed'
      BY <1>1, <2>1, <2>2 DEF Room
    <2>10. Room = 2 * (u * cash.balance - Reserve) - Owed
      BY <2>2 DEF Room
    <2>11. u * cash.balance \in Int
      BY <1>2, <2>2, RoomIs
    <2> QED BY <1>2, <2>3, <2>6, <2>7, <2>8, <2>9, <2>10, <2>11
  <1>4. CASE PersistCash
    <2>1. /\ pc = "cash" /\ UNCHANGED fills /\ cash' = held /\ pc' = txn.back
      BY <1>4 DEF PersistCash
    <2>2. ~Booking'
      <3>1. txn.back \in {"reconcile", "apply", "close"}
        BY <1>2, <2>1 DEF IInv, TickInv, TxnInHand, Booking, TypeOK
      <3> QED BY <2>1, <3>1 DEF Booking
    <2>3. PICK u, k, b : u = UnitsPerCent /\ k = FillCents /\ b = cash.balance
      OBVIOUS
    <2>4. u \in Nat \ {0} /\ k \in Nat /\ b \in Int /\ u * k \in Nat /\ u * b \in Int
      BY <1>2, <2>3, RoomIs
    <2>5. Owed' = 0
      BY <2>2 DEF Owed
    <2>6. cash'.balance = b - TxnCents
      BY <2>1, <2>3 DEF HeldInv
    <2>7. Room = 2 * (u * b - Reserve) - Owed
      BY <2>3 DEF Room
    <2>8. Room' = 2 * (u * cash'.balance - Reserve)
      <3>1. u * cash'.balance \in Int
        <4>1. cash'.balance \in Int
          BY <1>2 DEF TypeOK, Cash
        <4> QED BY <2>4, <4>1
      <3>2. Room' = 2 * (u * cash'.balance - Reserve) - 0
        BY <1>1, <2>3, <2>5 DEF Room
      <3> QED BY <1>2, <3>1, <3>2
    <2>9. Room' >= Room
      <3>1. CASE orders[txn.order].side = "buy"
        <4>1. TxnCents = k /\ Owed = 2 * (u * k)
          BY <2>1, <2>3, <3>1 DEF TxnCents, SignedQuantity, Owed, Booking
        <4>2. u * (b - k) = u * b - u * k
          BY <2>4
        <4> QED BY <1>2, <2>4, <2>6, <2>7, <2>8, <4>1, <4>2
      <3>2. CASE orders[txn.order].side # "buy"
        <4>1. TxnCents = -k /\ Owed = 0
          BY <2>3, <3>2 DEF TxnCents, SignedQuantity, Owed
        <4>2. u * (b - (-k)) = u * b + u * k
          BY <2>4
        <4> QED BY <1>2, <2>4, <2>6, <2>7, <2>8, <4>1, <4>2
      <3> QED BY <3>1, <3>2
    <2>10. LeastRoom' = LeastRoom
      BY <2>1 DEF LeastRoom
    <2>11. Room \in Int /\ Room' \in Int /\ LeastRoom \in Int
      <3>1. Room \in Int /\ LeastRoom \in Int
        BY <1>2, RoomIs
      <3>2. u * cash'.balance \in Int
        <4>1. cash'.balance \in Int
          BY <1>2 DEF TypeOK, Cash
        <4> QED BY <2>4, <4>1
      <3> QED BY <1>2, <2>8, <3>1, <3>2
    <2> QED BY <2>9, <2>10, <2>11
  <1>5. CASE ~PersistFill /\ ~PersistCash
    <2>1. UNCHANGED fills /\ cash'.balance = cash.balance
      <3>1. CASE EnsureCash \/ FlattenCancelled \/ RestateCash
        <4>1. cash \in Cash /\ held \in Cash
          BY <1>2 DEF TypeOK
        <4>2. EnsureCash \/ FlattenCancelled => UNCHANGED fills /\ cash'.balance = cash.balance
          BY <4>1, RecomputeReserves DEF EnsureCash, FlattenCancelled
        <4>3. RestateCash => UNCHANGED fills /\ cash'.balance = held.balance
          BY <4>1, RecomputeReserves DEF RestateCash
        <4>4. RestateCash => held.balance = cash.balance
          BY DEF HeldInv, RestateCash
        <4> QED BY <3>1, <4>2, <4>3, <4>4
      <3>2. CASE ~(EnsureCash \/ FlattenCancelled \/ RestateCash)
        BY <1>5, <3>2 DEF Next, Worker, Environment, BeginTick, ScanIntents, EndTick,
           PersistPosition, LoadIntent, ReconcileFill, FinishReconcile, EvaluateIntent, ApplyNext,
           FinishApply, FlattenCancel, ClosePosition, FlattenSnapshot, EndFlatten, Crash,
           PublishIntent, Command, Pause, Resume, Flatten, AdvanceClock, vars, tableVars
      <3> QED BY <3>1, <3>2
    <2>2. Owed' <= Owed /\ Owed' \in Nat
      <3>1. Owed \in Nat
        BY <1>2, RoomIs
      <3>2. CASE ~Booking'
        <4>1. Owed' = 0
          BY <3>2 DEF Owed
        <4> QED BY <3>1, <4>1
      <3>3. CASE PersistPosition
        <4>1. pc = "position" /\ pc' = "cash" /\ UNCHANGED txn
          BY <3>3 DEF PersistPosition
        <4>2. Owed' = Owed
          BY <4>1 DEF Owed, Booking, FillCents
        <4> QED BY <3>1, <4>2
      <3>4. CASE UNCHANGED <<pc, txn>>
        <4>1. Owed' = Owed
          BY <3>4 DEF Owed, Booking, FillCents
        <4> QED BY <3>1, <4>1
      <3>5. ~ReconcileFill /\ (\A c \in Contracts : ~ClosePosition(c)) /\ (ApplyNext => UNCHANGED <<pc, txn>>)
        <4>1. \A x : Append(orders, x) # orders
          <5>1. orders \in Seq(Order)
            BY <1>2 DEF TypeOK
          <5>2. \A x : Len(Append(orders, x)) = Len(orders) + 1 /\ Len(orders) \in Nat
            BY <5>1
          <5> QED BY <5>2
        <4>2. \A c \in Contracts : ~ClosePosition(c)
          BY <4>1 DEF ClosePosition
        <4>3. ~ReconcileFill
          <5> SUFFICES ASSUME ReconcileFill PROVE FALSE
            OBVIOUS
          <5>1. PICK i \in DOMAIN orders, size \in Nat, price \in Nat : FillsResting(i, size, price)
            BY ReconcileWrites
          <5>2. orders[i].filled \in Nat /\ size \in Nat \ {0} /\ orders[i] \in Order
                /\ orders'[i] = MergeFill(orders[i], size)
            BY <1>2, <5>1, OrdersAre DEF FillsResting, Rewrites
          <5>3. orders'[i].filled = orders[i].filled + size
            BY <5>2 DEF MergeFill, Order
          <5> QED BY <5>2, <5>3
        <4>4. ApplyNext => UNCHANGED <<pc, txn>>
          <5> SUFFICES ASSUME ApplyNext PROVE UNCHANGED <<pc, txn>>
            OBVIOUS
          <5>1. PICK a \in pending : ApplyCancel(a) \/ ApplyUnaffordable(a) \/ ApplyPassive(a) \/ ApplyCross(a)
            BY DEF ApplyNext
          <5>2. ~ApplyPassive(a) /\ ~ApplyCross(a)
            BY <4>1 DEF ApplyPassive, ApplyCross
          <5>3. ~ApplyCancel(a)
            <6> SUFFICES ASSUME ApplyCancel(a) PROVE FALSE
              OBVIOUS
            <6>1. a.order \in OpenOrders
              BY <5>1 DEF ApplyCancel, IInv, TickInv, PendingInHand
            <6>2. a.order \in DOMAIN orders /\ orders[a.order].status = "open" /\ orders[a.order] \in Order
              BY <6>1, OpenIsOrder
            <6>3. orders'[a.order].status = "cancelled"
              BY <6>2, CancelOrderFields DEF ApplyCancel
            <6> QED BY <6>2, <6>3
          <5> QED BY <5>1, <5>2, <5>3 DEF ApplyUnaffordable
        <4> QED BY <4>2, <4>3, <4>4
      <3>6. ~Booking' \/ PersistPosition \/ UNCHANGED <<pc, txn>>
        BY <1>5, <3>5 DEF Next, Worker, Environment, BeginTick, ScanIntents, EnsureCash, EndTick,
           LoadIntent, FinishReconcile, EvaluateIntent, RestateCash, FinishApply, FlattenCancel,
           FlattenCancelled, FlattenSnapshot, EndFlatten, Crash,
           PublishIntent, Command, Pause, Resume, Flatten, AdvanceClock, vars, tickVars, Booking
      <3> QED BY <3>2, <3>3, <3>4, <3>6
    <2>3. Reserve' \in Nat /\ Reserve' <= Reserve
      BY <1>1, <1>2
    <2> QED BY <1>2, <2>1, <2>2, <2>3, RoomKept
  <1> QED BY <1>3, <1>4, <1>5

\* A resting buy that trades pays its limit at most, which it had reserved.
LEMMA RoomFills ==
  ASSUME IInv, IInv', OrderSizes, Room >= LeastRoom,
         NEW i \in DOMAIN orders, NEW size \in Nat, NEW price \in Nat, FillsResting(i, size, price)
  PROVE  Room' >= LeastRoom'
  <1>1. PICK row : row = MergeFill(orders[i], size)
    OBVIOUS
  <1>2. PICK r, limit : r = orders[i].remaining /\ limit = orders[i].limit
    OBVIOUS
  <1>3. /\ orders[i] \in Order /\ r \in Nat /\ limit \in Nat /\ i \in OpenOrders
        /\ orders[i].filled \in Nat /\ orders[i].requested \in Nat
        /\ r = orders[i].requested - orders[i].filled /\ size <= r
    <2>1. orders[i].status = "open"
      BY DEF FillsResting, OpenOrders
    <2> QED BY <1>2, <2>1, OrdersAre DEF FillsResting, OrderSizes, IInv
  <1>4. /\ row.side = orders[i].side /\ row.limit = limit /\ row.remaining = r - size
        /\ row.status = "open" \/ row.remaining = 0
    <2>1. PICK f \in Nat : f = orders[i].filled + size
      BY <1>3
    <2>2. /\ row.side = orders[i].side /\ row.limit = limit
          /\ row.remaining = MaxOf(0, orders[i].requested - f)
          /\ row.status = IF f >= orders[i].requested THEN "filled" ELSE "open"
      BY <1>1, <1>2, <1>3, <2>1 DEF MergeFill, Order
    <2>3. row.remaining = r - size
      BY <1>3, <2>1, <2>2 DEF MaxOf
    <2> QED BY <1>3, <2>1, <2>2, <2>3
  <1>5. Rewrites(i, row)
    BY <1>1 DEF FillsResting
  <1>6. Reserve' = IF row.side = "buy" THEN Reserve - r * limit + (r - size) * limit ELSE Reserve
    BY <1>2, <1>3, <1>4, <1>5, ReserveRewritten DEF IInv
  <1>7. /\ pc = "reconcile" /\ pc' = "fill" /\ UNCHANGED <<cash, fills>>
        /\ txn'.order = i /\ txn'.price = price /\ txn'.size = size
        /\ orders'[i].side = row.side
        /\ row.side = "buy" => price <= limit
    BY <1>2, <1>4, <1>5 DEF FillsResting, Rewrites
  <1>8. PICK b : b = UnitsPerCent * cash.balance
    OBVIOUS
  <1>9. b \in Int /\ Reserve \in Nat
    BY <1>8, RoomIs DEF IInv
  <1>10. Room = 2 * (b - Reserve)
    <2>1. Owed = 0
      BY <1>7 DEF Owed, Booking
    <2>2. Room = 2 * (b - Reserve) - 0
      BY <1>8, <2>1 DEF Room
    <2> QED BY <1>9, <2>2
  <1>11. Room' = 2 * (b - Reserve') - Owed'
    BY <1>7, <1>8 DEF Room
  <1>12. LeastRoom' = LeastRoom /\ LeastRoom \in Int
    BY <1>7, RoomIs DEF LeastRoom, IInv
  <1>13. CASE row.side = "buy"
    <2>1. Owed' = 2 * (price * size)
      BY <1>7, <1>13 DEF Owed, Booking
    <2>2. price * size <= limit * size
      BY <1>3, <1>7, <1>13
    <2>3. (r - size) * limit = r * limit - limit * size
      BY <1>3
    <2>4. r * limit \in Nat /\ limit * size \in Nat /\ price * size \in Nat
      BY <1>3
    <2>5. Reserve' = Reserve - limit * size
      BY <1>6, <1>9, <1>13, <2>3, <2>4
    <2> QED BY <1>9, <1>10, <1>11, <1>12, <2>1, <2>2, <2>4, <2>5
  <1>14. CASE row.side # "buy"
    <2>1. Owed' = 0 /\ Reserve' = Reserve
      BY <1>6, <1>7, <1>14 DEF Owed
    <2> QED BY <1>9, <1>10, <1>11, <1>12, <2>1
  <1> QED BY <1>13, <1>14

\* A cancelled buy gives back what it reserved.
LEMMA RoomCancels ==
  ASSUME IInv, IInv', Room >= LeastRoom, NEW i \in DOMAIN orders, CancelsOpen(i)
  PROVE  Room' >= LeastRoom'
  <1>1. PICK row : row = CancelOrder(orders[i])
    OBVIOUS
  <1>2. PICK r, limit : r = orders[i].remaining /\ limit = orders[i].limit
    OBVIOUS
  <1>3. orders[i] \in Order /\ r \in Nat /\ limit \in Nat /\ i \in OpenOrders /\ r * limit \in Nat
    BY <1>2, OrdersAre DEF CancelsOpen, IInv
  <1>4. row.side = orders[i].side /\ row.limit = limit /\ row.remaining = 0
    BY <1>1, <1>2, <1>3 DEF CancelOrder, Order
  <1>5. Rewrites(i, row)
    BY <1>1 DEF CancelsOpen
  <1>6. Reserve' = IF row.side = "buy" THEN Reserve - r * limit + 0 * limit ELSE Reserve
    BY <1>2, <1>3, <1>4, <1>5, ReserveRewritten DEF IInv
  <1>7. Reserve \in Nat
    BY RoomIs DEF IInv
  <1>8. 0 * limit = 0
    BY <1>3
  <1>9. Reserve' <= Reserve
    BY <1>3, <1>6, <1>7, <1>8
  <1>10. Reserve' \in Nat
    <2>1. TypeOK'
      BY DEF IInv
    <2>2. DOMAIN orders' = DOMAIN orders /\ IsFiniteSet(DOMAIN orders)
      BY OrdersAre DEF CancelsOpen, Rewrites, IInv
    <2>3. PICK g : g = [j \in OpenBuys(orders') |-> orders'[j].remaining * orders'[j].limit]
      OBVIOUS
    <2>4. \A j \in DOMAIN orders' : orders'[j].remaining \in Nat /\ orders'[j].limit \in Nat
      <3>1. orders' \in Seq(Order)
        BY <2>1 DEF TypeOK
      <3>2. \A j \in DOMAIN orders' : orders'[j] \in Order
        BY <3>1
      <3> QED BY <3>2 DEF Order
    <2>5. DOMAIN g \subseteq DOMAIN orders' /\ \A j \in DOMAIN g : g[j] \in Nat
      BY <2>3, <2>4 DEF OpenBuys
    <2>6. IsFiniteSet(DOMAIN g)
      BY <2>2, <2>5, FS_Subset
    <2>7. Total(g) \in Nat
      BY <2>5, <2>6, TotalNat
    <2> QED BY <2>3, <2>7 DEF Reserve
  <1>11. UNCHANGED <<cash, fills>> /\ ~Booking'
    BY DEF CancelsOpen, Booking
  <1>12. Owed' = 0 /\ Owed \in Nat
    BY <1>11, RoomIs DEF Owed, IInv
  <1> QED BY <1>9, <1>10, <1>11, <1>12, RoomKept DEF IInv

\* What a buy is cut to leaves the rounding of one size unit and of the reserve.
LEMMA CutLeavesRoom ==
  ASSUME IInv, HeldInv, pc = "apply",
         NEW size \in Nat, NEW limit \in Nat, limit < UnitsPerCent,
         NEW cut \in Nat, cut = AffordableSize("buy", size, limit, Available(held)), cut > 0
  PROVE  2 * (UnitsPerCent * cash.balance - Reserve) - 2 * (limit * cut) >= LeastRoom
  <1>1. TypeOK
    BY DEF IInv
  <1>2. PICK u, b, k, avail : /\ u = UnitsPerCent /\ b = cash.balance /\ k = ReservedNow
                              /\ avail = Available(held)
    OBVIOUS
  <1>3. /\ u \in Nat \ {0} /\ b \in Int /\ k \in Int /\ u * b \in Int /\ Reserve \in Nat
        /\ LeastRoom \in Int /\ LeastRoom <= 1 - 2 * u
    BY <1>1, <1>2, RoomIs, ReserveIs
  <1>4. avail = b - k
    BY <1>2 DEF Available, HeldInv
  <1>5. 2 * Reserve - u <= 2 * (u * k)
    BY <1>1, <1>2, <1>3, ReserveIs, RoundDivNearAbove DEF RoundUsd
  <1>6. 2 * (limit * cut) <= 2 * (u * avail) + limit
    BY <1>2, <1>3, <1>4, AffordableCosts
  <1>7. u * avail = u * b - u * k /\ u * k \in Int
    BY <1>3, <1>4
  <1>8. limit * cut \in Nat
    OBVIOUS
  <1> QED BY <1>2, <1>3, <1>5, <1>6, <1>7, <1>8

LEMMA RoomRests ==
  ASSUME IInv, IInv', HeldInv, PricesInv, Room >= LeastRoom,
         NEW a \in pending, NEW n \in Nat, Rests(a, n)
  PROVE  Room' >= LeastRoom'
  <1>1. PICK leg : leg = intents[plan].legs[a.leg]
    OBVIOUS
  <1>2. PICK row : row = Placed(plan, intents[plan].complex, leg, "passive", a.price, SizeFor(a))
    OBVIOUS
  <1>3. PICK cut \in Nat : cut = SizeFor(a) /\ cut > 0
    BY DEF Rests
  <1>4. /\ row.status = "open" /\ row.side = leg.side /\ row.remaining = cut /\ row.limit = a.price
        /\ row \in Order /\ Appends(n, row)
    BY <1>1, <1>2, <1>3 DEF Rests, Placed
  <1>5. /\ pc = "apply" /\ pc' = "restate" /\ UNCHANGED <<cash, fills>> /\ a.price \in Nat
        /\ plan \in DOMAIN intents /\ a.leg \in DOMAIN intents[plan].legs
    BY DEF Rests
  <1>6. Reserve' = IF leg.side = "buy" THEN Reserve + cut * a.price ELSE Reserve
    BY <1>4, ReserveAppended DEF IInv
  <1>7. Owed = 0 /\ Owed' = 0
    BY <1>5 DEF Owed, Booking
  <1>8. PICK b : b = UnitsPerCent * cash.balance
    OBVIOUS
  <1>9. b \in Int /\ Reserve \in Nat /\ LeastRoom \in Int
    BY <1>8, RoomIs DEF IInv
  <1>10. LeastRoom' = LeastRoom
    BY <1>5 DEF LeastRoom
  <1>11. Room = 2 * (b - Reserve) - 0 /\ Room' = 2 * (b - Reserve') - 0
    BY <1>5, <1>7, <1>8 DEF Room
  <1>12. CASE leg.side = "buy"
    <2>1. a.price < UnitsPerCent
      <3>1. a.price = leg.limit
        BY <1>1 DEF IInv, TickInv, PendingRests, Rests
      <3>2. SmallPrice(leg.limit)
        BY <1>1, <1>5 DEF PricesInv
      <3> QED BY <1>5, <3>1, <3>2, MoneyAssumption DEF SmallPrice
    <2>2. a.size \in Nat
      BY DEF IInv, TypeOK, LegAction
    <2>3. cut = AffordableSize("buy", a.size, a.price, Available(held))
      BY <1>1, <1>3, <1>12 DEF SizeFor
    <2>4. 2 * (b - Reserve) - 2 * (a.price * cut) >= LeastRoom
      BY <1>3, <1>5, <1>8, <2>1, <2>2, <2>3, CutLeavesRoom
    <2>5. cut * a.price = a.price * cut /\ a.price * cut \in Nat
      BY <1>5
    <2> QED BY <1>6, <1>9, <1>10, <1>11, <1>12, <2>4, <2>5
  <1>13. CASE leg.side # "buy"
    BY <1>6, <1>9, <1>10, <1>11, <1>13
  <1> QED BY <1>12, <1>13

LEMMA RoomCrosses ==
  ASSUME IInv, IInv', HeldInv, PricesInv, Room >= LeastRoom,
         NEW a \in pending, NEW n \in Nat, NEW price \in Nat, Crosses(a, n, price)
  PROVE  Room' >= LeastRoom'
  <1>1. PICK leg : leg = intents[plan].legs[a.leg]
    OBVIOUS
  <1>2. PICK row : row = Placed(plan, intents[plan].complex, leg, "cross", a.price, SizeFor(a))
    OBVIOUS
  <1>3. PICK cut \in Nat : cut = SizeFor(a) /\ cut > 0
    BY DEF Crosses
  <1>4. row.status = "filled" /\ row.side = leg.side /\ row \in Order /\ Appends(n, row)
    BY <1>1, <1>2, <1>3 DEF Crosses, Placed
  <1>5. /\ pc = "apply" /\ pc' = "fill" /\ UNCHANGED <<cash, fills>> /\ a.price \in Nat
        /\ leg.contract \in DOMAIN quotes
        /\ price = TakePrice(leg.side, quotes[leg.contract], a.price)
    BY <1>1 DEF Crosses
  <1>6. Reserve' = Reserve
    BY <1>4, ReserveAppended DEF IInv
  <1>7. txn'.order = n /\ txn'.price = price /\ txn'.size = cut /\ orders'[n].side = leg.side
    BY <1>3, <1>4 DEF Crosses, Appends
  <1>8. PICK b : b = UnitsPerCent * cash.balance
    OBVIOUS
  <1>9. b \in Int /\ Reserve \in Nat /\ LeastRoom \in Int
    BY <1>8, RoomIs DEF IInv
  <1>10. LeastRoom' = LeastRoom
    BY <1>5 DEF LeastRoom
  <1>11. Owed = 0
    BY <1>5 DEF Owed, Booking
  <1>12. Room = 2 * (b - Reserve) - 0 /\ Room' = 2 * (b - Reserve) - Owed'
    BY <1>5, <1>6, <1>8, <1>11 DEF Room
  <1>13. CASE leg.side = "buy"
    <2>1. /\ a.price = CrossPrice("buy", quotes[leg.contract])
          /\ a.size \in Nat /\ quotes[leg.contract] \in Quote
          /\ SmallPrice(quotes[leg.contract].bid) /\ SmallPrice(quotes[leg.contract].ask)
      BY <1>1, <1>5, <1>13 DEF Crosses, PricesInv, IInv, TypeOK, LegAction
    <2>2. PICK quote : quote = quotes[leg.contract]
      OBVIOUS
    <2>3. a.price # Null
      BY <1>5, MoneyAssumption
    <2>4. a.price = Coalesce(Coalesce(quote.ask, quote.bid), Null)
      BY <2>1, <2>2, <2>3 DEF CrossPrice, TakePrice
    <2>5. a.price = price
      BY <1>5, <1>13, <2>2, <2>3, <2>4 DEF TakePrice, Coalesce
    <2>6. a.price < UnitsPerCent
      BY <2>1, <2>2, <2>3, <2>4 DEF Coalesce, SmallPrice
    <2>7. cut = AffordableSize("buy", a.size, a.price, Available(held))
      BY <1>1, <1>3, <1>13 DEF SizeFor
    <2>8. 2 * (b - Reserve) - 2 * (a.price * cut) >= LeastRoom
      BY <1>3, <1>5, <1>8, <2>1, <2>6, <2>7, CutLeavesRoom
    <2>9. Owed' = 2 * (price * cut)
      BY <1>5, <1>7, <1>13 DEF Owed, Booking
    <2> QED BY <1>9, <1>10, <1>12, <2>5, <2>8, <2>9
  <1>14. CASE leg.side # "buy"
    <2>1. Owed' = 0
      BY <1>7, <1>14 DEF Owed
    <2> QED BY <1>9, <1>10, <1>12, <2>1
  <1> QED BY <1>13, <1>14

LEMMA RoomCloses ==
  ASSUME IInv, IInv', Room >= LeastRoom,
         NEW c \in Contracts, NEW n \in Nat, NEW price \in Nat, Closes(c, n, price)
  PROVE  RoomInv'
  <1>1. PICK side, size : /\ side = (IF positions[c].qty > 0 THEN "sell" ELSE "buy")
                          /\ size = Abs(positions[c].qty)
    OBVIOUS
  <1>2. PICK row : row = Placed(OperatorFlatten, positions[c].complex,
                                [contract |-> c, side |-> side], "cross", price, size)
    OBVIOUS
  <1>3. /\ row.plan = OperatorFlatten /\ row.side = side /\ row.status = "filled"
        /\ row \in Order /\ Appends(n, row)
    BY <1>1, <1>2 DEF Closes, Placed
  <1>4. n \in DOMAIN orders' /\ orders'[n] = row
    BY <1>3 DEF Appends
  <1>5. CASE side = "buy"
    BY <1>3, <1>4, <1>5 DEF RoomInv, FlattenBought
  <1>6. CASE side # "buy"
    <2>1. Reserve' = Reserve
      BY <1>3, <1>6, ReserveAppended DEF IInv
    <2>2. UNCHANGED <<cash, fills>> /\ txn'.order = n
      BY DEF Closes
    <2>3. Owed' = 0
      BY <1>3, <1>4, <1>6, <2>2 DEF Owed
    <2>4. Reserve \in Nat /\ Owed \in Nat
      BY RoomIs DEF IInv
    <2> QED BY <2>1, <2>2, <2>3, <2>4, RoomKept DEF RoomInv, IInv
  <1> QED BY <1>5, <1>6

LEMMA RoomStep ==
  ASSUME IInv, IInv', OrderSizes, HeldInv, PricesInv, RoomInv, [Next]_vars PROVE RoomInv'
  <1>1. CASE FlattenBought
    BY <1>1, FlattenBoughtStays DEF RoomInv
  <1>2. CASE ~FlattenBought
    <2>1. Room >= LeastRoom
      BY <1>2 DEF RoomInv
    <2>2. CASE UNCHANGED orders
      BY <2>1, <2>2, RoomUnwritten DEF RoomInv
    <2>3. CASE \E i \in DOMAIN orders, size \in Nat, price \in Nat : FillsResting(i, size, price)
      BY <2>1, <2>3, RoomFills DEF RoomInv
    <2>4. CASE \E i \in DOMAIN orders : CancelsOpen(i)
      BY <2>1, <2>4, RoomCancels DEF RoomInv
    <2>5. CASE \E a \in pending, n \in Nat : Rests(a, n)
      BY <2>1, <2>5, RoomRests DEF RoomInv
    <2>6. CASE \E a \in pending, n, price \in Nat : Crosses(a, n, price)
      BY <2>1, <2>6, RoomCrosses DEF RoomInv
    <2>7. CASE \E c \in Contracts, n, price \in Nat : Closes(c, n, price)
      BY <2>1, <2>7, RoomCloses
    <2> QED BY <2>2, <2>3, <2>4, <2>5, <2>6, <2>7, OrderWrites
  <1> QED BY <1>1, <1>2

LEMMA RoomEnough == ASSUME IInv, RoomInv PROVE NoOverdraft
  <1>1. CASE FlattenBought
    BY <1>1 DEF FlattenBought, NoOverdraft
  <1>2. CASE ~FlattenBought
    <2>1. PICK u, b, k, n : /\ u = UnitsPerCent /\ b = cash.balance /\ k = ReservedNow
                            /\ n = Len(fills)
      OBVIOUS
    <2>2. /\ u \in Nat \ {0} /\ b \in Int /\ k \in Int /\ n \in Nat
          /\ Reserve \in Nat /\ Owed \in Nat /\ u * b \in Int /\ u * n \in Nat
      BY <2>1, RoomIs, ReserveIs DEF IInv
    <2>3. 2 * (u * b - Reserve) - Owed >= 1 - 2 * u - u * n
      BY <1>2, <2>1 DEF RoomInv, Room, LeastRoom
    <2>4. 2 * (u * k) <= 2 * Reserve + u
      BY <2>1, <2>2, ReserveIs, RoundDivNear DEF RoundUsd, IInv
    <2>5. u * k \in Int
      BY <2>2
    <2>6. 2 * (u * b) - 2 * (u * k) + 3 * u + u * n >= 1
      BY <2>2, <2>3, <2>4, <2>5
    <2>7. PICK m \in Int : m = 2 * (b - k) + n + 3
      BY <2>2
    <2>8. u * m = 2 * (u * b) - 2 * (u * k) + u * n + 3 * u
      BY <2>2, <2>7
    <2>9. u * m >= 1
      BY <2>2, <2>5, <2>6, <2>8
    <2>10. m >= 1
      BY <2>2, <2>7, <2>9
    <2>11. 2 * (b - k) >= -(n + 2)
      BY <2>2, <2>7, <2>10
    <2> QED BY <2>1, <2>11 DEF NoOverdraft
  <1> QED BY <1>1, <1>2

\* Cash net of the resting buys never goes below zero by more than rounding, as
\* long as no flatten has bought back a short: a buy, resting or crossing, is cut
\* to what the cash held in memory leaves, which is the stored row of that moment,
\* and pays its limit at most. SmallPrices says that one size unit costs less than
\* a cent, which sizes with six decimals and prices below a dollar give.
THEOREM NeverOverdrawn == ASSUME SmallPrices PROVE Spec => []NoOverdraft
  <1> DEFINE Inv == IInv /\ LegsInv /\ HeldInv /\ PricesInv /\ RoomInv
  <1>1. IInv /\ IInv' /\ LegsInv /\ HeldInv /\ [Next]_vars => HeldInv'
    BY HeldStep
  <1>2. IInv /\ PricesInv /\ [Next]_vars => PricesInv'
    BY PricesStep
  <1>3. IInv /\ IInv' /\ LegsInv /\ HeldInv /\ PricesInv /\ RoomInv /\ [Next]_vars => RoomInv'
    BY RoomStep DEF LegsInv
  <1>4. IInv /\ RoomInv => NoOverdraft
    BY RoomEnough
  <1> QED BY <1>1, <1>2, <1>3, <1>4, InitRoom, LegsInvariance, Invariance, PTL DEF Spec

-----------------------------------------------------------------------------
(* The worker's rows tell of a paper account: ImplementsAccount. *)

\* The account sums and rounds as the worker does.
LEMMA AccountSums == ASSUME NEW f PROVE Account!Total(f) = Total(f)
  BY DEF Account!Total, Total, Account!SumFunction, SumFunction, Account!SumFunctionOnSet,
         SumFunctionOnSet, Account!FoldFunctionOnSet, FoldFunctionOnSet,
         Account!MapThenFoldSet, MapThenFoldSet

LEMMA AccountRounds == ASSUME NEW n PROVE Account!RoundUsd(n) = RoundUsd(n)
  BY DEF Account!RoundUsd, RoundUsd, Account!RoundDiv, RoundDiv

\* A larger notional never rounds to fewer cents.
LEMMA RoundUsdMonotone ==
  ASSUME NEW m \in Nat, NEW n \in Nat, m <= n PROVE RoundUsd(m) <= RoundUsd(n)
  <1>1. PICK u \in Nat \ {0} : u = UnitsPerCent
    BY MoneyAssumption
  <1>2. ASSUME NEW a \in Nat, NEW b \in Nat, a <= b PROVE a \div (2 * u) <= b \div (2 * u)
    <2>1. PICK d \in Nat \ {0} : d = 2 * u
      OBVIOUS
    <2>2. a \div d <= b \div d
      BY <1>2
    <2> QED BY <2>1, <2>2
  <1>3. 2 * m + u \in Nat /\ 2 * n + u \in Nat /\ 2 * m + u <= 2 * n + u
    OBVIOUS
  <1>4. (2 * m + u) \div (2 * u) <= (2 * n + u) \div (2 * u)
    BY <1>2, <1>3
  <1> QED BY <1>1, <1>4 DEF RoundUsd, RoundDiv

\* A sequence is what comes before its last element, and that element.
LEMMA LastAppended ==
  ASSUME NEW S, NEW s \in Seq(S), Len(s) > 0
  PROVE  /\ SubSeq(s, 1, Len(s) - 1) \in Seq(S)
         /\ Len(SubSeq(s, 1, Len(s) - 1)) = Len(s) - 1
         /\ \A i \in 1 .. Len(s) - 1 : SubSeq(s, 1, Len(s) - 1)[i] = s[i]
         /\ s = Append(SubSeq(s, 1, Len(s) - 1), s[Len(s)])
  <1>1. PICK n \in Nat : n = Len(s) /\ n > 0
    OBVIOUS
  <1>2. PICK t : t = SubSeq(s, 1, n - 1)
    OBVIOUS
  <1>3. t \in Seq(S) /\ Len(t) = n - 1 /\ \A i \in 1 .. n - 1 : t[i] = s[i]
    BY <1>1, <1>2
  <1>4. s = Append(t, s[n])
    BY <1>1, <1>3
  <1> QED BY <1>1, <1>2, <1>3, <1>4

LEMMA AppendedCut ==
  ASSUME NEW S, NEW s \in Seq(S), NEW x \in S
  PROVE  /\ Len(Append(s, x)) = Len(s) + 1
         /\ SubSeq(Append(s, x), 1, Len(Append(s, x)) - 1) = s
         /\ Append(s, x)[Len(Append(s, x))] = x
  <1>1. PICK t : t = Append(s, x)
    OBVIOUS
  <1>2. t \in Seq(S) /\ Len(t) = Len(s) + 1 /\ t[Len(t)] = x /\ \A i \in 1 .. Len(s) : t[i] = s[i]
    BY <1>1
  <1>3. SubSeq(t, 1, Len(s)) = s
    BY <1>2
  <1> QED BY <1>1, <1>2, <1>3

\* A new order goes to the end of the rows.
LEMMA AppendsLast ==
  ASSUME IInv, IInv', NEW n, NEW row, Appends(n, row)
  PROVE  n = Len(orders) + 1 /\ Len(orders') = n /\ row \in Order /\ orders' = Append(orders, row)
  <1>1. PICK k, m \in Nat : k = Len(orders) /\ m = Len(orders')
    BY DEF IInv, TypeOK
  <1>2. /\ orders \in Seq(Order) /\ orders' \in Seq(Order)
        /\ DOMAIN orders = 1 .. k /\ DOMAIN orders' = 1 .. m
    BY <1>1 DEF IInv, TypeOK
  <1>3. n \in Nat /\ n \notin 1 .. k /\ 1 .. m = (1 .. k) \cup {n}
    BY <1>2 DEF Appends
  <1>4. n = k + 1 /\ m = k + 1
    <2>1. n \in 1 .. m
      BY <1>3
    <2>2. n >= k + 1 /\ n <= m
      BY <1>3, <2>1
    <2>3. k + 1 \in 1 .. m
      BY <1>1, <1>3, <2>2
    <2>4. n = k + 1
      BY <1>1, <1>3, <2>3
    <2>5. m \in 1 .. m
      BY <1>1, <1>3, <2>2
    <2>6. m \in 1 .. k \/ m = n
      BY <1>3, <2>5
    <2> QED BY <1>1, <2>2, <2>4, <2>6
  <1>5. orders'[n] = row /\ \A j \in 1 .. k : orders'[j] = orders[j]
    BY <1>2 DEF Appends
  <1>6. row \in Order
    BY <1>2, <1>3, <1>5
  <1>7. orders' = Append(orders, row)
    BY <1>1, <1>2, <1>4, <1>5, <1>6
  <1> QED BY <1>1, <1>4, <1>6, <1>7

-----------------------------------------------------------------------------
(* The account's view of the rows. *)

\* The account calls an order open when its row says so.
LEMMA OpenMeans ==
  ASSUME NEW row
  PROVE  (AccountOrder(row).open <=> row.status = "open") /\ AccountOrder(row).open \in BOOLEAN
  BY Zenon DEF AccountOrder

\* Outside a booking the account has every row.
LEMMA OrdersIdle ==
  ASSUME ~Booking
  PROVE  /\ OrdersBooked = orders
         /\ AccountOrders = [j \in DOMAIN orders |-> AccountOrder(orders[j])]
  BY DEF OrdersBooked, AccountOrders

\* A resting order as it was before a fill of that size.
RestingBefore(row, size) ==
  [plan |-> row.plan, contract |-> row.contract, side |-> row.side, limit |-> row.limit,
   size |-> row.requested, filled |-> row.filled - size, open |-> TRUE]

\* A resting order whose trade is being booked still is what it was.
LEMMA OrdersResting ==
  ASSUME IInv, Booking, txn.back = "reconcile"
  PROVE  /\ txn.order \in DOMAIN orders /\ DOMAIN AccountOrders = DOMAIN orders
         /\ \A j \in DOMAIN orders : j # txn.order => AccountOrders[j] = AccountOrder(orders[j])
         /\ AccountOrders[txn.order] = RestingBefore(orders[txn.order], txn.size)
  <1>1. PICK i : i = txn.order
    OBVIOUS
  <1>2. i \in DOMAIN orders /\ orders \in Seq(Order) /\ orders[i] \in Order
    BY <1>1 DEF IInv, TickInv, TxnInHand, TypeOK
  <1>3. PICK book : book = [orders EXCEPT ![i].filled = @ - txn.size, ![i].status = "open"]
    OBVIOUS
  <1>4. AccountOrders = [j \in DOMAIN book |-> AccountOrder(book[j])]
    BY <1>1, <1>3 DEF AccountOrders, OrdersBooked
  <1>5. /\ DOMAIN book = DOMAIN orders
        /\ \A j \in DOMAIN orders : j # i => book[j] = orders[j]
        /\ book[i] = [orders[i] EXCEPT !.filled = @ - txn.size, !.status = "open"]
    BY <1>2, <1>3
  <1>6. AccountOrder(book[i]) = RestingBefore(orders[i], txn.size)
    <2>1. PICK row, left : row = orders[i] /\ left = row.filled - txn.size
      OBVIOUS
    <2>2. DOMAIN row = {"plan", "contract", "complex", "side", "style", "limit", "requested",
                        "status", "filled", "remaining"}
      BY <1>2, <2>1 DEF Order
    <2>3. book[i] = [row EXCEPT !.filled = left, !.status = "open"]
      BY <1>5, <2>1
    <2>4. /\ book[i].plan = row.plan /\ book[i].contract = row.contract
          /\ book[i].side = row.side /\ book[i].limit = row.limit
          /\ book[i].requested = row.requested
          /\ book[i].filled = left /\ book[i].status = "open"
      BY <2>2, <2>3
    <2>5. AccountOrder(book[i]) =
            [plan |-> row.plan, contract |-> row.contract, side |-> row.side,
             limit |-> row.limit, size |-> row.requested, filled |-> left, open |-> TRUE]
      BY <2>4 DEF AccountOrder
    <2> QED BY <2>1, <2>5 DEF RestingBefore
  <1> QED BY <1>1, <1>2, <1>4, <1>5, <1>6

\* A new order whose trade is being booked is not there yet.
LEMMA OrdersNew ==
  ASSUME IInv, Booking, txn.back # "reconcile"
  PROVE  /\ orders \in Seq(Order) /\ Len(orders) \in Nat \ {0}
         /\ DOMAIN AccountOrders = 1 .. Len(orders) - 1
         /\ \A j \in 1 .. Len(orders) - 1 : AccountOrders[j] = AccountOrder(orders[j])
  <1>1. txn.order \in DOMAIN orders /\ orders \in Seq(Order)
    BY DEF IInv, TickInv, TxnInHand, TypeOK
  <1>2. PICK n : n = Len(orders)
    OBVIOUS
  <1>3. n \in Nat \ {0}
    BY <1>1, <1>2
  <1>4. PICK book : book = SubSeq(orders, 1, n - 1)
    OBVIOUS
  <1>5. book \in Seq(Order) /\ Len(book) = n - 1 /\ \A j \in 1 .. n - 1 : book[j] = orders[j]
    BY <1>1, <1>2, <1>3, <1>4, LastAppended
  <1>6. AccountOrders = [j \in DOMAIN book |-> AccountOrder(book[j])]
    BY <1>2, <1>4 DEF AccountOrders, OrdersBooked
  <1>7. DOMAIN book = 1 .. n - 1
    BY <1>3, <1>5
  <1> QED BY <1>1, <1>2, <1>3, <1>5, <1>6, <1>7

\* The account does not see a booking begin.
LEMMA FillsRestingUnseen ==
  ASSUME IInv, NEW i \in DOMAIN orders, NEW size \in Nat, NEW price \in Nat,
         FillsResting(i, size, price)
  PROVE  AccountOrders' = AccountOrders
  <1>1. /\ ~Booking /\ Booking' /\ txn'.order = i /\ txn'.size = size
        /\ txn'.back = "reconcile"
    BY DEF FillsResting, Booking
  <1>2. /\ orders \in Seq(Order) /\ orders[i] \in Order /\ orders[i].status = "open"
        /\ orders[i].filled \in Nat
    BY OrdersAre DEF IInv, FillsResting, OpenOrders
  <1>3. /\ DOMAIN orders' = DOMAIN orders
        /\ orders'[i] = MergeFill(orders[i], size)
        /\ \A j \in DOMAIN orders : j # i => orders'[j] = orders[j]
    BY DEF FillsResting, Rewrites
  <1>4. PICK book : book = [orders' EXCEPT ![i].filled = @ - size, ![i].status = "open"]
    OBVIOUS
  <1>5. AccountOrders' = [j \in DOMAIN book |-> AccountOrder(book[j])]
    BY <1>1, <1>4 DEF AccountOrders, OrdersBooked, AccountOrder
  <1>6. DOMAIN orders = DOMAIN book /\ \A j \in DOMAIN orders : j # i => book[j] = orders[j]
    BY <1>3, <1>4
  <1>7. AccountOrder(book[i]) = AccountOrder(orders[i])
    <2>1. PICK row, f : row = MergeFill(orders[i], size) /\ f = orders[i].filled + size
      OBVIOUS
    <2>2. f - size = orders[i].filled
      BY <1>2, <2>1
    <2>3. /\ row.plan = orders[i].plan /\ row.contract = orders[i].contract
          /\ row.side = orders[i].side /\ row.limit = orders[i].limit
          /\ row.requested = orders[i].requested /\ row.filled = f
          /\ DOMAIN row = DOMAIN orders[i]
      BY <1>2, <2>1 DEF MergeFill, Order
    <2>4. book[i] = [row EXCEPT !.filled = @ - size, !.status = "open"]
      BY <1>3, <1>4, <2>1
    <2>5. DOMAIN orders[i] = {"plan", "contract", "complex", "side", "style", "limit", "requested",
                              "status", "filled", "remaining"}
      BY <1>2 DEF Order
    <2>6. /\ book[i].plan = row.plan /\ book[i].contract = row.contract
          /\ book[i].side = row.side /\ book[i].limit = row.limit
          /\ book[i].requested = row.requested
          /\ book[i].filled = f - size /\ book[i].status = "open"
      BY <2>3, <2>4, <2>5
    <2> QED BY <1>2, <2>2, <2>3, <2>6 DEF AccountOrder
  <1>8. AccountOrders = [j \in DOMAIN orders |-> AccountOrder(orders[j])]
    BY <1>1, OrdersIdle
  <1> QED BY <1>5, <1>6, <1>7, <1>8

LEMMA NewOrderUnseen ==
  ASSUME IInv, IInv', NEW n, NEW row, Appends(n, row),
         ~Booking, Booking', txn'.back # "reconcile"
  PROVE  AccountOrders' = AccountOrders
  <1>1. orders \in Seq(Order) /\ row \in Order /\ orders' = Append(orders, row)
    BY AppendsLast DEF IInv, TypeOK
  <1>2. OrdersBooked' = SubSeq(orders', 1, Len(orders') - 1)
    BY DEF OrdersBooked
  <1>3. OrdersBooked' = orders
    BY <1>1, <1>2, AppendedCut
  <1> QED BY <1>3, OrdersIdle DEF AccountOrders, AccountOrder

-----------------------------------------------------------------------------
(* The fill in hand. *)

\* The order of the fill in hand, as the account sees it.
OrderInHand == AccountOrder(orders[txn.order])

\* A resting order was filled within its size and its limit.
RestingInHand ==
  Booking /\ txn.back = "reconcile" =>
    LET order == orders[txn.order] IN
    /\ txn.size > 0 /\ txn.size <= order.filled
    /\ order.status = "open" <=> order.filled < order.requested
    /\ order.side = "buy" => txn.price <= order.limit
    /\ order.side = "sell" => order.limit <= txn.price

\* A new order is the newest, and filled.
NewInHand ==
  Booking /\ txn.back # "reconcile" =>
    /\ txn.order = Len(orders) /\ txn.size > 0
    /\ orders[txn.order].status = "filled"
    /\ orders[txn.order].filled = txn.size /\ orders[txn.order].requested = txn.size

\* A cross was placed within the mandate of its plan.
MandateInHand == Booking /\ txn.back = "apply" => Account!WithinMandate(OrderInHand)

\* An order of a flatten takes the position to zero.
ClosingInHand ==
  Booking /\ txn.back = "close" =>
    Account!ClosesPosition(OrderInHand) /\ orders[txn.order].contract \notin toClose

\* The fill row was written last.
FillInHand ==
  pc \in {"position", "cash"} => Len(fills) > 0 /\ fills[Len(fills)] = TxnFill

\* Positions are to be closed by a flatten only, and are not flat.
OpenToClose ==
  /\ toClose # {} => pc = "close" \/ (Booking /\ txn.back = "close")
  /\ \A c \in toClose : positions[c].qty # 0

HandInv == RestingInHand /\ NewInHand /\ MandateInHand /\ ClosingInHand /\ FillInHand /\ OpenToClose

\* A step into a booking places or fills an order, any other leaves it alone.
LEMMA BookingBegins ==
  ASSUME IInv, [Next]_vars, Booking'
  PROVE  \/ \E i \in DOMAIN orders, size \in Nat, price \in Nat : FillsResting(i, size, price)
         \/ \E a \in pending, n, price \in Nat : Crosses(a, n, price)
         \/ \E c \in Contracts, n, price \in Nat : Closes(c, n, price)
         \/ Booking /\ UNCHANGED <<orders, txn, toClose>>
  <1>1. pc' \in {"fill", "position", "cash"}
    BY DEF Booking
  <1>2. PersistCash => FALSE
    <2>1. txn.back \in {"idle", "reconcile", "apply", "close"}
      BY DEF IInv, TypeOK
    <2> QED BY <1>1, <2>1 DEF PersistCash
  <1>3. \/ ReconcileFill \/ ApplyNext \/ \E c \in Contracts : ClosePosition(c)
        \/ Booking /\ UNCHANGED <<orders, txn, toClose>>
    BY <1>1, <1>2
    DEF Booking, Next, Worker, Environment, BeginTick, ScanIntents, EnsureCash, EndTick, PersistFill,
        PersistPosition, LoadIntent, FinishReconcile, EvaluateIntent, RestateCash,
        FinishApply, FlattenCancel, FlattenCancelled, FlattenSnapshot, EndFlatten, Crash,
        PublishIntent, Command, Pause, Resume, Flatten, AdvanceClock, vars, tableVars, tickVars
  <1>4. CASE ReconcileFill
    BY <1>4, ReconcileWrites
  <1>5. CASE ApplyNext
    <2>1. \A i \in DOMAIN orders : ~CancelsOpen(i)
      BY <1>1 DEF CancelsOpen
    <2>2. \A a \in pending, n \in Nat : ~Rests(a, n)
      BY <1>1 DEF Rests
    <2>3. ~(UNCHANGED <<pc, orders, held, txn>> /\ pc = "apply")
      BY <1>1
    <2> QED BY <1>5, <2>1, <2>2, <2>3, ApplyWrites
  <1>6. CASE \E c \in Contracts : ClosePosition(c)
    BY <1>6, CloseWrites
  <1> QED BY <1>3, <1>4, <1>5, <1>6

\* In the middle of a booking the account stays as it is.
LEMMA BookingUnseen ==
  ASSUME IInv, [Next]_vars, Booking, Booking'
  PROVE  /\ UNCHANGED <<orders, txn, toClose, cash, crashes>> /\ AccountOrders' = AccountOrders
         /\ \A c \in Contracts : QuantityOf(c)' - BookedEarly(c)' = QuantityOf(c) - BookedEarly(c)
         /\ \A c \in DOMAIN positions : positions'[c] = positions[c] \/ c = orders[txn.order].contract
  <1>1. UNCHANGED <<orders, txn, toClose>>
    <2>1. pc \in {"fill", "position", "cash"}
      BY DEF Booking
    <2> QED BY <2>1, BookingBegins DEF FillsResting, Crosses, Closes
  <1>2. AccountOrders' = AccountOrders
    BY <1>1 DEF AccountOrders, OrdersBooked, AccountOrder
  <1>3. \/ PersistFill \/ PersistPosition \/ UNCHANGED <<pc, fills, positions, cash, crashes>>
    <2>1. pc \in {"fill", "position", "cash"} /\ pc' \in {"fill", "position", "cash"}
      BY DEF Booking
    <2>2. txn.back \in {"idle", "reconcile", "apply", "close"}
      BY DEF IInv, TypeOK
    <2> QED BY <2>1, <2>2
        DEF Next, Worker, Environment, BeginTick, ScanIntents, EnsureCash, EndTick,
        PersistCash, LoadIntent, ReconcileFill, FinishReconcile, EvaluateIntent, ApplyNext,
        RestateCash, FinishApply, FlattenCancel, FlattenCancelled, ClosePosition, FlattenSnapshot,
        EndFlatten, Crash, PublishIntent, Command, Pause, Resume, Flatten, AdvanceClock, vars,
        tableVars, tickVars, envVars
  <1>4. CASE PersistFill
    BY <1>1, <1>2, <1>4 DEF PersistFill, QuantityOf, BookedEarly, envVars
  <1>5. CASE PersistPosition
    <2>1. /\ pc = "position" /\ pc' = "cash" /\ UNCHANGED <<cash, crashes>>
          /\ positions' = Upsert(positions, orders[txn.order].contract,
               RealizeAgainstPosition(PositionOf(orders[txn.order].contract,
                                                 orders[txn.order].complex),
                                      orders[txn.order].side, txn.size, txn.price))
      BY <1>5 DEF PersistPosition, envVars
    <2>2. ASSUME NEW c \in Contracts
          PROVE  QuantityOf(c)' - BookedEarly(c)' = QuantityOf(c) - BookedEarly(c)
      <3>1. QuantityOf(c)' = QuantityOf(c) + (IF orders[txn.order].contract = c
                                              THEN TxnQuantity ELSE 0)
        BY <2>1, PositionMoves
      <3>2. QuantityOf(c) \in Int
        BY DEF QuantityOf, IInv, TypeOK, Position
      <3>3. TxnQuantity \in Int
        BY SignedInt DEF TxnQuantity, IInv, TypeOK
      <3>4. BookedEarly(c) = 0
        BY <2>1 DEF BookedEarly
      <3>5. BookedEarly(c)' = IF orders[txn.order].contract = c THEN TxnQuantity ELSE 0
        BY <1>1, <2>1 DEF BookedEarly, TxnQuantity
      <3> QED BY <3>1, <3>2, <3>3, <3>4, <3>5
    <2>3. \A c \in DOMAIN positions : positions'[c] = positions[c] \/ c = orders[txn.order].contract
      BY <2>1 DEF Upsert
    <2> QED BY <1>1, <1>2, <2>1, <2>2, <2>3
  <1>6. CASE UNCHANGED <<pc, fills, positions, cash, crashes>>
    BY <1>1, <1>2, <1>6 DEF QuantityOf, BookedEarly
  <1> QED BY <1>3, <1>4, <1>5, <1>6

\* A placement of the tick is within the mandate of its plan.
LEMMA PlacementMandated ==
  ASSUME IInv, PlacementsFit, ~Booking, NEW a \in pending, Placement(a),
         plan \in DOMAIN intents, a.leg \in DOMAIN intents[plan].legs, NEW order,
         order.plan = plan, order.contract = intents[plan].legs[a.leg].contract,
         order.side = intents[plan].legs[a.leg].side, order.size \in Nat, order.size <= a.size,
         order.open => order.limit = intents[plan].legs[a.leg].limit
  PROVE  Account!WithinMandate(order)
  <1>1. PICK leg : leg = intents[plan].legs[a.leg]
    OBVIOUS
  <1>2. Account!OnContract(plan, leg.contract) = OnLeg(plan, a.leg)
    BY <1>1, OrdersIdle DEF Account!OnContract, AccountOrder, OnLeg
  <1>3. Account!Taken(plan, leg.contract) = FilledOn(plan, a.leg)
    <2>1. [i \in Account!OnContract(plan, leg.contract) |-> AccountOrders[i].filled]
            = [i \in OnLeg(plan, a.leg) |-> orders[i].filled]
      BY <1>2, OrdersIdle DEF OnLeg, AccountOrder
    <2> QED BY <2>1, AccountSums DEF Account!Taken, FilledOn
  <1>4. \A i \in Account!OnContract(plan, leg.contract) : ~AccountOrders[i].open
    <2>1. ASSUME NEW i \in OnLeg(plan, a.leg) PROVE ~AccountOrders[i].open
      <3>1. i \in DOMAIN orders /\ orders[i].plan = plan /\ orders[i].contract = leg.contract
        BY <1>1 DEF OnLeg
      <3>2. orders[i].status # "open"
        BY <1>1, <3>1 DEF PlacementsFit, OpenOrders
      <3>3. AccountOrders[i] = AccountOrder(orders[i])
        BY <3>1, OrdersIdle
      <3> QED BY <3>2, <3>3, OpenMeans
    <2> QED BY <1>2, <2>1
  <1>5. order.size <= leg.size - Account!Taken(plan, leg.contract)
    <2>1. a.size \in Nat
      BY DEF IInv, TypeOK, LegAction
    <2>2. FilledOn(plan, a.leg) \in Int
      BY OnLegIs DEF IInv
    <2>3. leg.size \in Nat
      BY <1>1, IntentFields DEF IInv
    <2>4. a.size <= leg.size - FilledOn(plan, a.leg)
      BY <1>1 DEF PlacementsFit
    <2> QED BY <1>3, <2>1, <2>2, <2>3, <2>4
  <1>6. PICK mandates : mandates = [p \in DOMAIN intents |-> intents[p].legs]
    OBVIOUS
  <1>7. plan \in DOMAIN mandates /\ a.leg \in DOMAIN mandates[plan] /\ mandates[plan][a.leg] = leg
    BY <1>1, <1>6
  <1> QED BY <1>1, <1>4, <1>5, <1>6, <1>7 DEF Account!WithinMandate

\* A mandate outlasts what is published after it.
LEMMA MandateLasts ==
  ASSUME AccountOrders' = AccountOrders, NEW order, Account!WithinMandate(order),
         \A p \in DOMAIN intents : p \in DOMAIN intents' /\ intents'[p] = intents[p]
  PROVE  Account!WithinMandate(order)'
  <1>1. PICK old, new : /\ old = [p \in DOMAIN intents |-> intents[p].legs]
                        /\ new = [p \in DOMAIN intents' |-> intents'[p].legs]
    OBVIOUS
  <1>2. \A p \in DOMAIN old : p \in DOMAIN new /\ new[p] = old[p]
    BY <1>1
  <1>3. order.plan \in DOMAIN old
    BY <1>1 DEF Account!WithinMandate
  <1>4. /\ Account!OnContract(order.plan, order.contract)' = Account!OnContract(order.plan, order.contract)
        /\ \A c : Account!Taken(order.plan, c)' = Account!Taken(order.plan, c)
    BY DEF Account!OnContract, Account!Taken
  <1>5. PICK k \in DOMAIN old[order.plan] :
          /\ old[order.plan][k].contract = order.contract /\ old[order.plan][k].side = order.side
          /\ order.size <= old[order.plan][k].size
                             - Account!Taken(order.plan, old[order.plan][k].contract)
          /\ order.open => order.limit = old[order.plan][k].limit
    BY <1>1 DEF Account!WithinMandate
  <1>6. \A i \in Account!OnContract(order.plan, order.contract)' : ~AccountOrders'[i].open
    BY <1>4 DEF Account!WithinMandate
  <1>7. /\ order.plan \in DOMAIN new /\ k \in DOMAIN new[order.plan]
        /\ new[order.plan][k].contract = order.contract /\ new[order.plan][k].side = order.side
        /\ order.size <= new[order.plan][k].size
                           - Account!Taken(order.plan, new[order.plan][k].contract)'
        /\ order.open => order.limit = new[order.plan][k].limit
    BY <1>2, <1>3, <1>4, <1>5
  <1> QED BY <1>1, <1>6, <1>7 DEF Account!WithinMandate

LEMMA RestingInHandStep ==
  ASSUME IInv, IInv', OrderSizes, RestingInHand, [Next]_vars PROVE RestingInHand'
  <1> SUFFICES ASSUME Booking', txn'.back = "reconcile" PROVE RestingInHand'
    BY DEF RestingInHand
  <1>1. ASSUME NEW i \in DOMAIN orders, NEW size \in Nat, NEW price \in Nat,
               FillsResting(i, size, price)
        PROVE  RestingInHand'
    <2>1. /\ txn'.order = i /\ txn'.size = size /\ txn'.price = price /\ size > 0
          /\ orders'[i] = MergeFill(orders[i], size)
          /\ orders[i].side = "buy" => price <= orders[i].limit
          /\ orders[i].side = "sell" => orders[i].limit <= price
          /\ orders[i] \in Order
      BY <1>1 DEF FillsResting, Rewrites
    <2>2. /\ orders[i].filled \in Nat /\ orders[i].requested \in Nat
          /\ orders[i].remaining = orders[i].requested - orders[i].filled
          /\ size <= orders[i].remaining
      <3>1. orders[i].status = "open"
        BY <1>1 DEF FillsResting, OpenOrders
      <3> QED BY <1>1, <3>1, OrdersAre DEF FillsResting, OrderSizes, IInv
    <2>3. orders[i].filled + size \in Nat
      BY <2>2
    <2>4. PICK row, f : row = MergeFill(orders[i], size) /\ f = orders[i].filled + size
      OBVIOUS
    <2>5. /\ row.side = orders[i].side /\ row.limit = orders[i].limit
          /\ row.requested = orders[i].requested /\ row.filled = f
          /\ row.status = IF f >= orders[i].requested THEN "filled" ELSE "open"
      BY <2>1, <2>4 DEF MergeFill, Order
    <2>6. size <= f /\ (row.status = "open" <=> f < row.requested)
      BY <2>2, <2>3, <2>4, <2>5
    <2> QED BY <2>1, <2>4, <2>5, <2>6 DEF RestingInHand
  <1>2. \A a \in pending, n, price \in Nat : ~Crosses(a, n, price)
    BY DEF Crosses
  <1>3. \A c \in Contracts, n, price \in Nat : ~Closes(c, n, price)
    BY DEF Closes
  <1>4. CASE Booking /\ UNCHANGED <<orders, txn, toClose>>
    BY <1>4 DEF RestingInHand
  <1> QED BY <1>1, <1>2, <1>3, <1>4, BookingBegins

LEMMA NewInHandStep ==
  ASSUME IInv, IInv', NewInHand, OpenToClose, [Next]_vars PROVE NewInHand'
  <1> SUFFICES ASSUME Booking', txn'.back # "reconcile" PROVE NewInHand'
    BY DEF NewInHand
  <1>1. ASSUME NEW n, NEW p, NEW complex, NEW leg, NEW limit, NEW size,
               Appends(n, Placed(p, complex, leg, "cross", limit, size)), size > 0,
               txn'.order = n, txn'.size = size
        PROVE  NewInHand'
    <2>1. PICK row : row = Placed(p, complex, leg, "cross", limit, size)
      OBVIOUS
    <2>2. row.status = "filled" /\ row.filled = size /\ row.requested = size
      BY <2>1 DEF Placed
    <2>3. Len(orders') = n /\ orders'[n] = row
      BY <1>1, <2>1, AppendsLast DEF Appends
    <2> QED BY <1>1, <2>2, <2>3 DEF NewInHand
  <1>2. \A i \in DOMAIN orders, size \in Nat, price \in Nat : ~FillsResting(i, size, price)
    BY DEF FillsResting
  <1>3. ASSUME NEW a \in pending, NEW n \in Nat, NEW price \in Nat, Crosses(a, n, price)
        PROVE  NewInHand'
    BY <1>1, <1>3 DEF Crosses
  <1>4. ASSUME NEW c \in Contracts, NEW n \in Nat, NEW price \in Nat, Closes(c, n, price)
        PROVE  NewInHand'
    <2>1. positions[c].qty \in Int /\ positions[c].qty # 0
      BY <1>4 DEF Closes, OpenToClose, IInv, TypeOK, Position
    <2>2. Abs(positions[c].qty) > 0
      BY <2>1 DEF Abs, MaxOf
    <2> QED BY <1>1, <1>4, <2>2 DEF Closes
  <1>5. CASE Booking /\ UNCHANGED <<orders, txn, toClose>>
    BY <1>5 DEF NewInHand
  <1> QED BY <1>2, <1>3, <1>4, <1>5, BookingBegins

LEMMA MandateInHandStep ==
  ASSUME IInv, IInv', PlacementsFit, MandateInHand, [Next]_vars PROVE MandateInHand'
  <1> SUFFICES ASSUME Booking', txn'.back = "apply" PROVE MandateInHand'
    BY DEF MandateInHand
  <1>1. \A i \in DOMAIN orders, size \in Nat, price \in Nat : ~FillsResting(i, size, price)
    BY DEF FillsResting
  <1>2. \A c \in Contracts, n, price \in Nat : ~Closes(c, n, price)
    BY DEF Closes
  <1>3. \A p \in DOMAIN intents : p \in DOMAIN intents' /\ intents'[p] = intents[p]
    BY IntentsKept
  <1>4. ASSUME NEW a \in pending, NEW n \in Nat, NEW price \in Nat, Crosses(a, n, price)
        PROVE  MandateInHand'
    <2>1. PICK leg, row, order :
            /\ leg = intents[plan].legs[a.leg]
            /\ row = Placed(plan, intents[plan].complex, leg, "cross", a.price, SizeFor(a))
            /\ order = AccountOrder(row)
      OBVIOUS
    <2>2. /\ pc = "apply" /\ a.kind = "place_cross" /\ plan \in DOMAIN intents
          /\ a.leg \in DOMAIN intents[plan].legs /\ SizeFor(a) \in Nat /\ a.price \in Nat
          /\ Appends(n, row) /\ txn'.order = n
      BY <1>4, <2>1 DEF Crosses
    <2>3. /\ order.plan = plan /\ order.contract = leg.contract /\ order.side = leg.side
          /\ order.size = SizeFor(a)
      BY <2>1 DEF AccountOrder, Placed
    <2>4. ~order.open
      <3>1. row.status # "open"
        BY <2>1 DEF Placed
      <3> QED BY <2>1, <3>1, OpenMeans
    <2>5. SizeFor(a) <= a.size
      <3>1. a \in LegAction /\ held \in Cash
        BY DEF IInv, TypeOK
      <3>2. a.size \in Nat /\ Available(held) \in Int
        BY <3>1 DEF LegAction, Available, Cash
      <3> QED BY <2>2, <3>2, AffordableSizeNat DEF SizeFor
    <2>6. ~Booking
      BY <2>2 DEF Booking
    <2>7. Account!WithinMandate(order)
      BY <2>1, <2>2, <2>3, <2>4, <2>5, <2>6, PlacementMandated DEF Placement
    <2>8. AccountOrders' = AccountOrders
      BY <2>2, <2>6, NewOrderUnseen
    <2>9. Account!WithinMandate(order)'
      BY <1>3, <2>7, <2>8, MandateLasts
    <2>10. OrderInHand' = order
      BY <2>1, <2>2 DEF OrderInHand, Appends, AccountOrder
    <2> QED BY <2>9, <2>10 DEF MandateInHand
  <1>5. CASE Booking /\ UNCHANGED <<orders, txn, toClose>>
    <2>1. PICK order : order = OrderInHand
      OBVIOUS
    <2>2. Account!WithinMandate(order)
      BY <1>5, <2>1 DEF MandateInHand
    <2>3. AccountOrders' = AccountOrders
      BY <1>5, BookingUnseen
    <2>4. Account!WithinMandate(order)'
      BY <1>3, <2>2, <2>3, MandateLasts
    <2>5. OrderInHand' = order
      BY <1>5, <2>1 DEF OrderInHand, AccountOrder
    <2> QED BY <2>4, <2>5 DEF MandateInHand
  <1> QED BY <1>1, <1>2, <1>4, <1>5, BookingBegins

LEMMA ClosingInHandStep ==
  ASSUME IInv, IInv', ClosingInHand, [Next]_vars PROVE ClosingInHand'
  <1> SUFFICES ASSUME Booking', txn'.back = "close" PROVE ClosingInHand'
    BY DEF ClosingInHand
  <1>1. \A i \in DOMAIN orders, size \in Nat, price \in Nat : ~FillsResting(i, size, price)
    BY DEF FillsResting
  <1>2. \A a \in pending, n, price \in Nat : ~Crosses(a, n, price)
    BY DEF Crosses
  <1>3. ASSUME NEW c \in Contracts, NEW n \in Nat, NEW price \in Nat, Closes(c, n, price)
        PROVE  ClosingInHand'
    <2>1. PICK qty, side, size, row, order :
            /\ qty = positions[c].qty
            /\ side = (IF qty > 0 THEN "sell" ELSE "buy") /\ size = Abs(qty)
            /\ row = Placed(OperatorFlatten, positions[c].complex,
                            [contract |-> c, side |-> side], "cross", price, size)
            /\ order = AccountOrder(row)
      OBVIOUS
    <2>2. /\ c \in DOMAIN positions /\ pc' = "fill" /\ UNCHANGED positions
          /\ toClose' = toClose \ {c} /\ Appends(n, row) /\ txn'.order = n
      BY <1>3, <2>1 DEF Closes
    <2>3. row.contract = c /\ row.status # "open"
      BY <2>1 DEF Placed
    <2>4. /\ order.plan = OperatorFlatten /\ order.contract = c /\ order.side = side
          /\ order.size = size
      BY <2>1 DEF AccountOrder, Placed
    <2>5. ~order.open
      BY <2>1, <2>3, OpenMeans
    <2>6. qty \in Int /\ QuantityOf(c)' = qty
      BY <2>1, <2>2 DEF QuantityOf, IInv, TypeOK, Position
    <2>7. BookedEarly(c)' = 0
      BY <2>2 DEF BookedEarly
    <2>8. Account!Signed(side, size) = -qty
      BY <2>1, <2>6 DEF Account!Signed, Abs, MaxOf
    <2>9. Account!Signed(order.side, order.size) = -(QuantityOf(c)' - BookedEarly(c)')
      BY <2>4, <2>6, <2>7, <2>8
    <2>10. Account!ClosesPosition(order)'
      BY <2>4, <2>5, <2>9 DEF Account!ClosesPosition, Account!Signed
    <2>11. OrderInHand' = order /\ orders'[txn'.order].contract = c
      BY <2>1, <2>2, <2>3 DEF OrderInHand, Appends, AccountOrder
    <2> QED BY <2>2, <2>10, <2>11 DEF ClosingInHand
  <1>4. CASE Booking /\ UNCHANGED <<orders, txn, toClose>>
    <2>1. PICK order : order = OrderInHand
      OBVIOUS
    <2>2. /\ Account!ClosesPosition(order) /\ orders[txn.order].contract \notin toClose
          /\ order.contract \in Contracts
      <3>1. txn.order \in DOMAIN orders
        BY <1>4 DEF IInv, TickInv, TxnInHand
      <3>2. orders[txn.order].contract \in Contracts
        BY <3>1, OrdersAre DEF IInv
      <3>3. order.contract = orders[txn.order].contract
        BY <2>1 DEF OrderInHand, AccountOrder
      <3> QED BY <1>4, <2>1, <3>2, <3>3 DEF ClosingInHand
    <2>3. QuantityOf(order.contract)' - BookedEarly(order.contract)'
            = QuantityOf(order.contract) - BookedEarly(order.contract)
      <3>1. PICK c \in Contracts : c = order.contract
        BY <2>2
      <3>2. QuantityOf(c)' - BookedEarly(c)' = QuantityOf(c) - BookedEarly(c)
        BY <1>4, BookingUnseen
      <3> QED BY <3>1, <3>2
    <2>4. Account!ClosesPosition(order)'
      BY <2>2, <2>3 DEF Account!ClosesPosition
    <2>5. OrderInHand' = order
      BY <1>4, <2>1 DEF OrderInHand, AccountOrder
    <2> QED BY <1>4, <2>2, <2>4, <2>5 DEF ClosingInHand
  <1> QED BY <1>1, <1>2, <1>3, <1>4, BookingBegins

LEMMA FillInHandStep == ASSUME IInv, FillInHand, [Next]_vars PROVE FillInHand'
  <1>1. CASE PersistFill
    <2>1. /\ pc = "fill" /\ UNCHANGED <<orders, txn>> /\ fills' = Append(fills, TxnFill)
      BY <1>1 DEF PersistFill, TxnFill
    <2>2. fills \in Seq(Fill) /\ Len(fills) \in Nat
      BY FillsAre DEF IInv
    <2>3. TxnFill' = TxnFill
      BY <2>1 DEF TxnFill, FillCents
    <2>4. PICK n, fill : n = Len(fills) /\ fill = TxnFill
      BY <2>2
    <2>5. Len(fills') = n + 1 /\ fills'[n + 1] = fill
      BY <2>1, <2>2, <2>4
    <2> QED BY <2>3, <2>4, <2>5 DEF FillInHand
  <1>2. CASE PersistPosition
    BY <1>2 DEF PersistPosition, FillInHand, TxnFill, FillCents
  <1>3. CASE UNCHANGED <<pc, fills, txn, orders>>
    BY <1>3 DEF FillInHand, TxnFill, FillCents
  <1>4. CASE pc' \notin {"position", "cash"}
    BY <1>4 DEF FillInHand
  <1>5. \/ PersistFill \/ PersistPosition \/ UNCHANGED <<pc, fills, txn, orders>>
        \/ pc' \notin {"position", "cash"}
    <2>1. txn.back \in {"idle", "reconcile", "apply", "close"}
      BY DEF IInv, TypeOK
    <2> QED BY <2>1
        DEF Next, Worker, Environment, BeginTick, ScanIntents, EnsureCash, EndTick,
        PersistCash, LoadIntent, ReconcileFill, FinishReconcile, EvaluateIntent, ApplyNext,
        ApplyCancel, ApplyUnaffordable, ApplyPassive, ApplyCross,
        RestateCash, FinishApply, FlattenCancel, FlattenCancelled, ClosePosition, FlattenSnapshot,
        EndFlatten, Crash, PublishIntent, Command, Pause, Resume, Flatten, AdvanceClock, vars,
        tableVars, tickVars
  <1> QED BY <1>1, <1>2, <1>3, <1>4, <1>5

LEMMA OpenToCloseStep ==
  ASSUME IInv, IInv', ClosingInHand, OpenToClose, [Next]_vars PROVE OpenToClose'
  <1>1. CASE FlattenCancelled
    BY <1>1 DEF FlattenCancelled, OpenToClose, OpenPositions
  <1>2. ASSUME NEW c \in Contracts, ClosePosition(c) PROVE OpenToClose'
    BY <1>2 DEF ClosePosition, OpenToClose, Booking
  <1>3. CASE PersistCash
    <2>1. pc = "cash" /\ pc' = txn.back /\ UNCHANGED <<toClose, positions>>
      BY <1>3 DEF PersistCash
    <2> QED BY <2>1 DEF OpenToClose
  <1>4. CASE PersistPosition
    <2>1. pc = "position" /\ pc' = "cash" /\ Booking /\ Booking' /\ UNCHANGED <<toClose, txn>>
      BY <1>4 DEF PersistPosition, Booking
    <2>2. ASSUME NEW c \in toClose PROVE positions'[c].qty # 0
      <3>1. txn.back = "close"
        BY <2>1 DEF OpenToClose
      <3>2. c # orders[txn.order].contract
        BY <2>1, <3>1 DEF ClosingInHand
      <3>3. c \in DOMAIN positions
        BY DEF IInv, TypeOK
      <3>4. positions'[c] = positions[c]
        BY <2>1, <3>2, <3>3, BookingUnseen
      <3> QED BY <3>4 DEF OpenToClose
    <2> QED BY <2>1, <2>2 DEF OpenToClose
  <1>5. CASE toClose' = {}
    BY <1>5 DEF OpenToClose
  <1>6. CASE UNCHANGED <<pc, txn, toClose, positions>>
    BY <1>6 DEF OpenToClose, Booking
  <1>7. CASE PersistFill
    BY <1>7 DEF PersistFill, OpenToClose, Booking
  <1>8. pc = "close" \/ Booking \/ toClose = {}
    BY DEF OpenToClose
  <1>9. CASE ~(FlattenCancelled \/ PersistCash \/ PersistPosition \/ PersistFill
               \/ \E c \in Contracts : ClosePosition(c))
    <2>1. toClose' = {} \/ UNCHANGED <<pc, txn, toClose, positions>>
      BY <1>8, <1>9
      DEF Next, Worker, Environment, BeginTick, ScanIntents, EnsureCash, EndTick,
        LoadIntent, ReconcileFill, FinishReconcile, EvaluateIntent, ApplyNext,
        RestateCash, FinishApply, FlattenCancel, FlattenSnapshot,
        EndFlatten, Crash, PublishIntent, Command, Pause, Resume, Flatten, AdvanceClock, vars,
        tableVars, tickVars, Booking
    <2> QED BY <1>5, <1>6, <2>1
  <1> QED BY <1>1, <1>2, <1>3, <1>4, <1>7, <1>9

LEMMA InitHand == Init => HandInv
  BY DEF Init, HandInv, RestingInHand, NewInHand, MandateInHand, ClosingInHand, FillInHand,
         OpenToClose, Booking

LEMMA HandInvariance == Spec => []HandInv
  <1>1. IInv /\ LegsInv /\ HandInv /\ [Next]_vars => HandInv'
    BY NextIInv, RestingInHandStep, NewInHandStep, MandateInHandStep, ClosingInHandStep,
       FillInHandStep, OpenToCloseStep DEF HandInv, LegsInv
  <1> QED BY <1>1, InitHand, Invariance, LegsInvariance, PTL DEF Spec

-----------------------------------------------------------------------------
(* What the end of a booking shows the account. *)

\* Functions on 1 .. n - 1 and 1 .. n that agree are sequences, one longer
\* than the other.
LEMMA OneLonger ==
  ASSUME NEW n \in Nat \ {0}, NEW f, NEW g,
         f = [j \in 1 .. n - 1 |-> f[j]], g = [j \in 1 .. n |-> g[j]],
         \A j \in 1 .. n - 1 : f[j] = g[j]
  PROVE  Len(f) = n - 1 /\ Len(g) = n /\ g = Append(f, g[n])
  <1>1. PICK S : S = {g[j] : j \in 1 .. n}
    OBVIOUS
  <1>2. g \in Seq(S) /\ Len(g) = n
    <2>1. g \in [1 .. n -> S]
      BY <1>1
    <2> QED BY <2>1
  <1>3. f \in Seq(S) /\ Len(f) = n - 1
    <2>1. f \in [1 .. n - 1 -> S]
      BY <1>1
    <2> QED BY <2>1
  <1>4. g[n] \in S
    BY <1>1
  <1>5. g = Append(f, g[n])
    <2>1. PICK h : h = Append(f, g[n])
      OBVIOUS
    <2>2. /\ h \in Seq(S) /\ Len(h) = n /\ h[n] = g[n]
          /\ \A j \in 1 .. n - 1 : h[j] = f[j]
      BY <1>3, <1>4, <2>1, AppendProperties
    <2>3. ASSUME NEW j \in 1 .. n PROVE g[j] = h[j]
      <3>1. j = n \/ j \in 1 .. n - 1
        OBVIOUS
      <3> QED BY <2>2, <3>1
    <2>4. g = h
      BY <1>2, <2>2, <2>3, SeqEqual
    <2> QED BY <2>1, <2>4
  <1> QED BY <1>2, <1>3, <1>5

\* The resting order is executed.
LEMMA EndsResting ==
  ASSUME IInv, OrderSizes, HandInv, Booking, txn.back = "reconcile", UNCHANGED orders, ~Booking'
  PROVE  /\ txn.order \in DOMAIN AccountOrders
         /\ AccountOrders[txn.order].open
         /\ AccountOrders[txn.order].contract = orders[txn.order].contract
         /\ AccountOrders[txn.order].side = orders[txn.order].side
         /\ AccountOrders[txn.order].limit = orders[txn.order].limit
         /\ txn.size \in 1 .. AccountOrders[txn.order].size - AccountOrders[txn.order].filled
         /\ Account!Executes(txn.order, txn.size)
  <1>1. PICK i, row, size : i = txn.order /\ row = orders[i] /\ size = txn.size
    OBVIOUS
  <1>2. PICK old, new, before, after : /\ old = AccountOrders /\ new = AccountOrders'
                                       /\ before = old[i] /\ after = new[i]
    OBVIOUS
  <1>3. /\ i \in DOMAIN orders /\ DOMAIN old = DOMAIN orders
        /\ \A j \in DOMAIN orders : j # i => old[j] = AccountOrder(orders[j])
        /\ before = RestingBefore(row, size)
    BY <1>1, <1>2, OrdersResting
  <1>4. new = [j \in DOMAIN orders |-> AccountOrder(orders[j])]
    BY <1>2 DEF AccountOrders, OrdersBooked, AccountOrder
  <1>5. /\ size \in Nat /\ size > 0 /\ size <= row.filled
        /\ row.filled \in Nat /\ row.requested \in Nat /\ row.filled <= row.requested
        /\ row.status = "open" <=> row.filled < row.requested
    BY <1>1, <1>3, OrdersAre DEF HandInv, RestingInHand, OrderSizes, IInv, TypeOK
  <1>6. /\ before.open = TRUE /\ before.contract = row.contract /\ before.side = row.side
        /\ before.limit = row.limit /\ before.size = row.requested
        /\ before.filled = row.filled - size
    BY <1>3 DEF RestingBefore
  <1>7. size \in 1 .. before.size - before.filled
    BY <1>5, <1>6
  <1>8. new = [old EXCEPT ![i].filled = @ + size,
                          ![i].open = old[i].filled + size < old[i].size]
    <2>1. PICK open, filled : /\ open = (before.filled + size < before.size)
                              /\ filled = before.filled + size
      OBVIOUS
    <2>2. filled = row.filled /\ open \in BOOLEAN
      BY <1>5, <1>6, <2>1
    <2>3. open <=> row.status = "open"
      BY <1>5, <1>6, <2>1, <2>2
    <2>4. AccountOrder(row) = [before EXCEPT !.filled = filled, !.open = open]
      <3>1. PICK order : order = AccountOrder(row)
        OBVIOUS
      <3>2. DOMAIN before = {"plan", "contract", "side", "limit", "size", "filled", "open"}
            /\ before = [x \in DOMAIN before |-> before[x]]
        BY <1>3 DEF RestingBefore
      <3>3. order = [x \in DOMAIN before |-> order[x]]
        BY <3>1, <3>2 DEF AccountOrder
      <3>4. order.plan = before.plan
        BY <1>3, <3>1 DEF RestingBefore, AccountOrder
      <3>5. /\ order.contract = before.contract /\ order.side = before.side
            /\ order.limit = before.limit /\ order.size = before.size
            /\ order.filled = row.filled
        BY <1>6, <3>1 DEF AccountOrder
      <3>6. order.open = open
        BY <2>2, <2>3, <3>1, OpenMeans
      <3>7. order.filled = filled
        BY <2>2, <3>5
      <3>8. order = [before EXCEPT !.filled = filled, !.open = open]
        <4>1. PICK mid : mid = [before EXCEPT !.filled = filled, !.open = open]
          OBVIOUS
        <4>2. mid = [x \in DOMAIN before |-> mid[x]]
          BY <4>1
        <4>3. \A x \in DOMAIN before : x # "filled" /\ x # "open" => mid[x] = before[x]
          BY <4>1
        <4>4. mid["filled"] = filled /\ mid["open"] = open
          BY <3>2, <4>1
        <4>5. \A x \in DOMAIN before : order[x] = mid[x]
          BY <3>2, <3>4, <3>5, <3>6, <3>7, <4>3, <4>4
        <4> QED BY <3>3, <4>1, <4>2, <4>5
      <3> QED BY <3>1, <3>8
    <2>5. after = [before EXCEPT !.filled = filled, !.open = open]
      BY <1>1, <1>2, <1>3, <1>4, <2>4
    <2>6. new = [old EXCEPT ![i] = after]
      BY <1>1, <1>2, <1>3, <1>4
    <2>7. [old EXCEPT ![i].filled = @ + size, ![i].open = old[i].filled + size < old[i].size]
            = [old EXCEPT ![i] = [before EXCEPT !.filled = filled, !.open = open]]
      BY <1>2, <1>3, <2>1
    <2> QED BY <2>5, <2>6, <2>7
  <1>9. Account!Executes(i, size)
    BY <1>2, <1>8 DEF Account!Executes
  <1> QED BY <1>1, <1>2, <1>3, <1>6, <1>7, <1>9

\* The new order is placed and executed.
LEMMA EndsNew ==
  ASSUME IInv, HandInv, Booking, txn.back # "reconcile", UNCHANGED orders, ~Booking'
  PROVE  /\ Len(AccountOrders') = Len(AccountOrders) + 1 /\ Len(AccountOrders') = txn.order
         /\ Account!Newest(AccountOrders') = OrderInHand
         /\ OrderInHand.contract = orders[txn.order].contract
         /\ OrderInHand.side = orders[txn.order].side /\ OrderInHand.size = txn.size
         /\ Account!Takes(OrderInHand)
  <1>1. PICK n, order, row : n = Len(orders) /\ order = OrderInHand /\ row = orders[n]
    OBVIOUS
  <1>2. PICK old, new : old = AccountOrders /\ new = AccountOrders'
    OBVIOUS
  <1>3. /\ n \in Nat \ {0} /\ DOMAIN orders = 1 .. n
        /\ DOMAIN old = 1 .. n - 1 /\ \A j \in 1 .. n - 1 : old[j] = AccountOrder(orders[j])
    BY <1>1, <1>2, OrdersNew
  <1>4. old = [j \in 1 .. n - 1 |-> old[j]]
    BY <1>2, <1>3 DEF AccountOrders
  <1>5. new = [j \in 1 .. n |-> AccountOrder(orders[j])]
    BY <1>2, <1>3 DEF AccountOrders, OrdersBooked, AccountOrder
  <1>6. /\ txn.order = n /\ txn.size > 0 /\ row.status = "filled"
        /\ row.filled = txn.size /\ row.requested = txn.size
    BY <1>1 DEF HandInv, NewInHand
  <1>7. order = AccountOrder(row) /\ new[n] = order
    BY <1>1, <1>3, <1>5, <1>6 DEF OrderInHand
  <1>8. Len(old) = n - 1 /\ Len(new) = n /\ new = Append(old, new[n])
    <2>1. new = [j \in 1 .. n |-> new[j]] /\ \A j \in 1 .. n - 1 : old[j] = new[j]
      BY <1>3, <1>5
    <2> QED BY <1>3, <1>4, <2>1, OneLonger
  <1>9. /\ order.contract = row.contract /\ order.side = row.side /\ order.size = txn.size
        /\ order.filled = txn.size
    BY <1>6, <1>7 DEF AccountOrder
  <1>10. ~order.open
    BY <1>6, <1>7, OpenMeans
  <1>11. Account!WithinMandate(order) \/ Account!ClosesPosition(order)
    <2>1. txn.back \in {"apply", "close"}
      BY DEF IInv, TickInv, TxnInHand, TypeOK
    <2> QED BY <1>1, <2>1 DEF HandInv, MandateInHand, ClosingInHand
  <1>12. Account!Takes(order)
    BY <1>2, <1>6, <1>7, <1>8, <1>9, <1>10, <1>11 DEF Account!Takes
  <1>13. Account!Newest(new) = order
    BY <1>7, <1>8 DEF Account!Newest
  <1> QED BY <1>1, <1>2, <1>3, <1>6, <1>8, <1>9, <1>12, <1>13

\* The fill row becomes a trade.
LEMMA EndsBooked ==
  ASSUME IInv, HandInv, pc \in {"position", "cash"}, UNCHANGED fills, pc' \notin {"position", "cash"}
  PROVE  /\ Account!Books(txn.order, orders[txn.order].side, txn.size)
         /\ Account!Newest(AccountTrades').cents = FillCents
  <1>1. PICK n, fill : n = Len(fills) /\ fill = fills[n]
    OBVIOUS
  <1>2. PICK old, new : old = AccountTrades /\ new = AccountTrades'
    OBVIOUS
  <1>3. /\ n \in Nat \ {0} /\ fills \in Seq(Fill) /\ DOMAIN fills = 1 .. n
        /\ fill = TxnFill
    BY <1>1, FillsAre DEF HandInv, FillInHand, IInv
  <1>4. /\ new = [f \in 1 .. n |-> [order |-> fills[f].order, side |-> fills[f].side,
                                   size |-> fills[f].size, cents |-> fills[f].cents]]
    BY <1>2, <1>3 DEF AccountTrades, FillsBooked
  <1>5. old = [f \in 1 .. n - 1 |-> [order |-> fills[f].order, side |-> fills[f].side,
                                     size |-> fills[f].size, cents |-> fills[f].cents]]
    <2>1. PICK cut : cut = SubSeq(fills, 1, n - 1)
      OBVIOUS
    <2>2. cut \in Seq(Fill) /\ Len(cut) = n - 1
      BY <1>1, <1>3, <2>1, LastAppended
    <2>3. DOMAIN cut = 1 .. n - 1
      BY <2>2
    <2>4. FillsBooked = cut
      BY <1>1, <2>1 DEF FillsBooked
    <2> QED BY <1>2, <2>3, <2>4 DEF AccountTrades
  <1>6. Len(old) = n - 1 /\ Len(new) = n /\ new = Append(old, new[n])
    <2>1. /\ old = [j \in 1 .. n - 1 |-> old[j]] /\ new = [j \in 1 .. n |-> new[j]]
          /\ \A j \in 1 .. n - 1 : old[j] = new[j]
      BY <1>3, <1>4, <1>5
    <2> QED BY <1>3, <2>1, OneLonger
  <1>7. /\ new[n].order = txn.order /\ new[n].side = orders[txn.order].side
        /\ new[n].size = txn.size /\ new[n].cents = FillCents
    <2>1. new[n] = [order |-> fill.order, side |-> fill.side, size |-> fill.size,
                    cents |-> fill.cents]
      <3>1. n \in 1 .. n
        BY <1>3
      <3> QED BY <1>1, <1>4, <3>1
    <2> QED BY <1>3, <2>1 DEF TxnFill
  <1>8. Account!Newest(new) = new[n]
    BY <1>6 DEF Account!Newest
  <1>9. Len(new) = Len(old) + 1
    BY <1>3, <1>6
  <1>10. Account!Books(txn.order, orders[txn.order].side, txn.size)
    BY <1>2, <1>6, <1>7, <1>8, <1>9 DEF Account!Books
  <1> QED BY <1>2, <1>7, <1>8, <1>10

\* The position, written before, moves.
LEMMA EndsMoved ==
  ASSUME IInv, pc = "cash", UNCHANGED positions, pc' # "cash"
  PROVE  Account!Moves(orders[txn.order].contract, orders[txn.order].side, txn.size)
  <1>1. PICK contract, moved : contract = orders[txn.order].contract /\ moved = TxnQuantity
    OBVIOUS
  <1>2. PICK old, new : /\ old = [c \in Contracts |-> QuantityOf(c) - BookedEarly(c)]
                        /\ new = [c \in Contracts |-> QuantityOf(c)' - BookedEarly(c)']
    OBVIOUS
  <1>3. moved \in Int /\ contract \in Contracts
    <2>1. txn.order \in DOMAIN orders
      BY DEF IInv, TickInv, TxnInHand, Booking
    <2> QED BY <1>1, <2>1, OrdersAre, SignedInt DEF TxnQuantity, IInv, TypeOK
  <1>4. ASSUME NEW c \in Contracts
        PROVE  /\ QuantityOf(c)' = QuantityOf(c) /\ QuantityOf(c) \in Int /\ BookedEarly(c)' = 0
               /\ BookedEarly(c) = IF contract = c THEN moved ELSE 0
    BY <1>1 DEF QuantityOf, BookedEarly, TxnQuantity, IInv, TypeOK, Position
  <1>5. \A c \in Contracts : new[c] = old[c] + (IF contract = c THEN moved ELSE 0)
    BY <1>2, <1>3, <1>4
  <1>6. \A c \in Contracts : old[c] \in Int
    BY <1>2, <1>3, <1>4
  <1>7. new = [old EXCEPT ![contract] = @ + moved]
    BY <1>2, <1>3, <1>5, <1>6
  <1>8. Account!Signed(orders[txn.order].side, txn.size) = moved
    BY <1>1 DEF Account!Signed, TxnQuantity, SignedQuantity
  <1> QED BY <1>1, <1>2, <1>7, <1>8 DEF Account!Moves

\* Until the position is written, what is held of a contract stays.
LEMMA EndsUnmoved ==
  ASSUME pc # "cash", pc' # "cash", UNCHANGED positions
  PROVE  \A c \in Contracts : QuantityOf(c)' - BookedEarly(c)' = QuantityOf(c) - BookedEarly(c)
  BY DEF QuantityOf, BookedEarly

-----------------------------------------------------------------------------
(* Every step of the worker is one of the account, or none. *)

Mandates == [p \in DOMAIN intents |-> intents[p].legs]

LEMMA SettledStep ==
  ASSUME IInv, OrderSizes, HandInv, HeldInv, PersistCash PROVE Account!Next
  <1>1. /\ pc = "cash" /\ Booking /\ ~Booking' /\ pc' \notin {"position", "cash"}
        /\ cash' = held /\ UNCHANGED <<orders, fills, positions, intents, crashes>>
    <2>1. pc = "cash" /\ pc' = txn.back /\ cash' = held
          /\ UNCHANGED <<orders, fills, positions, intents, crashes>>
      BY DEF PersistCash, envVars
    <2>2. txn.back \in {"idle", "reconcile", "apply", "close"}
      BY DEF IInv, TypeOK
    <2> QED BY <2>1, <2>2 DEF Booking
  <1>2. PICK i, contract, side, size :
          /\ i = txn.order /\ contract = orders[i].contract /\ side = orders[i].side
          /\ size = txn.size
    OBVIOUS
  <1>3. Account!Books(i, side, size) /\ Account!Newest(AccountTrades').cents = FillCents
    BY <1>1, <1>2, EndsBooked
  <1>4. Account!Moves(contract, side, size)
    BY <1>1, <1>2, EndsMoved
  <1>5. Account!Settles(side)
    <2>1. cash'.balance = cash.balance - SignedQuantity(side, FillCents)
      BY <1>1, <1>2 DEF HeldInv, TxnCents
    <2> QED BY <1>3, <2>1 DEF Account!Settles, Account!Signed, SignedQuantity
  <1>6. UNCHANGED <<Mandates, crashes>>
    BY <1>1 DEF Mandates
  <1>7. CASE txn.back = "reconcile"
    <2>1. /\ i \in DOMAIN AccountOrders /\ AccountOrders[i].open
          /\ AccountOrders[i].contract = contract /\ AccountOrders[i].side = side
          /\ AccountOrders[i].limit = orders[i].limit
          /\ size \in 1 .. AccountOrders[i].size - AccountOrders[i].filled
          /\ Account!Executes(i, size)
      BY <1>1, <1>2, <1>7, EndsResting
    <2>2. Account!AtLimitOrBetter(AccountOrders[i], size)
      <3>1. PICK limit, price : limit = orders[i].limit /\ price = txn.price
        OBVIOUS
      <3>2. limit \in Nat /\ price \in Nat /\ size \in Nat /\ side \in Sides
        <4>1. i \in DOMAIN orders
          BY <1>1, <1>2 DEF IInv, TickInv, TxnInHand
        <4> QED BY <1>2, <3>1, <4>1, OrdersAre DEF IInv, TypeOK
      <3>3. /\ side = "buy" => price <= limit
            /\ side = "sell" => limit <= price
        BY <1>1, <1>2, <1>7, <3>1 DEF HandInv, RestingInHand
      <3>4. price * size \in Nat /\ limit * size \in Nat
        BY <3>2
      <3>5. side = "buy" => price * size <= limit * size
        BY <3>2, <3>3
      <3>6. side = "sell" => limit * size <= price * size
        BY <3>2, <3>3
      <3>7. FillCents = RoundUsd(price * size)
        BY <1>2, <3>1 DEF FillCents
      <3>8. /\ side = "buy" => FillCents <= RoundUsd(limit * size)
            /\ side = "sell" => RoundUsd(limit * size) <= FillCents
        BY <3>4, <3>5, <3>6, <3>7, RoundUsdMonotone
      <3>9. FillCents \in Int /\ RoundUsd(limit * size) \in Int
        BY <3>4, <3>7, RoundUsdInt
      <3>10. Account!RoundUsd(limit * size) = RoundUsd(limit * size)
        BY AccountRounds
      <3>11. CASE side = "buy"
        BY <1>3, <2>1, <3>1, <3>8, <3>10, <3>11 DEF Account!AtLimitOrBetter
      <3>12. CASE side = "sell"
        BY <1>3, <2>1, <3>1, <3>8, <3>9, <3>10, <3>12 DEF Account!AtLimitOrBetter
      <3> QED BY <3>2, <3>11, <3>12 DEF Sides
    <2>3. Account!TradeResting(i, size)
      BY <1>3, <1>4, <1>5, <1>6, <2>1, <2>2 DEF Account!TradeResting, Mandates
    <2> QED BY <2>1, <2>3 DEF Account!Next
  <1>8. CASE txn.back # "reconcile"
    <2>1. PICK order : order = OrderInHand
      OBVIOUS
    <2>2. /\ Len(AccountOrders') = Len(AccountOrders) + 1 /\ Len(AccountOrders') = i
          /\ Account!Newest(AccountOrders') = order
          /\ order.contract = contract /\ order.side = side /\ order.size = size
          /\ Account!Takes(order)
      BY <1>1, <1>2, <1>8, <2>1, EndsNew
    <2>3. Account!Take
      BY <1>3, <1>4, <1>5, <1>6, <2>2 DEF Account!Take, Mandates
    <2> QED BY <2>3 DEF Account!Next
  <1> QED BY <1>7, <1>8

LEMMA CrashSeen == ASSUME IInv, OrderSizes, HandInv, Crash PROVE Account!Next
  <1>1. /\ pc' = "idle" /\ ~Booking' /\ crashes' = crashes + 1
        /\ UNCHANGED <<orders, fills, positions, intents, cash>>
    BY DEF Crash, Booking, tableVars
  <1>2. UNCHANGED Mandates
    BY <1>1 DEF Mandates
  <1>3. pc # "cash" => [c \in Contracts |-> QuantityOf(c)' - BookedEarly(c)']
                         = [c \in Contracts |-> QuantityOf(c) - BookedEarly(c)]
    BY <1>1, EndsUnmoved
  <1>4. pc \notin {"position", "cash"} => AccountTrades' = AccountTrades
    BY <1>1 DEF AccountTrades, FillsBooked
  <1>5. CASE ~Booking
    <2>1. pc \notin {"position", "cash"}
      BY <1>5 DEF Booking
    <2>2. AccountOrders' = AccountOrders
      BY <1>1, <1>5 DEF AccountOrders, OrdersBooked, AccountOrder
    <2>3. Account!Interrupt
      BY <1>1, <1>2, <1>3, <1>4, <2>1, <2>2 DEF Account!Interrupt, Mandates
    <2> QED BY <2>3 DEF Account!Next
  <1>6. CASE Booking
    <2>1. PICK i, contract, side, size :
            /\ i = txn.order /\ contract = orders[i].contract /\ side = orders[i].side
            /\ size = txn.size
      OBVIOUS
    <2>2. Account!Torn(i, contract, side, size)
      <3>1. pc \in {"position", "cash"} => Account!Books(i, side, size)
        BY <1>1, <2>1, EndsBooked
      <3>2. pc = "cash" => Account!Moves(contract, side, size)
        BY <1>1, <2>1, EndsMoved
      <3>3. pc \in {"fill", "position", "cash"}
        BY <1>6 DEF Booking
      <3>4. CASE pc = "fill"
        BY <1>1, <1>2, <1>3, <1>4, <3>4 DEF Account!Torn, Mandates
      <3>5. CASE pc = "position"
        BY <1>1, <1>2, <1>3, <3>1, <3>5 DEF Account!Torn, Mandates
      <3>6. CASE pc = "cash"
        BY <1>1, <1>2, <3>1, <3>2, <3>6 DEF Account!Torn, Mandates
      <3> QED BY <3>3, <3>4, <3>5, <3>6
    <2>3. CASE txn.back = "reconcile"
      <3>1. /\ i \in DOMAIN AccountOrders /\ AccountOrders[i].open
            /\ AccountOrders[i].contract = contract /\ AccountOrders[i].side = side
            /\ size \in 1 .. AccountOrders[i].size - AccountOrders[i].filled
            /\ Account!Executes(i, size)
        BY <1>1, <1>6, <2>1, <2>3, EndsResting
      <3>2. Account!TearResting(i, size)
        BY <2>2, <3>1 DEF Account!TearResting
      <3> QED BY <3>1, <3>2 DEF Account!Next
    <2>4. CASE txn.back # "reconcile"
      <3>1. PICK order : order = OrderInHand
        OBVIOUS
      <3>2. /\ Len(AccountOrders') = Len(AccountOrders) + 1 /\ Len(AccountOrders') = i
            /\ Account!Newest(AccountOrders') = order
            /\ order.contract = contract /\ order.side = side /\ order.size = size
            /\ Account!Takes(order)
        BY <1>1, <1>6, <2>1, <2>4, <3>1, EndsNew
      <3>3. Account!TearTake
        BY <2>2, <3>2 DEF Account!TearTake
      <3> QED BY <3>3 DEF Account!Next
    <2> QED BY <2>3, <2>4
  <1> QED BY <1>5, <1>6

\* A step outside bookings that leaves fills, positions and cash alone, but
\* not the orders.
LEMMA OnlyOrdersSeen ==
  ASSUME ~Booking, ~Booking', UNCHANGED <<intents, fills, positions, cash, crashes>>
  PROVE  /\ UNCHANGED <<Mandates, AccountTrades, cash.balance, crashes>>
         /\ [c \in Contracts |-> QuantityOf(c)' - BookedEarly(c)']
              = [c \in Contracts |-> QuantityOf(c) - BookedEarly(c)]
         /\ AccountOrders' = [j \in DOMAIN orders' |-> AccountOrder(orders'[j])]
  <1>1. pc \notin {"position", "cash"} /\ pc' \notin {"position", "cash"}
    BY DEF Booking
  <1> QED BY <1>1 DEF Mandates, AccountTrades, FillsBooked, QuantityOf, BookedEarly, AccountOrders,
             OrdersBooked, AccountOrder

LEMMA RestSeen ==
  ASSUME IInv, IInv', PlacementsFit, NEW a \in pending, NEW n \in Nat, Rests(a, n)
  PROVE  Account!Next
  <1>1. PICK leg, row, order :
          /\ leg = intents[plan].legs[a.leg]
          /\ row = Placed(plan, intents[plan].complex, leg, "passive", a.price, SizeFor(a))
          /\ order = AccountOrder(row)
    OBVIOUS
  <1>2. /\ pc = "apply" /\ pc' = "restate" /\ ~Booking /\ ~Booking'
        /\ a.kind = "place_passive" /\ plan \in DOMAIN intents
        /\ a.leg \in DOMAIN intents[plan].legs /\ SizeFor(a) \in Nat /\ SizeFor(a) > 0
        /\ a.price \in Nat /\ Appends(n, row)
        /\ UNCHANGED <<intents, fills, positions, cash, crashes>>
    BY <1>1 DEF Rests, Booking, envVars
  <1>3. /\ order.plan = plan /\ order.contract = leg.contract /\ order.side = leg.side
        /\ order.size = SizeFor(a) /\ order.limit = a.price /\ order.filled = 0
    BY <1>1 DEF AccountOrder, Placed
  <1>4. order.open
    <2>1. row.status = "open"
      BY <1>1 DEF Placed
    <2> QED BY <1>1, <2>1, OpenMeans
  <1>5. order.limit = leg.limit
    BY <1>1, <1>2, <1>3 DEF IInv, TickInv, PendingRests
  <1>6. SizeFor(a) <= a.size
    <2>1. a \in LegAction /\ held \in Cash
      BY DEF IInv, TypeOK
    <2>2. a.size \in Nat /\ Available(held) \in Int
      BY <2>1 DEF LegAction, Available, Cash
    <2> QED BY <1>2, <2>2, AffordableSizeNat DEF SizeFor
  <1>7. Account!WithinMandate(order)
    BY <1>1, <1>2, <1>3, <1>5, <1>6, PlacementMandated DEF Placement
  <1>8. PICK old, new : old = AccountOrders /\ new = AccountOrders'
    OBVIOUS
  <1>9. Len(new) = Len(old) + 1 /\ new = Append(old, order) /\ Account!Newest(new) = order
    <2>1. /\ n = Len(orders) + 1 /\ Len(orders') = n /\ orders'[n] = row
          /\ DOMAIN orders = 1 .. n - 1 /\ DOMAIN orders' = 1 .. n
          /\ \A j \in 1 .. n - 1 : orders'[j] = orders[j]
      <3>1. n = Len(orders) + 1 /\ Len(orders') = n
        BY <1>2, AppendsLast
      <3>2. orders \in Seq(Order) /\ orders' \in Seq(Order)
        BY DEF IInv, TypeOK
      <3>3. DOMAIN orders = 1 .. n - 1 /\ DOMAIN orders' = 1 .. n
        BY <3>1, <3>2
      <3> QED BY <1>2, <3>1, <3>3 DEF Appends
    <2>2. n \in Nat \ {0}
      <3>1. Len(orders) \in Nat
        BY OrdersAre DEF IInv
      <3> QED BY <2>1, <3>1
    <2>3. /\ old = [j \in 1 .. n - 1 |-> AccountOrder(orders[j])]
          /\ new = [j \in 1 .. n |-> AccountOrder(orders'[j])]
      BY <1>2, <1>8, <2>1, OrdersIdle, OnlyOrdersSeen
    <2>4. /\ old = [j \in 1 .. n - 1 |-> old[j]] /\ new = [j \in 1 .. n |-> new[j]]
          /\ \A j \in 1 .. n - 1 : old[j] = new[j]
      BY <2>1, <2>2, <2>3
    <2>5. Len(old) = n - 1 /\ Len(new) = n /\ new = Append(old, new[n])
      BY <2>2, <2>4, OneLonger
    <2>6. new[n] = order
      BY <1>1, <2>1, <2>2, <2>3
    <2> QED BY <2>2, <2>5, <2>6 DEF Account!Newest
  <1>10. Account!Rest
    BY <1>2, <1>3, <1>4, <1>7, <1>8, <1>9, OnlyOrdersSeen DEF Account!Rest, Mandates
  <1> QED BY <1>10 DEF Account!Next

LEMMA CancelSeen ==
  ASSUME IInv, NEW i \in DOMAIN orders, CancelsOpen(i) PROVE Account!Next
  <1>1. /\ ~Booking /\ ~Booking' /\ orders[i] \in Order /\ orders[i].status = "open"
        /\ DOMAIN orders' = DOMAIN orders /\ orders'[i] = CancelOrder(orders[i])
        /\ \A j \in DOMAIN orders : j # i => orders'[j] = orders[j]
        /\ UNCHANGED <<intents, fills, positions, cash, crashes>>
    BY DEF CancelsOpen, Booking, Rewrites, OpenOrders, envVars
  <1>2. PICK old, new, row, before, after :
          /\ old = AccountOrders /\ new = AccountOrders' /\ row = CancelOrder(orders[i])
          /\ before = AccountOrder(orders[i]) /\ after = AccountOrder(row)
    OBVIOUS
  <1>3. /\ old = [j \in DOMAIN orders |-> AccountOrder(orders[j])]
        /\ new = [j \in DOMAIN orders |-> AccountOrder(orders'[j])]
    BY <1>1, <1>2, OrdersIdle, OnlyOrdersSeen
  <1>4. before.open
    BY <1>1, <1>2, OpenMeans
  <1>5. ~after.open /\ after.open \in BOOLEAN
    <2>1. row.status # "open"
      BY <1>1, <1>2 DEF CancelOrder, Order
    <2> QED BY <1>2, <2>1, OpenMeans
  <1>6. after = [before EXCEPT !.open = FALSE]
    <2>1. /\ row.plan = orders[i].plan /\ row.contract = orders[i].contract
          /\ row.side = orders[i].side /\ row.limit = orders[i].limit
          /\ row.requested = orders[i].requested /\ row.filled = orders[i].filled
      BY <1>1, <1>2 DEF CancelOrder, Order
    <2>2. /\ DOMAIN before = {"plan", "contract", "side", "limit", "size", "filled", "open"}
          /\ before = [x \in DOMAIN before |-> before[x]]
      BY <1>2 DEF AccountOrder
    <2>3. after = [x \in DOMAIN before |-> after[x]]
      BY <1>2, <2>2 DEF AccountOrder
    <2>4. /\ after.plan = before.plan /\ after.contract = before.contract
          /\ after.side = before.side /\ after.limit = before.limit
          /\ after.size = before.size /\ after.filled = before.filled
      BY <1>2, <2>1 DEF AccountOrder
    <2>5. PICK mid : mid = [before EXCEPT !.open = FALSE]
      OBVIOUS
    <2>6. mid = [x \in DOMAIN before |-> mid[x]]
      BY <2>5
    <2>7. \A x \in DOMAIN before : x # "open" => mid[x] = before[x]
      BY <2>5
    <2>8. mid["open"] = FALSE
      BY <2>2, <2>5
    <2>9. after["open"] = FALSE
      BY <1>5
    <2>10. \A x \in DOMAIN before : after[x] = mid[x]
      BY <2>2, <2>4, <2>7, <2>8, <2>9
    <2> QED BY <2>3, <2>5, <2>6, <2>10
  <1>7. new = [old EXCEPT ![i].open = FALSE]
    <2>1. old[i] = before /\ DOMAIN old = DOMAIN orders
      BY <1>2, <1>3
    <2>2. new = [old EXCEPT ![i] = after]
      BY <1>1, <1>2, <1>3
    <2> QED BY <1>6, <2>1, <2>2
  <1>8. i \in DOMAIN old /\ old[i].open
    BY <1>2, <1>3, <1>4
  <1>9. Account!Cancel(i)
    BY <1>1, <1>2, <1>7, <1>8, OnlyOrdersSeen DEF Account!Cancel, Mandates
  <1> QED BY <1>2, <1>8, <1>9 DEF Account!Next

LEMMA PublishSeen ==
  ASSUME NEW p \in Plans, NEW payload \in Payloads, PublishIntent(p, payload) PROVE Account!Next
  <1>1. /\ p \notin DOMAIN intents /\ p \in DOMAIN intents'
        /\ DOMAIN intents = DOMAIN intents' \ {p}
        /\ \A q \in DOMAIN intents : intents'[q] = intents[q]
        /\ UNCHANGED <<pc, txn, orders, fills, positions, cash, crashes>>
    BY DEF PublishIntent, Upsert, tickVars, envVars
  <1>2. PICK old, new : old = Mandates /\ new = Mandates'
    OBVIOUS
  <1>3. p \in DOMAIN new /\ old = [q \in DOMAIN new \ {p} |-> new[q]]
    BY <1>1, <1>2 DEF Mandates
  <1>4. Account!Mandate
    BY <1>1, <1>2, <1>3
    DEF Account!Mandate, Mandates, AccountOrders, OrdersBooked, AccountOrder, AccountTrades,
        FillsBooked, QuantityOf, BookedEarly, Booking
  <1> QED BY <1>4 DEF Account!Next

LEMMA BookingStepsUnseen ==
  ASSUME IInv, IInv', [Next]_vars, PersistFill \/ PersistPosition PROVE UNCHANGED Account!vars
  <1>1. Booking /\ Booking' /\ UNCHANGED <<intents, cash, crashes>>
    BY DEF PersistFill, PersistPosition, Booking, envVars
  <1>2. /\ AccountOrders' = AccountOrders
        /\ [c \in Contracts |-> QuantityOf(c)' - BookedEarly(c)']
             = [c \in Contracts |-> QuantityOf(c) - BookedEarly(c)]
    BY <1>1, BookingUnseen
  <1>3. AccountTrades' = AccountTrades
    <2>1. CASE PersistFill
      <3>1. pc = "fill" /\ pc' = "position" /\ fills' = Append(fills, TxnFill)
        BY <2>1 DEF PersistFill, TxnFill
      <3>2. fills \in Seq(Fill) /\ fills' \in Seq(Fill)
        BY DEF IInv, TypeOK
      <3>3. PICK fill, n : fill = TxnFill /\ n = Len(fills)
        OBVIOUS
      <3>4. fills' = Append(fills, fill) /\ n \in Nat
        BY <3>1, <3>2, <3>3
      <3>5. fill \in Fill
        <4>1. Len(fills') = n + 1 /\ fills'[n + 1] = fill
          BY <3>2, <3>3, <3>4
        <4> QED BY <3>2, <3>4, <4>1
      <3>6. SubSeq(fills', 1, Len(fills') - 1) = fills
        BY <3>2, <3>4, <3>5, AppendedCut
      <3>7. FillsBooked' = fills /\ FillsBooked = fills
        BY <3>1, <3>6 DEF FillsBooked
      <3>8. \A f \in DOMAIN fills : fills'[f] = fills[f]
        BY <3>2, <3>4, <3>5, AppendProperties
      <3> QED BY <3>7, <3>8 DEF AccountTrades
    <2>2. CASE PersistPosition
      BY <2>2 DEF PersistPosition, AccountTrades, FillsBooked
    <2> QED BY <2>1, <2>2
  <1> QED BY <1>1, <1>2, <1>3 DEF Account!vars

LEMMA BookingBeginsUnseen ==
  ASSUME ~Booking, pc' = "fill", AccountOrders' = AccountOrders,
         UNCHANGED <<intents, fills, positions, cash, crashes>>
  PROVE  UNCHANGED Account!vars
  <1>1. pc \notin {"position", "cash"} /\ pc' \notin {"position", "cash"}
    BY DEF Booking
  <1> QED BY <1>1 DEF Account!vars, AccountTrades, FillsBooked, QuantityOf, BookedEarly

LEMMA RestUnseen ==
  ASSUME UNCHANGED <<intents, orders, fills, positions, crashes>>, cash'.balance = cash.balance,
         UNCHANGED <<pc, txn>> \/ (~Booking /\ ~Booking')
  PROVE  UNCHANGED Account!vars
  <1>1. CASE UNCHANGED <<pc, txn>>
    BY <1>1 DEF Account!vars, AccountOrders, OrdersBooked, AccountOrder, AccountTrades, FillsBooked,
                QuantityOf, BookedEarly, Booking
  <1>2. CASE ~Booking /\ ~Booking'
    <2>1. pc \notin {"position", "cash"} /\ pc' \notin {"position", "cash"}
      BY <1>2 DEF Booking
    <2> QED BY <1>2, <2>1 DEF Account!vars, AccountOrders, OrdersBooked, AccountOrder, AccountTrades,
                              FillsBooked, QuantityOf, BookedEarly
  <1> QED BY <1>1, <1>2

LEMMA StepSeen ==
  ASSUME IInv, IInv', LegsInv, HandInv, HeldInv, [Next]_vars PROVE [Account!Next]_(Account!vars)
  <1>0. OrderSizes /\ PlacementsFit /\ cash \in Cash /\ held \in Cash
    BY DEF LegsInv, IInv, TypeOK
  <1>1. CASE PersistCash
    BY <1>0, <1>1, SettledStep
  <1>2. CASE Crash
    BY <1>0, <1>2, CrashSeen
  <1>3. CASE PersistFill \/ PersistPosition
    BY <1>3, BookingStepsUnseen
  <1>4. CASE \E p \in Plans, payload \in Payloads : PublishIntent(p, payload)
    BY <1>4, PublishSeen
  <1>5. ASSUME NEW i \in DOMAIN orders, NEW size \in Nat, NEW price \in Nat,
               FillsResting(i, size, price)
        PROVE  UNCHANGED Account!vars
    <2>1. AccountOrders' = AccountOrders
      BY <1>5, FillsRestingUnseen
    <2>2. ~Booking /\ pc' = "fill" /\ UNCHANGED <<intents, fills, positions, cash, crashes>>
      BY <1>5 DEF FillsResting, Booking, envVars
    <2> QED BY <2>1, <2>2, BookingBeginsUnseen
  <1>6. ASSUME NEW a \in pending, NEW n \in Nat, NEW price \in Nat, Crosses(a, n, price)
        PROVE  UNCHANGED Account!vars
    <2>1. PICK row : Appends(n, row) /\ txn'.back # "reconcile"
      BY <1>6 DEF Crosses
    <2>2. /\ ~Booking /\ Booking' /\ pc' = "fill"
          /\ UNCHANGED <<intents, fills, positions, cash, crashes>>
      BY <1>6 DEF Crosses, Booking, envVars
    <2>3. AccountOrders' = AccountOrders
      BY <2>1, <2>2, NewOrderUnseen
    <2> QED BY <2>2, <2>3, BookingBeginsUnseen
  <1>7. ASSUME NEW c \in Contracts, NEW n \in Nat, NEW price \in Nat, Closes(c, n, price)
        PROVE  UNCHANGED Account!vars
    <2>1. PICK row : Appends(n, row) /\ txn'.back # "reconcile"
      BY <1>7 DEF Closes
    <2>2. /\ ~Booking /\ Booking' /\ pc' = "fill"
          /\ UNCHANGED <<intents, fills, positions, cash, crashes>>
      BY <1>7 DEF Closes, Booking, envVars
    <2>3. AccountOrders' = AccountOrders
      BY <2>1, <2>2, NewOrderUnseen
    <2> QED BY <2>2, <2>3, BookingBeginsUnseen
  <1>8. CASE ReconcileFill
    BY <1>5, <1>8, ReconcileWrites
  <1>9. CASE ApplyNext
    <2>1. CASE UNCHANGED <<pc, orders, held, txn>>
      <3>1. UNCHANGED <<intents, fills, positions, cash, crashes>>
        BY <1>9 DEF ApplyNext, envVars
      <3> QED BY <2>1, <3>1, RestUnseen
    <2>2. \A i \in DOMAIN orders : CancelsOpen(i) => Account!Next
      BY CancelSeen
    <2>3. \A a \in pending, n \in Nat : Rests(a, n) => Account!Next
      BY <1>0, RestSeen
    <2> QED BY <1>6, <1>9, <2>1, <2>2, <2>3, ApplyWrites
  <1>10. CASE FlattenCancel
    BY <1>10, FlattenCancelWrites, CancelSeen
  <1>11. CASE \E c \in Contracts : ClosePosition(c)
    BY <1>7, <1>11, CloseWrites
  <1>12. CASE EnsureCash \/ FlattenCancelled
    <2>1. /\ UNCHANGED <<intents, orders, fills, positions, crashes>>
          /\ cash' = cash \/ cash' = RecomputeCash(cash, orders, positions)
          /\ ~Booking /\ ~Booking'
      BY <1>12 DEF EnsureCash, FlattenCancelled, Booking, envVars
    <2>2. cash'.balance = cash.balance
      BY <1>0, <2>1, RecomputeCashFields DEF Cash
    <2> QED BY <2>1, <2>2, RestUnseen
  <1>13. CASE RestateCash
    <2>1. /\ UNCHANGED <<intents, orders, fills, positions, crashes>>
          /\ cash' = RecomputeCash(held, orders, positions) /\ pc = "restate"
          /\ ~Booking /\ ~Booking'
      BY <1>13 DEF RestateCash, Booking, envVars
    <2>2. cash'.balance = cash.balance
      BY <1>0, <2>1, RecomputeCashFields DEF Cash, HeldInv
    <2> QED BY <2>1, <2>2, RestUnseen
  <1>14. CASE \/ BeginTick \/ ScanIntents \/ EndTick \/ \E p \in Plans : LoadIntent(p)
              \/ FinishReconcile \/ EvaluateIntent \/ FinishApply \/ EndFlatten
              \/ \E k \in Complexes : FlattenSnapshot(k)
    <2>1. /\ UNCHANGED <<intents, orders, fills, positions, cash, crashes>>
          /\ ~Booking /\ ~Booking'
      BY <1>14 DEF BeginTick, ScanIntents, EndTick, LoadIntent, FinishReconcile, EvaluateIntent,
                   FinishApply, EndFlatten, FlattenSnapshot, Booking, tableVars, envVars
    <2> QED BY <2>1, RestUnseen
  <1>15. CASE Pause \/ Resume \/ Flatten \/ AdvanceClock \/ UNCHANGED vars
    <2>1. UNCHANGED <<intents, orders, fills, positions, cash, crashes, pc, txn>>
      BY <1>15 DEF Pause, Resume, Flatten, Command, AdvanceClock, vars, tableVars, tickVars, envVars
    <2> QED BY <2>1, RestUnseen
  <1> QED BY <1>1, <1>2, <1>3, <1>4, <1>8, <1>9, <1>10, <1>11, <1>12, <1>13, <1>14, <1>15
      DEF Next, Worker, Environment

LEMMA InitSeen == Init => Account!Init
  <1> SUFFICES ASSUME Init PROVE Account!Init
    OBVIOUS
  <1>1. /\ DOMAIN intents = {} /\ orders = <<>> /\ fills = <<>> /\ pc = "idle" /\ crashes = 0
        /\ DOMAIN positions = {} /\ cash.balance = StartingCash
    BY DEF Init, SeedCash
  <1>2. PICK book, trades : book = AccountOrders /\ trades = AccountTrades
    OBVIOUS
  <1>3. DOMAIN book = {} /\ DOMAIN trades = {}
    BY <1>1, <1>2 DEF AccountOrders, OrdersBooked, AccountTrades, FillsBooked, Booking
  <1>4. book = <<>> /\ trades = <<>>
    <2>1. book = [j \in {} |-> book[j]] /\ trades = [j \in {} |-> trades[j]]
      BY <1>2, <1>3 DEF AccountOrders, AccountTrades
    <2> QED BY <2>1
  <1>5. [p \in DOMAIN intents |-> intents[p].legs] = [p \in {} |-> <<>>]
    BY <1>1
  <1>6. \A c \in Contracts : QuantityOf(c) - BookedEarly(c) = 0
    BY <1>1 DEF QuantityOf, BookedEarly
  <1>7. cash.balance \in Nat
    BY <1>1, BrokerAssumption
  <1> QED BY <1>1, <1>2, <1>4, <1>5, <1>6, <1>7 DEF Account!Init

\* The worker's ticks, with their row-by-row writes, keep the promises of a
\* paper account, whatever the intents, quotes, commands and crashes: orders
\* stay within the mandates of their plans, one at work on each leg; resting
\* orders trade at their limit or better; an order, its fill, its position and
\* its cash move in one step; and only a crash tears a trade.
THEOREM WorkerKeepsTheAccount == Spec => ImplementsAccount
  <1>1. Init => HeldInv
    BY DEF Init, HeldInv
  <1>2. IInv /\ HeldInv /\ [Next]_vars => HeldInv'
    BY HeldStep
  <1>3. IInv /\ LegsInv /\ HandInv /\ HeldInv /\ [Next]_vars => [Account!Next]_(Account!vars)
    BY StepSeen, NextIInv
  <1> QED BY <1>1, <1>2, <1>3, InitSeen, Invariance, LegsInvariance, HandInvariance, PTL
      DEF Spec, ImplementsAccount, Account!Spec
=============================================================================
