---------------------------- MODULE WorkerAccount ----------------------------
(***************************************************************************)
(* ExecutionWorker implements PaperAccount: its four writes for a fill     *)
(* (order, fill, position, cash) come to one step of the account, the      *)
(* last, and a crash before it to a torn trade.                            *)
(***************************************************************************)
EXTENDS ExecutionWorker

\* The order being booked as it was: before its fill, or not placed yet.
OrdersBooked ==
  IF ~Booking THEN orders
  ELSE IF txn.back = "reconcile"
  THEN [orders EXCEPT ![txn.order].filled = @ - txn.size, ![txn.order].status = "open"]
  ELSE SubSeq(orders, 1, Len(orders) - 1)

AccountOrder(order) ==
  [plan |-> order.plan, contract |-> order.contract, side |-> order.side,
   limit |-> order.limit, size |-> order.requested, filled |-> order.filled,
   open |-> order.status = "open"]

AccountOrders == [i \in DOMAIN OrdersBooked |-> AccountOrder(OrdersBooked[i])]

FillsBooked ==
  IF pc \in {"position", "cash"} THEN SubSeq(fills, 1, Len(fills) - 1) ELSE fills

AccountTrades ==
  [f \in DOMAIN FillsBooked |->
     [order |-> fills[f].order, side |-> fills[f].side, size |-> fills[f].size,
      cents |-> fills[f].cents]]

\* The position is written before the cash.
BookedEarly(c) ==
  IF pc = "cash" /\ orders[txn.order].contract = c
  THEN SignedQuantity(orders[txn.order].side, txn.size) ELSE 0

Account == INSTANCE PaperAccount WITH
  NoPlan   <- OperatorFlatten,
  mandates <- [p \in DOMAIN intents |-> intents[p].legs],
  orders   <- AccountOrders,
  trades   <- AccountTrades,
  quantity <- [c \in Contracts |-> QuantityOf(c) - BookedEarly(c)],
  balance  <- cash.balance,
  interruptions <- crashes

\* Every behaviour of the worker, with its ticks, stale copies and crashes, is
\* one of the account: orders stay within their mandates, one at work on each
\* leg, resting orders trade at their limit or better, every trade moves fill,
\* position and cash together, and only a crash tears one.
ImplementsAccount == Account!Spec
=============================================================================
