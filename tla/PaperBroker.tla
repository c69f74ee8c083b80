----------------------------- MODULE PaperBroker -----------------------------
(***************************************************************************)
(* The paper broker's arithmetic: execution-worker/src/paperBroker.ts      *)
(* without its reads and writes, which ExecutionWorker schedules.          *)
(*                                                                         *)
(* avg_fill_price, net exposure and unrealized PnL only report and are     *)
(* left out, like ids, sleeves and time stamps.                            *)
(***************************************************************************)
EXTENDS Money

CONSTANT StartingCash  \* PAPER_STARTING_CASH_USD, in cents

ASSUME BrokerAssumption == StartingCash \in Nat

OrderStatuses == {"open", "filled", "cancelled"}

-----------------------------------------------------------------------------
(* Orders *)

\* Mutant of ExecutablePrice: the limit is not looked at.
ExecutablePriceAnywhere(order, quote) == IF order.side = "buy" THEN quote.ask ELSE quote.bid

\* The price a resting order trades at, Null when the market is away from it.
ExecutablePrice(order, quote) ==
  CASE order.side = "buy" /\ quote.ask # Null /\ quote.ask <= order.limit -> quote.ask
    [] order.side = "sell" /\ quote.bid # Null /\ order.limit <= quote.bid -> quote.bid
    [] OTHER -> Null

\* A missing or empty depth does not limit the fill.
ExecutableSize(order, quote) ==
  LET depth == IF order.side = "buy" THEN quote.askSize ELSE quote.bidSize
  IN  IF depth = Null \/ depth = 0 THEN order.remaining
      ELSE MinOf(order.remaining, depth)

Executable(order, quote) ==
  ExecutablePrice(order, quote) # Null /\ ExecutableSize(order, quote) > 0

MergeFill(order, size) ==
  LET filled == order.filled + size
  IN  [order EXCEPT !.status = IF filled >= order.requested THEN "filled" ELSE "open",
                    !.filled = filled,
                    !.remaining = MaxOf(0, order.requested - filled)]

\* Mutant of CancelOrder: the cancelled row forgets what was filled.
CancelOrderForgets(order) ==
  [order EXCEPT !.status = "cancelled", !.remaining = 0, !.filled = 0]

CancelOrder(order) == [order EXCEPT !.status = "cancelled", !.remaining = 0]

\* The price of a cross or of a flatten: the touch, else the other side of
\* the book, else the given fallback.
TakePrice(side, quote, fallback) ==
  IF side = "buy" THEN Coalesce(Coalesce(quote.ask, quote.bid), fallback)
                  ELSE Coalesce(Coalesce(quote.bid, quote.ask), fallback)

\* Mutant of AffordableSize: buys are not cut.
AffordableSizeUncut(side, size, limit, available) == size

\* The size a buy is cut to, given the available cash.
AffordableSize(side, size, limit, available) ==
  IF side = "sell" THEN size
  ELSE IF limit > 0 THEN MinOf(size, MaxOf(0, RoundDiv(available * UnitsPerCent, limit)))
  ELSE 0

-----------------------------------------------------------------------------
(* Positions: [complex, qty, avg, realized], realized in notional units.   *)

SignedQuantity(side, size) == IF side = "buy" THEN size ELSE -size

\* Mutant of RealizeAgainstPosition: the average cost of a larger position
\* weighs with signed quantities.
RealizeSigned(position, side, size, price) ==
  LET delta == SignedQuantity(side, size)
      next  == position.qty + delta
  IN  IF position.qty = 0 \/ Sign(position.qty) = Sign(delta)
      THEN [position EXCEPT !.qty = next,
                            !.avg = RoundDiv(position.avg * position.qty + price * delta,
                                             MaxOf(1, Abs(next)))]
      ELSE [position EXCEPT !.qty = next]

RealizeAgainstPosition(position, side, size, price) ==
  LET delta  == SignedQuantity(side, size)
      gross  == Abs(position.qty)
      next   == position.qty + delta
      closed == MinOf(gross, Abs(delta))
      gain   == Sign(position.qty) * (price - position.avg) * closed
  IN  IF position.qty = 0 \/ Sign(position.qty) = Sign(delta)
      THEN [position EXCEPT !.qty = next,
                            !.avg = IF gross + Abs(delta) = 0 THEN 0
                                    ELSE RoundDiv(position.avg * gross + price * Abs(delta),
                                                  gross + Abs(delta))]
      ELSE [position EXCEPT !.qty = next,
                            !.avg = IF next = 0 THEN 0
                                    ELSE IF Sign(next) = Sign(position.qty)
                                    THEN position.avg ELSE price,
                            !.realized = position.realized + gain]

-----------------------------------------------------------------------------
(* Cash: [balance, reserved, realized].  The stored available_cash_usd is  *)
(* always balance - reserved of the same row.                              *)

SeedCash == [balance |-> StartingCash, reserved |-> 0, realized |-> 0]
Available(cash) == cash.balance - cash.reserved

OpenBuys(orders) ==
  {i \in DOMAIN orders : orders[i].status = "open" /\ orders[i].side = "buy"}

\* Mutant of RecomputeCash: what the open buys reserve is not recomputed.
RecomputeCashOnlyRealized(cash, orders, positions) ==
  [cash EXCEPT
     !.realized = RoundUsd(Total([c \in DOMAIN positions |-> positions[c].realized]))]

RecomputeCash(cash, orders, positions) ==
  [cash EXCEPT
     !.reserved = RoundUsd(Total([i \in OpenBuys(orders) |->
                                    orders[i].remaining * orders[i].limit])),
     !.realized = RoundUsd(Total([c \in DOMAIN positions |-> positions[c].realized]))]

\* Mutant of CashAfterFill: a sale is paid for, too.
CashAfterFillUnsigned(cash, side, cents, orders, positions) ==
  RecomputeCash([cash EXCEPT !.balance = @ - cents], orders, positions)

\* The cash a fill leaves.  The caller passes the positions still stored, the
\* ones from before this fill: their realized PnL does not include it.
CashAfterFill(cash, side, cents, orders, positions) ==
  RecomputeCash([cash EXCEPT !.balance = @ - SignedQuantity(side, cents)],
                orders, positions)

-----------------------------------------------------------------------------
(* The aggregated position_snapshot of a market complex. *)

OpenOrdersIn(complex, orders) ==
  {i \in DOMAIN orders : orders[i].status = "open" /\ orders[i].complex = complex}
PositionsIn(complex, positions) ==
  {c \in DOMAIN positions : positions[c].complex = complex}

MarkPrice(contract, position, quotes) ==
  IF contract \in DOMAIN quotes
  THEN Coalesce(Coalesce(quotes[contract].bid, quotes[contract].ask), position.avg)
  ELSE position.avg

GrossExposure(complex, positions, quotes) ==
  RoundUsd(Total([c \in PositionsIn(complex, positions) |->
                    Abs(positions[c].qty) * MarkPrice(c, positions[c], quotes)]))

ReservedInComplex(complex, orders) ==
  RoundUsd(Total([i \in OpenOrdersIn(complex, orders) |->
                    orders[i].remaining * orders[i].limit]))

\* row added to, or replaced in, the table's rows
Upsert(table, key, row) ==
  [k \in DOMAIN table \cup {key} |-> IF k = key THEN row ELSE table[k]]

\* Mutant of UpdateSnapshot: the early return looks at the positions only.
UpdateSnapshotOfPositions(snapshots, complex, orders, positions, quotes) ==
  IF PositionsIn(complex, positions) = {}
  THEN snapshots
  ELSE Upsert(snapshots, complex,
              [gross |-> GrossExposure(complex, positions, quotes),
               reserved |-> ReservedInComplex(complex, orders)])

\* With neither a position row nor an open order the update returns early and
\* leaves the stored snapshot as it was.
UpdateSnapshot(snapshots, complex, orders, positions, quotes) ==
  IF PositionsIn(complex, positions) = {} /\ OpenOrdersIn(complex, orders) = {}
  THEN snapshots
  ELSE Upsert(snapshots, complex,
              [gross |-> GrossExposure(complex, positions, quotes),
               reserved |-> ReservedInComplex(complex, orders)])
=============================================================================
