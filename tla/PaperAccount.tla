----------------------------- MODULE PaperAccount -----------------------------
(***************************************************************************)
(* What the paper broker promises the plans it works for, with nothing of  *)
(* how it goes about it: no ticks, no reads, no rows written one by one.   *)
(*                                                                         *)
(* A plan is a mandate for its legs.  Orders are placed within a mandate,  *)
(* one at a time for each leg, or to close a position.  A trade is one     *)
(* step, in which the order, its fill, the position and the cash move      *)
(* together.  Only an interruption tears a trade: the account then has a   *)
(* beginning of it and never gets the rest.                                *)
(***************************************************************************)
EXTENDS Money, Sequences

CONSTANTS Contracts, NoPlan  \* the plan of an order that closes a position

VARIABLES
  mandates,  \* plan -> its legs, [contract, side, limit, size]
  orders,    \* [plan, contract, side, limit, size, filled, open], in order of creation
  trades,    \* [order, side, size, cents], in order of booking
  quantity,  \* contract -> what is held of it
  balance,   \* cents
  interruptions

vars == <<mandates, orders, trades, quantity, balance, interruptions>>

Newest(s) == s[Len(s)]
Signed(side, n) == IF side = "buy" THEN n ELSE -n
OnContract(p, c) == {i \in DOMAIN orders : orders[i].plan = p /\ orders[i].contract = c}
Taken(p, c) == Total([i \in OnContract(p, c) |-> orders[i].filled])

Init ==
  /\ mandates = [p \in {} |-> <<>>]
  /\ orders = <<>>
  /\ trades = <<>>
  /\ quantity = [c \in Contracts |-> 0]
  /\ balance \in Nat
  /\ interruptions = 0

-----------------------------------------------------------------------------
(* Which orders may be placed. *)

\* The leg has that much left and no other order is at work on it.
WithinMandate(order) ==
  /\ order.plan \in DOMAIN mandates
  /\ \A i \in OnContract(order.plan, order.contract) : ~orders[i].open
  /\ \E k \in DOMAIN mandates[order.plan] :
       LET leg == mandates[order.plan][k] IN
       /\ leg.contract = order.contract /\ leg.side = order.side
       /\ order.size <= leg.size - Taken(order.plan, leg.contract)
       /\ order.open => order.limit = leg.limit

\* The order takes the position to zero.
ClosesPosition(order) ==
  /\ order.plan = NoPlan
  /\ ~order.open
  /\ Signed(order.side, order.size) = -quantity[order.contract]

-----------------------------------------------------------------------------
(* Trades. *)

Executes(i, size) ==
  orders' = [orders EXCEPT ![i].filled = @ + size,
                           ![i].open = orders[i].filled + size < orders[i].size]

\* A new order that is executed at once, whole.
Takes(order) ==
  /\ orders' = Append(orders, order)
  /\ order.size > 0 /\ order.filled = order.size /\ ~order.open
  /\ WithinMandate(order) \/ ClosesPosition(order)

\* The trade's order is one that the step executes.
Books(i, side, size) ==
  LET trade == Newest(trades') IN
  /\ Len(trades') = Len(trades) + 1
  /\ trades' = Append(trades, trade)
  /\ trade.order = i /\ trade.side = side /\ trade.size = size

Moves(contract, side, size) ==
  quantity' = [quantity EXCEPT ![contract] = @ + Signed(side, size)]

\* A buy pays, and a sale earns, what its trade says.
Settles(side) == balance' = balance - Signed(side, Newest(trades').cents)

\* A resting order never trades at a price worse than its limit.
AtLimitOrBetter(order, size) ==
  LET atLimit == RoundUsd(order.limit * size)
  IN  IF order.side = "buy" THEN Newest(trades').cents <= atLimit
                            ELSE Newest(trades').cents >= atLimit

TradeResting(i, size) ==
  LET order == orders[i] IN
  /\ order.open
  /\ Executes(i, size)
  /\ Books(i, order.side, size)
  /\ Moves(order.contract, order.side, size)
  /\ Settles(order.side)
  /\ AtLimitOrBetter(order, size)
  /\ UNCHANGED <<mandates, interruptions>>

Take ==
  LET order == Newest(orders') IN
  /\ Len(orders') = Len(orders) + 1
  /\ Takes(order)
  /\ Books(Len(orders'), order.side, order.size)
  /\ Moves(order.contract, order.side, order.size)
  /\ Settles(order.side)
  /\ UNCHANGED <<mandates, interruptions>>

\* The order is executed; the trade may be booked, and then the position moved.
Torn(i, contract, side, size) ==
  /\ \/ UNCHANGED <<trades, quantity>>
     \/ Books(i, side, size) /\ UNCHANGED quantity
     \/ Books(i, side, size) /\ Moves(contract, side, size)
  /\ interruptions' = interruptions + 1
  /\ UNCHANGED <<mandates, balance>>

TearResting(i, size) ==
  /\ orders[i].open
  /\ Executes(i, size)
  /\ Torn(i, orders[i].contract, orders[i].side, size)

TearTake ==
  LET order == Newest(orders') IN
  /\ Len(orders') = Len(orders) + 1
  /\ Takes(order)
  /\ Torn(Len(orders'), order.contract, order.side, order.size)

-----------------------------------------------------------------------------
(* The rest of an order's life. *)

Mandate ==
  /\ \E p \in DOMAIN mandates' : mandates = [q \in DOMAIN mandates' \ {p} |-> mandates'[q]]
  /\ UNCHANGED <<orders, trades, quantity, balance, interruptions>>

Rest ==
  LET order == Newest(orders') IN
  /\ Len(orders') = Len(orders) + 1
  /\ orders' = Append(orders, order)
  /\ order.open /\ order.filled = 0 /\ order.size > 0
  /\ WithinMandate(order)
  /\ UNCHANGED <<mandates, trades, quantity, balance, interruptions>>

\* A cancelled order keeps what it has filled.
Cancel(i) ==
  /\ orders[i].open
  /\ orders' = [orders EXCEPT ![i].open = FALSE]
  /\ UNCHANGED <<mandates, trades, quantity, balance, interruptions>>

Interrupt ==
  /\ interruptions' = interruptions + 1
  /\ UNCHANGED <<mandates, orders, trades, quantity, balance>>

Next ==
  \/ Mandate
  \/ Interrupt
  \/ Rest
  \/ Take
  \/ TearTake
  \/ \E i \in DOMAIN orders :
       \/ Cancel(i)
       \/ \E size \in 1 .. orders[i].size - orders[i].filled :
            TradeResting(i, size) \/ TearResting(i, size)

Spec == Init /\ [][Next]_vars
=============================================================================
