-------------------------- MODULE OrderReconciler --------------------------
(***************************************************************************)
(* trade-core/src/reconciler.ts: what the system knows of its live orders  *)
(* from the messages of the exchange's user channel.                       *)
(*                                                                         *)
(* The exchange is external.  It tells each match by a trade message and   *)
(* then an order message for each order of ours in it, with the cumulative *)
(* size, in one stream; a new connection repeats the stream from an        *)
(* earlier message on.  A process that starts again remembers nothing.     *)
(***************************************************************************)
EXTENDS Naturals, Sequences, SequencesExt

CONSTANTS
  Orders,      \* ids of orders the system places
  Contracts,   \* asset ids
  Plans,       \* order plan ids
  Sizes,       \* sizes an order may have
  Nobody,      \* a taker or plan that is not ours, or no value
  MaxMatches,  \* bound: matches at the exchange
  MaxFaults    \* bound: reconnections and restarts

ASSUME ReconcilerAssumption ==
  /\ IsFiniteSet(Orders) /\ Nobody \notin Orders \cup Plans
  /\ Sizes \subseteq Nat \ {0}
  /\ MaxMatches \in Nat /\ MaxFaults \in Nat

VARIABLES
  \* The exchange.
  book,      \* our orders there: id -> [contract, size, matched, live]
  sent,      \* the stream so far
  next,      \* the message delivered next
  \* ExecutionReconciler.
  orders,            \* id -> [contract, originalSize, filledSize]
  contractToPlanId,
  reported,  \* the last order_event about each order
  matches, faults

exchange == <<book, sent>>
memory == <<orders, contractToPlanId>>
vars == <<exchange, next, memory, reported, matches, faults>>

MinOf(a, b) == IF a <= b THEN a ELSE b
With(f, x, value) == [y \in DOMAIN f \cup {x} |-> IF y = x THEN value ELSE f[y]]

Init ==
  /\ book = [o \in {} |-> Nobody] /\ sent = <<>> /\ next = 1
  /\ orders = [o \in {} |-> Nobody]
  /\ contractToPlanId = [c \in Contracts |-> Nobody]
  /\ reported = [o \in Orders |-> Nobody]
  /\ matches = 0 /\ faults = 0

-----------------------------------------------------------------------------
(* The exchange. *)

OrderMessage(type, o, order) ==
  [event |-> "order", type |-> type, order |-> o, contract |-> order.contract,
   size |-> order.size, matched |-> order.matched]

Place(o, c, size) ==
  /\ o \notin DOMAIN book
  /\ LET order == [contract |-> c, size |-> size, matched |-> 0, live |-> TRUE]
     IN  /\ book' = With(book, o, order)
         /\ sent' = Append(sent, OrderMessage("PLACEMENT", o, order))
  /\ UNCHANGED <<next, memory, reported, matches, faults>>

Cancel(o) ==
  /\ o \in DOMAIN book /\ book[o].live /\ book[o].matched < book[o].size
  /\ book' = [book EXCEPT ![o].live = FALSE]
  /\ sent' = Append(sent, OrderMessage("CANCELLATION", o, book[o]))
  /\ UNCHANGED <<next, memory, reported, matches, faults>>

Room(o) == IF book[o].live THEN book[o].size - book[o].matched ELSE 0

\* A taker, ours or not, takes one unit of each of our makers, or of others.
Match(makers, taker) ==
  LET ours == makers \cup ({taker} \ {Nobody})
      amount(o) == IF o \in makers THEN 1 ELSE IF makers = {} THEN 1 ELSE Cardinality(makers)
      filled == [o \in DOMAIN book |->
                   IF o \in ours THEN [book[o] EXCEPT !.matched = @ + amount(o)] ELSE book[o]]
      inTurn == SetToSeq(ours)
      updates == [i \in DOMAIN inTurn |->
                    OrderMessage("UPDATE", inTurn[i], filled[inTurn[i]])]
      trade == [event |-> "trade", makers |-> [o \in makers |-> 1], taker |-> taker,
                size |-> IF makers = {} THEN 1 ELSE Cardinality(makers)]
  IN
  /\ matches < MaxMatches
  /\ taker \notin makers /\ ours # {} /\ ours \subseteq DOMAIN book
  /\ \A o \in ours : amount(o) <= Room(o)
  /\ matches' = matches + 1
  /\ book' = filled
  /\ sent' = Append(sent, trade) \o updates
  /\ UNCHANGED <<next, memory, reported, faults>>

-----------------------------------------------------------------------------
(* ingest. *)

\* Mutant of Tracked: a size never goes back.
TrackedForward(message) ==
  [contract |-> message.contract, originalSize |-> message.size,
   filledSize |-> IF message.order \in DOMAIN orders /\ orders[message.order].filledSize > message.matched
                  THEN orders[message.order].filledSize ELSE message.matched]

\* What is known of the order before does not count.
Tracked(message) ==
  [contract |-> message.contract, originalSize |-> message.size,
   filledSize |-> message.matched]

OrderStatus(message) ==
  CASE message.type = "PLACEMENT" -> "placed"
    [] message.type = "CANCELLATION" -> "cancelled"
    [] OTHER -> IF message.matched >= message.size THEN "filled" ELSE "partially_filled"

Remaining(order) ==
  order.originalSize - MinOf(order.originalSize, order.filledSize)

OrderEvent(order, status) ==
  [plan |-> contractToPlanId[order.contract], status |-> status,
   filled |-> order.filledSize, remaining |-> Remaining(order)]

IngestOrder(message) ==
  LET order == Tracked(message) IN
  /\ message.event = "order"
  /\ orders' = With(orders, message.order, order)
  /\ reported' = [reported EXCEPT ![message.order] = OrderEvent(order, OrderStatus(message))]

\* Mutant of TakerFill: the sum is not capped.
TakerFillUncapped(order, size) == order.filledSize + size

TakerFill(order, size) == MinOf(order.originalSize, order.filledSize + size)

\* The orders a trade changes and their new filled sizes: its makers that are
\* tracked, by what this match took of them; if there are none, its taker.
TradeFills(message) ==
  LET makers == DOMAIN message.makers \cap DOMAIN orders IN
  IF makers # {} THEN [o \in makers |-> message.makers[o]]
  ELSE [o \in {message.taker} \cap DOMAIN orders |-> TakerFill(orders[o], message.size)]

IngestTrade(message) ==
  LET fills == TradeFills(message)
      after == [o \in DOMAIN orders |->
                  IF o \in DOMAIN fills THEN [orders[o] EXCEPT !.filledSize = fills[o]]
                  ELSE orders[o]]
  IN
  /\ message.event = "trade"
  /\ orders' = after
  /\ reported' = [o \in Orders |->
       IF o \in DOMAIN fills
       THEN OrderEvent(after[o], IF Remaining(after[o]) = 0 THEN "filled" ELSE "trade_update")
       ELSE reported[o]]

Deliver ==
  /\ next <= Len(sent)
  /\ IngestOrder(sent[next]) \/ IngestTrade(sent[next])
  /\ next' = next + 1
  /\ UNCHANGED <<exchange, contractToPlanId, matches, faults>>

\* The contracts of the plan's legs; a later plan takes over an earlier one's.
RegisterIntent(plan, contracts) ==
  /\ contractToPlanId' = [c \in Contracts |-> IF c \in contracts THEN plan ELSE contractToPlanId[c]]
  /\ UNCHANGED <<exchange, next, orders, reported, matches, faults>>

-----------------------------------------------------------------------------
(* Faults. *)

Reconnect ==
  /\ faults < MaxFaults
  /\ faults' = faults + 1
  /\ next' \in 1 .. next
  /\ UNCHANGED <<exchange, memory, reported, matches>>

Restart ==
  /\ faults < MaxFaults
  /\ faults' = faults + 1
  /\ orders' = [o \in {} |-> Nobody]
  /\ contractToPlanId' = [c \in Contracts |-> Nobody]
  /\ UNCHANGED <<exchange, next, reported, matches>>

Next ==
  \/ \E o \in Orders : Cancel(o) \/ \E c \in Contracts, size \in Sizes : Place(o, c, size)
  \/ \E makers \in SUBSET Orders, taker \in Orders \cup {Nobody} : Match(makers, taker)
  \/ Deliver
  \/ \E plan \in Plans, contracts \in SUBSET Contracts \ {{}} : RegisterIntent(plan, contracts)
  \/ Reconnect \/ Restart

Spec == Init /\ [][Next]_vars

-----------------------------------------------------------------------------
(* Properties. *)

Statuses == {"placed", "cancelled", "filled", "partially_filled", "trade_update"}

\* Types; and no order is ever taken to be filled beyond its size, whatever is
\* repeated.
TypeOK ==
  /\ DOMAIN book \subseteq Orders /\ DOMAIN orders \subseteq Orders
  /\ next \in 1 .. Len(sent) + 1
  /\ contractToPlanId \in [Contracts -> Plans \cup {Nobody}]
  /\ \A o \in DOMAIN orders :
       /\ orders[o].contract \in Contracts
       /\ orders[o].originalSize \in Sizes
       /\ orders[o].filledSize \in 0 .. orders[o].originalSize
  /\ \A o \in Orders :
       reported[o] # Nobody => /\ reported[o].status \in Statuses
                               /\ reported[o].plan \in Plans \cup {Nobody}

StatusAtExchange(order) ==
  CASE ~order.live -> "cancelled"
    [] order.live /\ order.matched = order.size -> "filled"
    [] order.live /\ order.matched = 0 -> "placed"
    [] OTHER -> "partially_filled"

\* Once the stream has been delivered, what is tracked of an order and what was
\* last reported of it are what the exchange has, although a trade in between
\* may have set it too low (a maker's earlier matches forgotten) or too high (a
\* repeated trade of a taker added again), and although a restart or a new
\* connection came at any message.
ReconciledWhenQuiet ==
  next > Len(sent) =>
    \A o \in DOMAIN orders :
      /\ orders[o].filledSize = book[o].matched
      /\ reported[o].status = StatusAtExchange(book[o])
      /\ reported[o].remaining = book[o].size - book[o].matched
=============================================================================
