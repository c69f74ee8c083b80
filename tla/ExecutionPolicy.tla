--------------------------- MODULE ExecutionPolicy ---------------------------
(***************************************************************************)
(* trade-core/src/executionPolicy.ts: what to do next for one execution    *)
(* intent, given its orders, the quotes read for its legs and the time.    *)
(*                                                                         *)
(* An intent is [style, complex, legs, start, expiry]; its legs are a      *)
(* sequence of [contract, side, limit, size].  cancel_if_unfilled is not a *)
(* field: buildExecutionIntent always sets it (execution.ts:108).          *)
(* orders is the order table and ids the orders of this plan.              *)
(***************************************************************************)
EXTENDS PaperBroker, Sequences

CONSTANT PassiveResting  \* how long a passive order may rest (passiveRestingMs)

ASSUME PolicyAssumption == PassiveResting \in Nat

Styles == {"passive_then_cross", "cross_only"}
ActionStatuses == {"halted", "cancel_requested", "completed", "waiting", "ready"}

\* Prices live on one grid, finer than the code's 0.0001 tolerance.
PassivePriceUsed(intentPrice, orderPrice) == intentPrice = orderPrice

CrossPrice(side, quote) ==
  LET price == TakePrice(side, quote, Null) IN IF price = 0 THEN Null ELSE price

OfLeg(leg, orders, ids) == {i \in ids : orders[i].contract = leg.contract}
OpenOf(orders, ids) == {i \in ids : orders[i].status = "open"}
RestingOf(leg, orders, ids) ==
  {i \in OpenOf(orders, OfLeg(leg, orders, ids)) :
     PassivePriceUsed(leg.limit, orders[i].limit)}

\* Mutant of RemainingSize: only the open orders' fills count.
RemainingSizeOfOpen(leg, orders, ids) ==
  MaxOf(0, leg.size - Total([i \in OpenOf(orders, OfLeg(leg, orders, ids)) |->
                               MinOf(orders[i].filled, orders[i].requested)]))

RemainingSize(leg, orders, ids) ==
  MaxOf(0, leg.size - Total([i \in OfLeg(leg, orders, ids) |->
                               MinOf(orders[i].filled, orders[i].requested)]))

PassiveWindowElapsed(intent, now) == now - intent.start >= PassiveResting
\* Mutant of MayRest: a passive order may rest at any time.
MayRestAnytime(intent, now) == intent.style = "passive_then_cross"

MayRest(intent, now) ==
  intent.style = "passive_then_cross" /\ ~PassiveWindowElapsed(intent, now)

\* Mutant of MustRest: an order already resting is not looked for.
MustRestAgain(intent, leg, orders, ids, now) ==
  /\ RemainingSize(leg, orders, ids) > 0
  /\ MayRest(intent, now)

\* What the passes over a leg come to while some of its size is left.
MustRest(intent, leg, orders, ids, now) ==
  /\ RemainingSize(leg, orders, ids) > 0
  /\ MayRest(intent, now)
  /\ RestingOf(leg, orders, ids) = {}

MustPull(intent, leg, i, orders, ids, now) ==
  /\ RemainingSize(leg, orders, ids) > 0
  /\ intent.style = "passive_then_cross"
  /\ PassiveWindowElapsed(intent, now)
  /\ i \in RestingOf(leg, orders, ids)

\* shouldCross holds whenever the code computes it: the style is cross_only
\* or the passive window has elapsed.
MustCross(intent, leg, orders, ids, now) ==
  LET resting == RestingOf(leg, orders, ids) IN
  /\ RemainingSize(leg, orders, ids) > 0
  /\ ~MayRest(intent, now)
  /\ intent.style = "cross_only" \/ resting = {}
  /\ OpenOf(orders, OfLeg(leg, orders, ids)) \subseteq resting

-----------------------------------------------------------------------------
(* Leg actions carry the index of their leg, which orders them.            *)

LegAction == [leg : Nat, kind : {"place_passive", "place_cross", "cancel"},
              order : Nat, price : PriceOrNull, size : Nat]

Place(k, kind, price, size) ==
  [leg |-> k, kind |-> kind, order |-> 0, price |-> price, size |-> size]
Cancel(k, i) ==
  [leg |-> k, kind |-> "cancel", order |-> i, price |-> Null, size |-> 0]

\* Mutant of ExpiryCancels: an expired intent's orders are left alone.
ExpiryCancelsNone(orders, ids) == {}

ExpiryCancels(orders, ids) == {Cancel(0, i) : i \in OpenOf(orders, ids)}

LegActions(intent, quotes, orders, ids, now) ==
  LET legs      == intent.legs
      left(k)   == RemainingSize(legs[k], orders, ids)
      resting   == {k \in DOMAIN legs : MustRest(intent, legs[k], orders, ids, now)}
      crossing  == {k \in DOMAIN legs : MustCross(intent, legs[k], orders, ids, now)}
      pulls     == {p \in (DOMAIN legs) \X ids :
                      MustPull(intent, legs[p[1]], p[2], orders, ids, now)}
  IN  {Place(k, "place_passive", legs[k].limit, left(k)) : k \in resting}
      \cup {Cancel(p[1], p[2]) : p \in pulls}
      \cup {Place(k, "place_cross", CrossPrice(legs[k].side, quotes[legs[k].contract]),
                  left(k)) : k \in crossing}

\* One leg without a price to cross at halts the whole plan.
NoCrossPrice(intent, quotes, orders, ids, now) ==
  \E k \in DOMAIN intent.legs :
    LET leg == intent.legs[k] IN
    /\ MustCross(intent, leg, orders, ids, now)
    /\ CrossPrice(leg.side, quotes[leg.contract]) = Null

\* Mutant of FullyFilled: a plan is done when nothing of it is open any more.
NothingOpen(intent, orders, ids) == ids # {} /\ OpenOf(orders, ids) = {}

FullyFilled(intent, orders, ids) ==
  \A k \in DOMAIN intent.legs : RemainingSize(intent.legs[k], orders, ids) = 0

Decision(status, actions) == [status |-> status, actions |-> actions]

EvaluateExecutionAction(intent, quotes, orders, ids, healthy, now) ==
  LET actions == LegActions(intent, quotes, orders, ids, now) IN
  CASE ~healthy
         -> Decision("halted", {})
    [] healthy /\ now >= intent.expiry /\ OpenOf(orders, ids) # {}
         -> Decision("cancel_requested", ExpiryCancels(orders, ids))
    [] OTHER
         -> IF NoCrossPrice(intent, quotes, orders, ids, now)
            THEN Decision("halted", {})
            ELSE IF FullyFilled(intent, orders, ids)
            THEN Decision("completed", {})
            ELSE IF actions = {}
            THEN Decision("waiting", {})
            ELSE IF \E a \in actions : a.kind = "cancel"
            THEN Decision("cancel_requested", actions)
            ELSE Decision("ready", actions)
=============================================================================
