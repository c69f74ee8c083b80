------------------------------ MODULE RiskKernel ------------------------------
(***************************************************************************)
(* trade-core/src/risk.ts: the checks between an allocation and an         *)
(* execution intent.                                                       *)
(*                                                                         *)
(* The halting checks on health and losses are given as the set of those   *)
(* that fail.  The names and results of the checks and the reasons are     *)
(* reports and left out, and so are three checks that cannot fail where    *)
(* the decision cycle calls: the costs it passes are zero, live execution  *)
(* is never requested, and the allocator forwards no proposal without      *)
(* invalidators.                                                           *)
(***************************************************************************)
EXTENDS Allocator

CONSTANTS
  Par,              \* the price of one dollar
  MaxSpread,        \* maxSpreadCents, in prices, like edges
  MinEdge,          \* minEdgeCents
  MinHours, MaxHours,
  DepthMultiplier   \* minDepthMultiplier

ASSUME RiskAssumption ==
  /\ Par \in Nat \ {0} /\ DepthMultiplier \in Nat \ {0}
  /\ MaxSpread \in Nat /\ MinEdge \in Nat /\ MinHours \in Nat /\ MaxHours \in Nat

\* A quote with the hours to the market's resolution, when known.
MarketState ==
  [bid : PriceOrNull, ask : PriceOrNull, bidSize : PriceOrNull, askSize : PriceOrNull,
   hours : PriceOrNull]

HaltChecks ==
  {"market_state_fresh", "account_state_fresh", "account_reconciliation",
   "execution_heartbeat", "wallet_balance_match", "drawdown_limits"}

RiskStatuses == {"approved", "resized", "rejected", "halted"}

SpreadWithin(state, limit) ==
  state.bid # Null /\ state.ask # Null /\ state.ask - state.bid <= limit

InWindow(hours) == MinHours <= hours /\ hours <= MaxHours

\* The visible size, whatever the side.
Depth(state) == MinOf(Coalesce(state.bidSize, 0), Coalesce(state.askSize, 0))

IsThinnest(k, legs, market) ==
  \A j \in DOMAIN legs : Depth(market[legs[k].contract]) <= Depth(market[legs[j].contract])

\* Mutant of Halted: a pause is not looked at.
HaltedByFlatten(operatorSeen, failing) == operatorSeen.flatten \/ failing # {}

Halted(operatorSeen, failing) ==
  operatorSeen.paused \/ operatorSeen.flatten \/ failing # {}

\* A leg without depth is rejected only when there is something to place.
LegAccepted(proposal, cents, state) ==
  /\ SpreadWithin(state, MaxOf(MaxSpread, proposal.edge - 1))
  /\ cents = 0 \/ Depth(state) > 0
  /\ state.hours = Null \/ InWindow(state.hours)

Accepted(proposal, cents, market) ==
  /\ proposal.edge > 0
  /\ proposal.edge >= MinEdge
  /\ InWindow(proposal.holding)
  /\ \A k \in DOMAIN proposal.legs :
       LegAccepted(proposal, cents, market[proposal.legs[k].contract])

\* The least of the allocation, the initial slice and what the thinnest leg's
\* depth allows (depth * legs / DepthMultiplier dollars), in whole cents.
ApprovedNotional(proposal, cents, depth) ==
  RoundDiv(MinOf(MinOf(cents * UnitsPerCent * DepthMultiplier, SliceLimit * DepthMultiplier),
                 depth * Par * Len(proposal.legs)),
           UnitsPerCent * DepthMultiplier)

RiskDecision(status, cents) == [status |-> status, cents |-> cents]

EvaluateRisk(proposal, cents, operatorSeen, failing, market, thinnest) ==
  LET approved == ApprovedNotional(proposal, cents,
                                   Depth(market[proposal.legs[thinnest].contract]))
  IN  IF Halted(operatorSeen, failing) THEN RiskDecision("halted", 0)
      ELSE IF ~Accepted(proposal, cents, market) THEN RiskDecision("rejected", 0)
      ELSE IF approved < cents THEN RiskDecision("resized", approved)
      ELSE RiskDecision("approved", approved)
=============================================================================
