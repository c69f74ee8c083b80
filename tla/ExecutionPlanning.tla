-------------------------- MODULE ExecutionPlanning --------------------------
(***************************************************************************)
(* trade-core/src/execution.ts: the execution intent for an approved       *)
(* proposal, from the market state of its legs.                            *)
(***************************************************************************)
EXTENDS RiskKernel

CONSTANT PassiveSpread  \* two cents: rest passively when no spread is wider

ASSUME PlanningAssumption == PassiveSpread \in Nat

ExecutionStyle(legs, market) ==
  IF \A k \in DOMAIN legs : SpreadWithin(market[legs[k].contract], PassiveSpread)
  THEN "passive_then_cross" ELSE "cross_only"

\* The near side of the book to rest, the far side to cross, else the other.
LimitPrice(side, style, state) ==
  IF (side = "buy") = (style = "passive_then_cross")
  THEN Coalesce(state.bid, state.ask) ELSE Coalesce(state.ask, state.bid)

\* The legs share the approved cents equally.
PlannedLeg(k, cents, legs, style, market) ==
  LET limit == LimitPrice(legs[k].side, style, market[legs[k].contract])
  IN  [contract |-> legs[k].contract, side |-> legs[k].side, limit |-> limit,
       size |-> RoundDiv(cents * UnitsPerCent, Len(legs) * limit)]

\* A leg without a price has no plan: buildExecutionIntent throws.
HasPrices(legs, market) ==
  \A k \in DOMAIN legs :
    LimitPrice(legs[k].side, ExecutionStyle(legs, market), market[legs[k].contract])
      \notin {Null, 0}

BuildExecutionIntent(proposal, cents, market) ==
  LET style == ExecutionStyle(proposal.legs, market)
  IN  [style |-> style, complex |-> proposal.complex, notional |-> cents,
       legs |-> [k \in DOMAIN proposal.legs |->
                   PlannedLeg(k, cents, proposal.legs, style, market)]]
=============================================================================
