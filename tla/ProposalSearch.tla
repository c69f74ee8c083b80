--------------------------- MODULE ProposalSearch ---------------------------
(***************************************************************************)
(* openclaw-control/src/proposals.ts: the search for events whose          *)
(* exclusive outcomes are together worth more, or less, than one dollar.   *)
(*                                                                         *)
(* A board is the market rows one search reads, [market, contract,         *)
(* outcome, complex, active, question, bid, ask, hours].  Markets are      *)
(* numbered in the order of their names, prices are in cents.  A question  *)
(* is the [entity, template] that exclusiveQuestionKey makes of its text,  *)
(* or Null when no pattern fits it.                                        *)
(***************************************************************************)
EXTENDS Money, Sequences, SequencesExt

CONSTANTS
  Boards,       \* the boards a search may read
  MinEdge,      \* proposalMinEdgeCents
  MaxSpread,    \* proposalMaxSpreadCents
  CostPerLeg,   \* proposalCostPerLegCents
  HoldingHours, \* proposalDefaultHoldingHours
  SizingHint    \* proposalSizingHintUsd, in cents

Par == 100
MinHours == 4

ASSUME SearchAssumption ==
  /\ {MinEdge, HoldingHours, SizingHint} \subseteq Nat \ {0}
  /\ {MaxSpread, CostPerLeg} \subseteq Nat \ {0}
  /\ \A board \in Boards : IsFiniteSet(board)
  /\ \A board \in Boards : \A r \in board :
       /\ r.outcome \in {"yes", "no", "other"} /\ r.active \in BOOLEAN
       /\ r.market \in Nat /\ {r.bid, r.ask, r.hours} \subseteq PriceOrNull

\* The market a contract belongs to is one; its row's key is the contract.
ASSUME BoardAssumption ==
  \A board \in Boards : \A r, s \in board : r.contract = s.contract => r = s

VARIABLES
  board,      \* the rows
  pc,         \* "search" or "done"
  proposals   \* what was found, best edge first

vars == <<board, pc, proposals>>

Init ==
  /\ board \in Boards
  /\ pc = "search"
  /\ proposals = <<>>

-----------------------------------------------------------------------------
(* Baskets: the YES rows of the binary markets of one market complex. *)

RowsOf(market) == {r \in board : r.market = market}

IsBinary(market) ==
  /\ Cardinality(RowsOf(market)) = 2
  /\ \A r \in RowsOf(market) : r.active
  /\ {"yes", "no"} \subseteq {r.outcome : r \in RowsOf(market)}

Basket(complex) ==
  {r \in board : r.complex = complex /\ r.outcome = "yes" /\ IsBinary(r.market)}

\* Mutant of IsExclusiveBasket: the templates may differ.
IsExclusiveOfAnyTemplate(legs) ==
  /\ \A r \in legs : r.question # Null
  /\ \A r, s \in legs : r.question.entity = s.question.entity => r = s

\* One template, and an entity of its own for each leg.
IsExclusiveBasket(legs) ==
  /\ \A r \in legs : r.question # Null
  /\ \A r, s \in legs :
       /\ r.question.template = s.question.template
       /\ r.question.entity = s.question.entity => r = s

Candidates ==
  {complex \in {r.complex : r \in board} :
     Cardinality(Basket(complex)) >= 2 /\ IsExclusiveBasket(Basket(complex))}

-----------------------------------------------------------------------------
(* What a basket is worth. *)

Costs(legs) == CostPerLeg * Cardinality(legs)

\* market-state knows a spread when it knows both prices.
SpreadsFit(legs) ==
  \A r \in legs : r.bid # Null /\ r.ask # Null /\ r.ask - r.bid <= MaxSpread

\* Mutant of FarFromResolution: only an unknown resolution is refused.
KnownResolution(legs) == \A r \in legs : r.hours # Null

FarFromResolution(legs) ==
  \A r \in legs : r.hours # Null /\ r.hours >= MinHours

BuyEdge(legs) == Par - Total([r \in legs |-> r.ask]) - Costs(legs)

SellEdge(legs) == Total([r \in legs |-> r.bid]) - Par - Costs(legs)

Direction(legs) == IF BuyEdge(legs) >= SellEdge(legs) THEN "buy" ELSE "sell"
BestEdge(legs) == MaxOf(BuyEdge(legs), SellEdge(legs))

IsAccepted(legs) ==
  SpreadsFit(legs) /\ FarFromResolution(legs) /\ BestEdge(legs) >= MinEdge

InMarketOrder(legs) ==
  CHOOSE s \in SetToSeqs(legs) : \A k, l \in DOMAIN s : k < l => s[k].market < s[l].market

ProposalOf(complex) ==
  LET legs == Basket(complex)
      ordered == InMarketOrder(legs)
  IN  [sleeve |-> "cross_market_core", complex |-> complex,
       legs |-> [k \in DOMAIN ordered |->
                   [contract |-> ordered[k].contract, side |-> Direction(legs)]],
       hint |-> SizingHint, edge |-> BestEdge(legs),
       holding |-> Min({HoldingHours} \cup {r.hours : r \in legs})]

Found == {ProposalOf(complex) : complex \in {k \in Candidates : IsAccepted(Basket(k))}}

\* Proposals of the same edge stay in the order of the rows, which may be any.
BestFirst(found) ==
  {s \in SetToSeqs(found) : \A i, j \in DOMAIN s : i < j => s[i].edge >= s[j].edge}

\* The operator row, the market-data health row and the market rows are read;
\* nothing is proposed when the operator has stopped, or the data is stale.
Analyze(stopped, stale) ==
  /\ pc = "search"
  /\ pc' = "done"
  /\ proposals' \in IF stopped \/ stale THEN {<<>>} ELSE BestFirst(Found)
  /\ UNCHANGED board

Finished == pc = "done" /\ UNCHANGED vars

Next == (\E stopped, stale \in BOOLEAN : Analyze(stopped, stale)) \/ Finished

Spec == Init /\ [][Next]_vars

-----------------------------------------------------------------------------
(* Properties. *)

\* How the events may resolve: of the entities of one template in one event at
\* most one comes true, and every market that asks for it pays.
Resolutions ==
  {won \in SUBSET {r \in board : r.outcome = "yes"} :
     \A r, s \in {t \in board : t.outcome = "yes" /\ t.question # Null} :
       r.complex = s.complex /\ r.question.template = s.question.template =>
         IF r.question.entity = s.question.entity THEN r \in won <=> s \in won
         ELSE ~(r \in won /\ s \in won)}

RowFor(leg) == CHOOSE r \in board : r.contract = leg.contract

\* What one of each leg brings, after costs, once the markets have resolved.
Outcome(leg, won) ==
  LET r == RowFor(leg)
      worth == IF r \in won THEN Par ELSE 0
  IN  (IF leg.side = "buy" THEN worth - r.ask ELSE r.bid - worth) - CostPerLeg

Profit(proposal, won) ==
  LET each == [k \in DOMAIN proposal.legs |-> Outcome(proposal.legs[k], won)]
  IN  Total(each)

Covered(proposal, won) ==
  \E k \in DOMAIN proposal.legs : RowFor(proposal.legs[k]) \in won

\* The edge a proposal states is what it locks in: equal sizes of its legs earn
\* it at least, however the event resolves, when sold; when bought, if one of
\* the outcomes it names comes true.
EdgeIsLocked ==
  \A i \in DOMAIN proposals : \A won \in Resolutions :
    proposals[i].legs[1].side = "sell" \/ Covered(proposals[i], won) =>
      Profit(proposals[i], won) >= proposals[i].edge

\* What the decision cycle takes for granted of proposals (validateProposal,
\* and execution.ts, which plans the legs of a basket one by one): a basket
\* names each contract and each event once over all proposals, its legs take
\* one side, its edge clears the minimum and nothing resolves before 4 hours.
BasketsPlannable ==
  /\ \A i, j \in DOMAIN proposals :
       /\ proposals[i].complex = proposals[j].complex => i = j
       /\ i < j => proposals[i].edge >= proposals[j].edge
       /\ \A k \in DOMAIN proposals[i].legs, l \in DOMAIN proposals[j].legs :
            RowFor(proposals[i].legs[k]).market = RowFor(proposals[j].legs[l]).market
              => i = j /\ k = l
  /\ \A i \in DOMAIN proposals :
       /\ Len(proposals[i].legs) >= 2
       /\ \A k \in DOMAIN proposals[i].legs :
            proposals[i].legs[k].side = proposals[i].legs[1].side
       /\ proposals[i].edge >= MinEdge /\ proposals[i].holding >= MinOf(MinHours, HoldingHours)
=============================================================================
