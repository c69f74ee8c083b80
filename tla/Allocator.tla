------------------------------ MODULE Allocator ------------------------------
(***************************************************************************)
(* trade-core/src/allocator.ts: how much of the bankroll a proposal gets.  *)
(*                                                                         *)
(* A proposal is [sleeve, complex, legs, hint, edge, holding]; its legs    *)
(* are a sequence of [contract, side].  An exposure counts cents: gross,   *)
(* and by sleeve, by market complex and by contract.  The limits of the    *)
(* configuration (bankroll * ratio) need not be whole cents: they are in   *)
(* notional units.                                                         *)
(***************************************************************************)
EXTENDS Money, Sequences, FiniteSets

CONSTANTS
  Sleeves, MarketComplexes, Contracts,
  GrossLimit, SleeveLimit, ComplexLimit, ContractLimit,
  SliceLimit,        \* bankroll * maxInitialOrderSliceRatio
  MaxActiveSleeves

ASSUME AllocatorAssumption ==
  /\ IsFiniteSet(Sleeves)
  /\ GrossLimit \in Nat /\ SleeveLimit \in Nat /\ ComplexLimit \in Nat
  /\ ContractLimit \in Nat /\ SliceLimit \in Nat
  /\ MaxActiveSleeves \in Nat

Proposal ==
  [sleeve : Sleeves, complex : MarketComplexes,
   legs : Seq([contract : Contracts, side : Sides]),
   hint : Nat, edge : Int, holding : Nat]

Exposure ==
  [gross : Nat, sleeve : [Sleeves -> Nat], complex : [MarketComplexes -> Nat],
   contract : [Contracts -> Nat]]

NoExposure ==
  [gross |-> 0, sleeve |-> [s \in Sleeves |-> 0],
   complex |-> [k \in MarketComplexes |-> 0], contract |-> [c \in Contracts |-> 0]]

\* What validateProposal asks of the fields kept here.
IsValid(proposal) ==
  /\ proposal.legs # <<>>
  /\ proposal.edge > 0
  /\ proposal.holding > 0
  /\ \A j, k \in DOMAIN proposal.legs : proposal.legs[j] = proposal.legs[k] => j = k

\* The sizing hint, in cents, else the initial slice.
RequestedNotional(proposal) ==
  IF proposal.hint > 0 THEN proposal.hint ELSE RoundUsd(SliceLimit)

ContractsOf(legs) == {legs[k].contract : k \in DOMAIN legs}

ActiveSleeves(exposure) == Cardinality({s \in Sleeves : exposure.sleeve[s] > 0})

\* A sleeve without exposure may start only below the limit of active sleeves.
SleeveMayTrade(proposal, exposure) ==
  \/ exposure.sleeve[proposal.sleeve] > 0
  \/ ActiveSleeves(exposure) < MaxActiveSleeves

\* What each limit leaves, in notional units; the least counts.
Rooms(proposal, exposure) ==
  {GrossLimit - UnitsPerCent * exposure.gross,
   SleeveLimit - UnitsPerCent * exposure.sleeve[proposal.sleeve],
   ComplexLimit - UnitsPerCent * exposure.complex[proposal.complex],
   SliceLimit}
  \cup {ContractLimit - UnitsPerCent * exposure.contract[c] : c \in ContractsOf(proposal.legs)}

IsLeast(room, rooms) == room \in rooms /\ \A other \in rooms : room <= other

\* Mutant of Capacity: the limit of active sleeves is not looked at.
CapacityIgnoringSleeves(proposal, exposure, room) == RoundUsd(MaxOf(0, room))

Capacity(proposal, exposure, room) ==
  IF SleeveMayTrade(proposal, exposure) THEN RoundUsd(MaxOf(0, room)) ELSE 0

\* Mutant of ReserveExposure: what a proposal gets is given back.
ReserveExposureReleased(proposal, cents, exposure) ==
  [exposure EXCEPT !.gross = @ - cents, !.sleeve[proposal.sleeve] = @ - cents]

ReserveExposure(proposal, cents, exposure) ==
  [gross |-> exposure.gross + cents,
   sleeve |-> [exposure.sleeve EXCEPT ![proposal.sleeve] = @ + cents],
   complex |-> [exposure.complex EXCEPT ![proposal.complex] = @ + cents],
   contract |-> [c \in Contracts |->
                   exposure.contract[c] +
                     RoundDiv(cents, Len(proposal.legs)) *
                     Cardinality({k \in DOMAIN proposal.legs : proposal.legs[k].contract = c})]]
=============================================================================
