------------------------ MODULE DecisionCycleProofs ------------------------
(***************************************************************************)
(* Proofs about DecisionCycle, for any cycles, proposals, markets and      *)
(* limits.                                                                 *)
(***************************************************************************)
EXTENDS DecisionCycle, MoneyProofs, FiniteSetTheorems, SequenceTheorems

-----------------------------------------------------------------------------
(* The inductive invariant. *)

\* As Exposure, without the sign, which MoreTyped adds below.
Exposures ==
  [gross : Int, sleeve : [Sleeves -> Int], complex : [MarketComplexes -> Int],
   contract : [Contracts -> Int]]

\* A writer of position snapshots puts one.
Updating ==
  \/ \E intent \in intents : UpdateAggregatedPositionSnapshot(intent)
  \/ \E k \in Held : UpdateAccountPosition(k)

OperatorState == [paused : BOOLEAN, flatten : BOOLEAN]
Allocation == [proposal : Opportunities, cents : Nat, forwarded : BOOLEAN]
Decision == [proposal : Opportunities, status : RiskStatuses, cents : Nat]
Write == [table : {"state"}, row : Intent] \cup [table : {"ledger"}, row : Row]

Typed ==
  /\ operator \in OperatorState
  /\ \A k \in DOMAIN snapshots : snapshots[k] \in [sleeve : Sleeves, cents : Nat]
  /\ intents \subseteq Intent
  /\ pc \in [Cycles -> Phases]
  /\ seen \in [Cycles -> OperatorState]
  /\ proposals \in [Cycles -> SUBSET Opportunities]
  /\ loaded \in [Cycles -> Exposures] /\ exposure \in [Cycles -> Exposures]
  /\ allocations \in [Cycles -> Seq(Allocation)]
  /\ risks \in [Cycles -> Seq(Decision)]
  /\ plans \in [Cycles -> Seq(Intent)]
  /\ outbox \in [Cycles -> Seq(Write)]

Good(status) == status \in {"approved", "resized"}

\* The legs of an intent take no more than their shares, to half a unit.
Affordable(i) ==
  \A k \in DOMAIN i.legs :
    LET limit == i.legs[k].limit
    IN  2 * Len(i.legs) * limit * i.legs[k].size
          <= 2 * UnitsPerCent * i.notional + Len(i.legs) * limit

\* What a cycle has decided: every approval rests on an allocation and is
\* planned, or is about to be, and every plan rests on an approval.
Decided(c) ==
  /\ \A j \in DOMAIN risks[c] : Good(risks[c][j].status) =>
       /\ ~Stopped(seen[c])
       /\ \E n \in DOMAIN allocations[c] :
            /\ allocations[c][n].forwarded
            /\ allocations[c][n].proposal = risks[c][j].proposal
            /\ risks[c][j].cents <= allocations[c][n].cents
       /\ \/ pc[c] = "plan" /\ j = Len(risks[c])
          \/ \E k \in DOMAIN plans[c] : plans[c][k].proposal = risks[c][j].proposal
                                        /\ plans[c][k].notional = risks[c][j].cents
  /\ \A k \in DOMAIN plans[c] :
       /\ plans[c][k].cycle = c /\ Affordable(plans[c][k])
       /\ \E j \in DOMAIN risks[c] : /\ Good(risks[c][j].status)
                                     /\ risks[c][j].proposal = plans[c][k].proposal
                                     /\ risks[c][j].cents = plans[c][k].notional
  /\ pc[c] = "plan" => risks[c] # <<>> /\ Good(risks[c][Len(risks[c])].status)
  /\ pc[c] = "start" => risks[c] = <<>> /\ plans[c] = <<>>

\* The rows that stand behind an intent.
Accounted(i, rows) ==
  /\ LedgerRow("strategy_proposal", i.cycle, i.proposal, "none", 0).row \in rows
  /\ \E row \in rows : /\ row.kind = "allocator_decision" /\ row.cycle = i.cycle
                       /\ row.proposal = i.proposal
                       /\ row.status = "forwarded_to_risk" /\ i.notional <= row.cents
  /\ \E row \in rows : /\ row.kind = "risk_decision" /\ row.cycle = i.cycle
                       /\ row.proposal = i.proposal
                       /\ Good(row.status)
                       /\ i.notional = row.cents

\* What the ledger holds before the n-th of a list of writes, and what both
\* tables hold after the last.
Before(rows, s, n) ==
  rows \cup {s[m].row : m \in {m \in DOMAIN s : m < n /\ s[m].table = "ledger"}}
RowsAfter(rows, s) == rows \cup {s[m].row : m \in {m \in DOMAIN s : s[m].table = "ledger"}}
IntentsAfter(set, s) == set \cup {s[m].row : m \in {m \in DOMAIN s : s[m].table = "state"}}

\* No intent goes out before what stands behind it, and the cycle's own row last.
Ordered(c, s, rows, stopped) ==
  \A n \in DOMAIN s :
    /\ s[n].row.cycle = c
    /\ s[n].table = "state" => /\ ~stopped
                               /\ Accounted(s[n].row, Before(rows, s, n))
                               /\ Affordable(s[n].row)
    /\ s[n] = CycleRow(c) => n = Len(s)

Settled(c, s, rows, set) ==
  \A row \in RowsAfter(rows, s) :
    row.kind = "risk_decision" /\ row.cycle = c /\ Good(row.status)
      => /\ \E i \in IntentsAfter(set, s) : i.cycle = c /\ i.proposal = row.proposal
         /\ LedgerRow("execution_intent", c, row.proposal, "none", row.cents).row
              \in RowsAfter(rows, s)

Writing(c) ==
  /\ pc[c] = "write" <=> outbox[c] # <<>>
  /\ Ordered(c, outbox[c], ledger, Stopped(seen[c]))
  /\ pc[c] = "write" \/ CycleRow(c).row \in ledger => Settled(c, outbox[c], ledger, intents)
  /\ CycleRow(c).row \in ledger => pc[c] = "done"
  /\ pc[c] \notin {"write", "done"} => \A row \in ledger : row.cycle # c

Published ==
  \A i \in intents :
    /\ Accounted(i, ledger) /\ Affordable(i)
    /\ ~Stopped(seen[i.cycle])
    /\ pc[i.cycle] \in {"write", "done"}

IInv ==
  /\ Typed
  /\ \A c \in Cycles : Decided(c) /\ Writing(c)
  /\ Published

-----------------------------------------------------------------------------
(* What the helpers return. *)

LEMMA Proposed ==
  ASSUME NEW p \in Opportunities
  PROVE  /\ p.sleeve \in Sleeves /\ p.complex \in MarketComplexes
         /\ p.hint \in Nat /\ p.edge \in Int /\ p.holding \in Nat
         /\ p.legs \in Seq([contract : Contracts, side : Sides])
         /\ Len(p.legs) \in Nat /\ DOMAIN p.legs = 1 .. Len(p.legs)
         /\ \A k \in DOMAIN p.legs : p.legs[k].contract \in Contracts
                                      /\ p.legs[k].side \in Sides
  <1>1. p \in Proposal
    BY CycleAssumption
  <1>2. /\ p.sleeve \in Sleeves /\ p.complex \in MarketComplexes
        /\ p.hint \in Nat /\ p.edge \in Int /\ p.holding \in Nat
        /\ p.legs \in Seq([contract : Contracts, side : Sides])
    BY <1>1 DEF Proposal
  <1>3. /\ Len(p.legs) \in Nat /\ DOMAIN p.legs = 1 .. Len(p.legs)
        /\ \A k \in DOMAIN p.legs : p.legs[k] \in [contract : Contracts, side : Sides]
    BY <1>2, LenProperties, ElementOfSeq
  <1> QED BY <1>2, <1>3

LEMMA UpdatingPuts ==
  ASSUME Typed, Updating
  PROVE  \E k \in MarketComplexes, sleeve \in Sleeves : PutSnapshot(k, sleeve)
  <1>1. ASSUME NEW i \in intents, UpdateAggregatedPositionSnapshot(i)
        PROVE  \E k \in MarketComplexes, sleeve \in Sleeves : PutSnapshot(k, sleeve)
    <2>1. i.proposal \in Opportunities
      BY DEF Typed, Intent
    <2> QED BY <1>1, <2>1, Proposed DEF UpdateAggregatedPositionSnapshot
  <1>2. ASSUME NEW k \in Held, UpdateAccountPosition(k)
        PROVE  \E o \in MarketComplexes, sleeve \in Sleeves : PutSnapshot(o, sleeve)
    BY <1>2, CycleAssumption DEF UpdateAccountPosition
  <1> QED BY <1>1, <1>2 DEF Updating

LEMMA RoomsAreInt ==
  ASSUME NEW p \in Opportunities, NEW e \in Exposures
  PROVE  Rooms(p, e) \subseteq Int
  <1>1. \A a, b \in Int : a * b \in Int /\ a - b \in Int
    OBVIOUS
  <1>2. /\ e.gross \in Int /\ e.sleeve[p.sleeve] \in Int /\ e.complex[p.complex] \in Int
        /\ \A c \in ContractsOf(p.legs) : e.contract[c] \in Int
    BY Proposed DEF Exposures, ContractsOf
  <1>3. /\ {GrossLimit, SleeveLimit, ComplexLimit, ContractLimit, SliceLimit} \subseteq Int
        /\ UnitsPerCent \in Int
    BY AllocatorAssumption, MoneyAssumption
  <1>4. \A c \in ContractsOf(p.legs) : ContractLimit - UnitsPerCent * e.contract[c] \in Int
    BY <1>1, <1>2, <1>3
  <1>5. /\ GrossLimit - UnitsPerCent * e.gross \in Int
        /\ SleeveLimit - UnitsPerCent * e.sleeve[p.sleeve] \in Int
        /\ ComplexLimit - UnitsPerCent * e.complex[p.complex] \in Int
    BY <1>1, <1>2, <1>3
  <1> DEFINE others == {ContractLimit - UnitsPerCent * e.contract[c] : c \in ContractsOf(p.legs)}
  <1>6. others \subseteq Int
    BY <1>4
  <1>7. Rooms(p, e) = {GrossLimit - UnitsPerCent * e.gross,
                      SleeveLimit - UnitsPerCent * e.sleeve[p.sleeve],
                      ComplexLimit - UnitsPerCent * e.complex[p.complex],
                      SliceLimit} \cup others
    BY DEF Rooms
  <1> HIDE DEF others
  <1> QED BY <1>3, <1>5, <1>6, <1>7

\* What fits into a room is a natural number of cents and, rounded, no more
\* than the room.
LEMMA CapacityFits ==
  ASSUME NEW p, NEW e, NEW room \in Int
  PROVE  /\ Capacity(p, e, room) \in Nat
         /\ Capacity(p, e, room) > 0 =>
              2 * (UnitsPerCent * Capacity(p, e, room)) <= 2 * room + UnitsPerCent
         /\ Capacity(p, e, room) > 0 => SleeveMayTrade(p, e)
  <1> DEFINE U == UnitsPerCent
             left == MaxOf(0, room)
  <1>1. U \in Nat \ {0} /\ left \in Nat
    BY MoneyAssumption DEF MaxOf
  <1>2. RoundDiv(left, U) \in Nat /\ 2 * (U * RoundDiv(left, U)) <= 2 * left + U
    BY <1>1, RoundDivInt, RoundDivNear
  <1>3. CASE ~(room > 0)
    <2>1. left = 0
      BY <1>3 DEF MaxOf
    <2>2. RoundDiv(left, U) = 0
      <3> DEFINE q == RoundDiv(left, U)
      <3>1. q \in Nat /\ 2 * (U * q) <= U
        BY <1>1, <1>2, <2>1
      <3> HIDE DEF q, U
      <3>2. ASSUME q >= 1 PROVE FALSE
        <4>1. U * q >= U
          BY <1>1, <3>1, <3>2
        <4> QED BY <1>1, <3>1, <4>1
      <3> QED BY <3>1, <3>2 DEF q, U
    <2> QED BY <2>2 DEF Capacity, RoundUsd
  <1>4. CASE room > 0
    <2>1. left = room
      BY <1>4 DEF MaxOf
    <2> QED BY <1>2, <2>1 DEF Capacity, RoundUsd
  <1> QED BY <1>3, <1>4

LEMMA GrantFits ==
  ASSUME NEW p \in Opportunities, NEW e, NEW room \in Int
  PROVE  Grant(p, e, room) \in Nat /\ Grant(p, e, room) <= Capacity(p, e, room)
  <1>1. Capacity(p, e, room) \in Nat
    BY CapacityFits
  <1>2. RequestedNotional(p) \in Nat
    <2>1. RoundUsd(SliceLimit) \in Nat
      BY RoundDivInt, AllocatorAssumption, MoneyAssumption DEF RoundUsd
    <2> QED BY <2>1, Proposed DEF RequestedNotional
  <1> QED BY <1>1, <1>2 DEF Grant, MinOf

LEMMA LegsOnContract ==
  ASSUME NEW p \in Opportunities, NEW d
  PROVE  Cardinality({k \in DOMAIN p.legs : p.legs[k].contract = d}) \in {0, 1}
  <1> DEFINE legs == {k \in DOMAIN p.legs : p.legs[k].contract = d}
  <1>1. CASE legs = {}
    BY <1>1, FS_EmptySet
  <1>2. ASSUME NEW k \in legs PROVE Cardinality(legs) = 1
    <2>1. legs = {k}
      BY BasketAssumption
    <2> QED BY <2>1, FS_Singleton
  <1> QED BY <1>1, <1>2

LEMMA ShareIs ==
  ASSUME NEW p \in Opportunities, NEW cents \in Nat, p.legs # <<>>
  PROVE  RoundDiv(cents, Len(p.legs)) \in Nat /\ RoundDiv(cents, Len(p.legs)) <= cents
  <1> DEFINE n == Len(p.legs)
             q == RoundDiv(cents, n)
  <1>1. n \in Nat \ {0}
    BY Proposed
  <1> HIDE DEF n
  <1>2. q \in Nat /\ 2 * (n * q) <= 2 * cents + n
    BY <1>1, RoundDivInt, RoundDivNear
  <1> HIDE DEF q
  <1>3. ASSUME q >= cents + 1 PROVE FALSE
    <2>1. n * q >= n * (cents + 1)
      BY <1>1, <1>2, <1>3
    <2>2. n * (cents + 1) = n * cents + n /\ n * cents \in Nat /\ n * q \in Nat
      BY <1>1, <1>2
    <2>3. n * cents >= cents
      BY <1>1
    <2> QED BY <1>1, <1>2, <2>1, <2>2, <2>3
  <1> QED BY <1>2, <1>3 DEF n, q

\* A reservation adds the cents to the total, to the sleeve and to the complex,
\* and no more than them to a contract.
LEMMA Reserved ==
  ASSUME NEW p \in Opportunities, NEW cents \in Nat, NEW e \in Exposures, p.legs # <<>>
  PROVE  LET r == ReserveExposure(p, cents, e) IN
         /\ r \in Exposures
         /\ r.gross = e.gross + cents
         /\ \A s \in Sleeves : r.sleeve[s] = IF s = p.sleeve THEN e.sleeve[s] + cents
                                             ELSE e.sleeve[s]
         /\ \A k \in MarketComplexes :
              r.complex[k] = IF k = p.complex THEN e.complex[k] + cents ELSE e.complex[k]
         /\ \A d \in Contracts :
              /\ e.contract[d] <= r.contract[d] /\ r.contract[d] <= e.contract[d] + cents
              /\ d \notin ContractsOf(p.legs) => r.contract[d] = e.contract[d]
  <1> DEFINE share == RoundDiv(cents, Len(p.legs))
             count(d) == Cardinality({k \in DOMAIN p.legs : p.legs[k].contract = d})
             contract == [d \in Contracts |-> e.contract[d] + share * count(d)]
             r == ReserveExposure(p, cents, e)
  <1>1. share \in Nat /\ share <= cents
    BY ShareIs
  <1>2. \A d : count(d) \in {0, 1}
    BY LegsOnContract
  <1>3. \A d : d \notin ContractsOf(p.legs) => count(d) = 0
    <2> SUFFICES ASSUME NEW d, d \notin ContractsOf(p.legs) PROVE count(d) = 0
      OBVIOUS
    <2>1. {k \in DOMAIN p.legs : p.legs[k].contract = d} = {}
      BY DEF ContractsOf
    <2> QED BY <2>1, FS_EmptySet
  <1> HIDE DEF share, count
  <1>4. \A d : share * count(d) \in Nat /\ share * count(d) <= cents
                /\ (count(d) = 0 => share * count(d) = 0)
    BY <1>1, <1>2
  <1>5. /\ e.gross \in Int /\ e.sleeve \in [Sleeves -> Int]
        /\ e.complex \in [MarketComplexes -> Int] /\ e.contract \in [Contracts -> Int]
    BY DEF Exposures
  <1>6. /\ contract \in [Contracts -> Int]
        /\ \A d \in Contracts :
             /\ e.contract[d] <= contract[d] /\ contract[d] <= e.contract[d] + cents
             /\ d \notin ContractsOf(p.legs) => contract[d] = e.contract[d]
    <2>1. ASSUME NEW d \in Contracts
          PROVE  /\ contract[d] \in Int
                 /\ e.contract[d] <= contract[d] /\ contract[d] <= e.contract[d] + cents
                 /\ d \notin ContractsOf(p.legs) => contract[d] = e.contract[d]
      <3> DEFINE more == share * count(d)
      <3>1. more \in Nat /\ more <= cents /\ (count(d) = 0 => more = 0)
        BY <1>4
      <3>2. contract[d] = e.contract[d] + more /\ e.contract[d] \in Int
        BY <1>5
      <3> HIDE DEF more, contract
      <3> QED BY <1>3, <3>1, <3>2
    <2>2. contract = [d \in Contracts |-> contract[d]]
      OBVIOUS
    <2> HIDE DEF contract
    <2> QED BY <2>1, <2>2
  <1>7. r = [gross |-> e.gross + cents,
             sleeve |-> [e.sleeve EXCEPT ![p.sleeve] = @ + cents],
             complex |-> [e.complex EXCEPT ![p.complex] = @ + cents],
             contract |-> contract]
    BY DEF ReserveExposure, share, count
  <1> HIDE DEF contract, r
  <1>8. [e.sleeve EXCEPT ![p.sleeve] = @ + cents] \in [Sleeves -> Int]
        /\ [e.complex EXCEPT ![p.complex] = @ + cents] \in [MarketComplexes -> Int]
    BY <1>5, Proposed
  <1>9. r \in Exposures
    BY <1>5, <1>6, <1>7, <1>8 DEF Exposures
  <1> QED BY <1>5, <1>6, <1>7, <1>9 DEF r

LEMMA DepthIsNat ==
  ASSUME NEW state \in MarketState
  PROVE  Depth(state) \in Nat
  BY MoneyAssumption DEF MarketState, PriceOrNull, Depth, Coalesce, MinOf

\* Rounding does not exceed a whole number that is not exceeded.
LEMMA RoundDivAtMost ==
  ASSUME NEW n \in Nat, NEW d \in Nat \ {0}, NEW m \in Nat, n <= m * d
  PROVE  RoundDiv(n, d) \in Nat /\ RoundDiv(n, d) <= m
  <1> DEFINE q == RoundDiv(n, d)
  <1>1. q \in Nat /\ 2 * (d * q) <= 2 * n + d
    BY RoundDivInt, RoundDivNear
  <1> HIDE DEF q
  <1>2. ASSUME q >= m + 1 PROVE FALSE
    <2>1. d * q >= d * (m + 1)
      BY <1>1, <1>2
    <2>2. d * (m + 1) = m * d + d /\ d * q \in Nat /\ m * d \in Nat
      BY <1>1
    <2> QED BY <1>1, <2>1, <2>2
  <1> QED BY <1>1, <1>2 DEF q

LEMMA ApprovedFits ==
  ASSUME NEW p \in Opportunities, NEW cents \in Nat, NEW depth \in Nat
  PROVE  /\ ApprovedNotional(p, cents, depth) \in Nat
         /\ ApprovedNotional(p, cents, depth) <= cents
  <1> DEFINE d == UnitsPerCent * DepthMultiplier
             a == cents * UnitsPerCent * DepthMultiplier
             b == SliceLimit * DepthMultiplier
             c == depth * Par * Len(p.legs)
             n == MinOf(MinOf(a, b), c)
  <1>1. \A x, y \in Nat : x * y \in Nat
    OBVIOUS
  <1>2. /\ UnitsPerCent \in Nat \ {0} /\ DepthMultiplier \in Nat \ {0} /\ Par \in Nat
        /\ SliceLimit \in Nat /\ Len(p.legs) \in Nat
    BY MoneyAssumption, RiskAssumption, AllocatorAssumption, Proposed
  <1>3. a \in Nat /\ b \in Nat /\ c \in Nat
    BY <1>1, <1>2
  <1>4. d \in Nat \ {0} /\ a = cents * d
    BY <1>2
  <1>5. ApprovedNotional(p, cents, depth) = RoundDiv(n, d)
    BY DEF ApprovedNotional
  <1> HIDE DEF a, b, c, d
  <1>6. n \in Nat /\ n <= cents * d
    BY <1>3, <1>4 DEF MinOf
  <1> HIDE DEF n
  <1> QED BY <1>4, <1>5, <1>6, RoundDivAtMost

\* The risk kernel approves no more than was allocated, and nothing when told
\* to stop.
LEMMA RiskDecides ==
  ASSUME NEW p \in Opportunities, NEW cents \in Nat, NEW state \in OperatorState,
         NEW failing, NEW market \in [ContractsOf(p.legs) -> Markets],
         NEW k \in DOMAIN p.legs
  PROVE  LET decision == EvaluateRisk(p, cents, state, failing, market, k) IN
         /\ decision.status \in RiskStatuses
         /\ decision.cents \in Nat /\ decision.cents <= cents
         /\ Good(decision.status) => ~Stopped(state)
  <1>1. market[p.legs[k].contract] \in MarketState
    BY CycleAssumption DEF ContractsOf
  <1> DEFINE approved == ApprovedNotional(p, cents, Depth(market[p.legs[k].contract]))
             decision == EvaluateRisk(p, cents, state, failing, market, k)
  <1>2. approved \in Nat /\ approved <= cents
    BY <1>1, DepthIsNat, ApprovedFits
  <1>3. \/ decision = RiskDecision("halted", 0)
        \/ decision = RiskDecision("rejected", 0) /\ ~Halted(state, failing)
        \/ decision = RiskDecision("resized", approved) /\ ~Halted(state, failing)
        \/ decision = RiskDecision("approved", approved) /\ ~Halted(state, failing)
    BY DEF EvaluateRisk
  <1> HIDE DEF approved, decision
  <1>4. \A status, n : RiskDecision(status, n).status = status
                       /\ RiskDecision(status, n).cents = n
    BY DEF RiskDecision
  <1>5. ~Halted(state, failing) => ~Stopped(state)
    BY DEF Halted, Stopped
  <1> QED BY <1>2, <1>3, <1>4, <1>5 DEF RiskStatuses, Good, decision

\* A plan has a leg for each of the proposal's, at a price, and shares the cents.
LEMMA PlanFits ==
  ASSUME NEW p \in Opportunities, NEW cents \in Nat, NEW c \in Cycles,
         NEW market \in [ContractsOf(p.legs) -> Markets], HasPrices(p.legs, market)
  PROVE  LET intent == [cycle |-> c, proposal |-> p, notional |-> cents,
                        legs |-> BuildExecutionIntent(p, cents, market).legs]
         IN  intent \in Intent /\ Affordable(intent)
  <1> DEFINE n == Len(p.legs)
             style == ExecutionStyle(p.legs, market)
             limit(k) == LimitPrice(p.legs[k].side, style, market[p.legs[k].contract])
             leg(k) == PlannedLeg(k, cents, p.legs, style, market)
             planned == [k \in DOMAIN p.legs |-> leg(k)]
             U == UnitsPerCent
             intent == [cycle |-> c, proposal |-> p, notional |-> cents, legs |-> planned]
  <1>1. n \in Nat /\ DOMAIN p.legs = 1 .. n /\ U \in Nat \ {0}
    BY Proposed, MoneyAssumption
  <1>2. ASSUME NEW k \in 1 .. n PROVE limit(k) \in Nat \ {0}
    <2>1. market[p.legs[k].contract] \in MarketState
      BY <1>1, CycleAssumption DEF ContractsOf
    <2>2. limit(k) \in PriceOrNull
      BY <2>1 DEF LimitPrice, Coalesce, MarketState
    <2>3. limit(k) \notin {Null, 0}
      BY <1>1 DEF HasPrices
    <2> QED BY <2>2, <2>3 DEF PriceOrNull
  <1>3. ASSUME NEW k \in 1 .. n
        PROVE  /\ leg(k).contract \in Contracts /\ leg(k).side \in Sides
               /\ leg(k).limit = limit(k)
               /\ leg(k).size \in Nat
               /\ 2 * n * limit(k) * leg(k).size <= 2 * U * cents + n * limit(k)
               /\ leg(k) = [contract |-> p.legs[k].contract, side |-> p.legs[k].side,
                            limit |-> limit(k), size |-> leg(k).size]
    <2> DEFINE x == limit(k)
               size == RoundDiv(cents * U, n * x)
    <2>1. leg(k) = [contract |-> p.legs[k].contract, side |-> p.legs[k].side,
                    limit |-> x, size |-> size]
      BY DEF PlannedLeg
    <2>2. x \in Nat \ {0} /\ n \in Nat \ {0}
      BY <1>1, <1>2
    <2> HIDE DEF x, n, U
    <2>3. n * x \in Nat \ {0} /\ cents * U \in Nat
      BY <1>1, <2>2
    <2>4. size \in Nat /\ 2 * ((n * x) * size) <= 2 * (cents * U) + n * x
      <3> DEFINE d == n * x
                 m == cents * U
      <3>1. d \in Nat \ {0} /\ m \in Nat
        BY <2>3
      <3> HIDE DEF d, m
      <3>2. RoundDiv(m, d) \in Nat /\ 2 * (d * RoundDiv(m, d)) <= 2 * m + d
        BY <3>1, RoundDivInt, RoundDivNear
      <3> QED BY <3>2 DEF d, m
    <2> HIDE DEF size
    <2>5. 2 * ((n * x) * size) = 2 * n * x * size /\ 2 * (cents * U) = 2 * U * cents
      BY <1>1, <2>2, <2>4
    <2> QED BY <1>1, <2>1, <2>4, <2>5, Proposed DEF x, n
  <1>4. BuildExecutionIntent(p, cents, market).legs = planned
    BY DEF BuildExecutionIntent
  <1> HIDE DEF limit, leg, style
  <1>5. /\ planned \in Seq([contract : Contracts, side : Sides, limit : Nat \ {0}, size : Nat])
        /\ DOMAIN planned = 1 .. n /\ Len(planned) = n
        /\ \A k \in 1 .. n : planned[k] = leg(k)
    <2>1. \A k \in 1 .. n :
            leg(k) \in [contract : Contracts, side : Sides, limit : Nat \ {0}, size : Nat]
      <3> SUFFICES ASSUME NEW k \in 1 .. n
                   PROVE  leg(k) \in [contract : Contracts, side : Sides, limit : Nat \ {0},
                                      size : Nat]
        OBVIOUS
      <3> DEFINE size == leg(k).size
      <3>1. leg(k) = [contract |-> p.legs[k].contract, side |-> p.legs[k].side,
                      limit |-> limit(k), size |-> size]
            /\ size \in Nat /\ limit(k) \in Nat \ {0}
        BY <1>2, <1>3
      <3> HIDE DEF size
      <3> QED BY <1>1, <3>1, Proposed
    <2>2. planned = [k \in 1 .. n |-> leg(k)]
      BY <1>1
    <2> HIDE DEF planned
    <2> QED BY <1>1, <2>1, <2>2, IsASeq, LenProperties
  <1> HIDE DEF planned
  <1>6. intent \in Intent
    BY <1>5 DEF Intent
  <1>7. Affordable(intent)
    <2>1. intent.legs = planned /\ intent.notional = cents
      OBVIOUS
    <2> HIDE DEF intent
    <2>2. ASSUME NEW k \in DOMAIN planned
          PROVE  2 * Len(planned) * planned[k].limit * planned[k].size
                   <= 2 * UnitsPerCent * cents + Len(planned) * planned[k].limit
      <3>1. k \in 1 .. n /\ planned[k] = leg(k) /\ Len(planned) = n
        BY <1>5
      <3>2. planned[k].limit = limit(k)
        BY <1>3, <3>1
      <3> HIDE DEF n
      <3> QED BY <1>3, <3>1, <3>2
    <2> QED BY <2>1, <2>2 DEF Affordable
  <1> QED BY <1>4, <1>6, <1>7

-----------------------------------------------------------------------------
(* What a cycle writes. *)

LEMMA Memory ==
  ASSUME Typed, NEW c \in Cycles
  PROVE  /\ pc[c] \in Phases /\ seen[c] \in OperatorState
         /\ loaded[c] \in Exposures /\ exposure[c] \in Exposures
         /\ proposals[c] \subseteq Opportunities
         /\ allocations[c] \in Seq(Allocation) /\ Len(allocations[c]) \in Nat
         /\ risks[c] \in Seq(Decision) /\ Len(risks[c]) \in Nat
         /\ plans[c] \in Seq(Intent) /\ Len(plans[c]) \in Nat
         /\ outbox[c] \in Seq(Write) /\ Len(outbox[c]) \in Nat
         /\ DOMAIN allocations[c] = 1 .. Len(allocations[c])
         /\ \A n \in DOMAIN allocations[c] : allocations[c][n] \in Allocation
         /\ DOMAIN risks[c] = 1 .. Len(risks[c])
         /\ \A j \in DOMAIN risks[c] : risks[c][j] \in Decision
         /\ DOMAIN plans[c] = 1 .. Len(plans[c])
         /\ \A k \in DOMAIN plans[c] : plans[c][k] \in Intent
         /\ DOMAIN outbox[c] = 1 .. Len(outbox[c])
         /\ \A m \in DOMAIN outbox[c] : outbox[c][m] \in Write
  <1>1. /\ pc[c] \in Phases /\ seen[c] \in OperatorState
        /\ loaded[c] \in Exposures /\ exposure[c] \in Exposures
        /\ proposals[c] \subseteq Opportunities
        /\ allocations[c] \in Seq(Allocation)
        /\ risks[c] \in Seq(Decision)
        /\ plans[c] \in Seq(Intent)
        /\ outbox[c] \in Seq(Write)
    BY DEF Typed
  <1> QED BY <1>1, LenProperties, ElementOfSeq

LEMMA LedgerWrites ==
  ASSUME NEW kind \in {"strategy_proposal", "allocator_decision", "risk_decision",
                       "execution_intent", "decision_cycle"},
         NEW c \in Cycles, NEW p \in Opportunities \cup {Null},
         NEW status \in RiskStatuses \cup {"none", "forwarded_to_risk"}, NEW cents \in Nat
  PROVE  LET w == LedgerRow(kind, c, p, status, cents) IN
         /\ w \in Write /\ w.table = "ledger"
         /\ w.row.kind = kind /\ w.row.cycle = c /\ w.row.proposal = p
         /\ w.row.status = status /\ w.row.cents = cents
  <1> DEFINE row == [kind |-> kind, cycle |-> c, proposal |-> p, status |-> status,
                     cents |-> cents]
             w == LedgerRow(kind, c, p, status, cents)
  <1>1. w = [table |-> "ledger", row |-> row]
    BY DEF LedgerRow
  <1>2. row \in Row
    BY DEF Row
  <1>3. /\ row.kind = kind /\ row.cycle = c /\ row.proposal = p
        /\ row.status = status /\ row.cents = cents
    OBVIOUS
  <1> HIDE DEF row, w
  <1>4. w \in [table : {"ledger"}, row : Row] /\ w.table = "ledger" /\ w.row = row
    BY <1>1, <1>2
  <1>5. w \in Write
    BY <1>4 DEF Write
  <1> QED BY <1>3, <1>4, <1>5 DEF w

LEMMA IntentRowsShape ==
  ASSUME Typed, NEW c \in Cycles
  PROVE  LET rows == IntentRows(c, plans[c])
             n    == Len(plans[c])
         IN  /\ rows \in Seq(Write) /\ Len(rows) = 2 * n
             /\ \A k \in 1 .. n :
                  /\ rows[2 * k - 1] = IntentRow(plans[c][k])
                  /\ rows[2 * k] = LedgerRow("execution_intent", c, plans[c][k].proposal, "none",
                                             plans[c][k].notional)
  <1> DEFINE n == Len(plans[c])
             rows == IntentRows(c, plans[c])
             copy(k) == LedgerRow("execution_intent", c, plans[c][k].proposal, "none",
                                  plans[c][k].notional)
             at(i) == LET intent == plans[c][(i + 1) \div 2]
                      IN  IF i % 2 = 1 THEN IntentRow(intent)
                          ELSE LedgerRow("execution_intent", c, intent.proposal, "none",
                                         intent.notional)
  <1>1. n \in Nat /\ \A k \in 1 .. n : plans[c][k] \in Intent
    BY Memory
  <1>2. rows = [i \in 1 .. 2 * n |-> at(i)]
    BY DEF IntentRows
  <1>3. \A k \in 1 .. n : IntentRow(plans[c][k]) \in Write
    BY <1>1 DEF IntentRow, Write
  <1>4. \A k \in 1 .. n : copy(k) \in Write
    BY <1>1, LedgerWrites DEF Intent
  <1>5. \A i \in 1 .. 2 * n : (i + 1) \div 2 \in 1 .. n
    BY <1>1
  <1>6. \A i \in 1 .. 2 * n : at(i) \in Write
    BY <1>3, <1>4, <1>5
  <1>7. \A k \in 1 .. n : /\ 2 * k - 1 \in 1 .. 2 * n /\ 2 * k \in 1 .. 2 * n
                          /\ (2 * k - 1) % 2 = 1 /\ (2 * k - 1 + 1) \div 2 = k
                          /\ (2 * k) % 2 # 1 /\ (2 * k + 1) \div 2 = k
    BY <1>1
  <1>8. \A k \in 1 .. n : at(2 * k - 1) = IntentRow(plans[c][k]) /\ at(2 * k) = copy(k)
    BY <1>7
  <1> HIDE DEF at, copy, n, rows
  <1>9. 2 * n \in Nat
    BY <1>1
  <1>10. rows \in Seq(Write) /\ Len(rows) = 2 * n
    <2>1. rows \in Seq(Write) /\ DOMAIN rows = 1 .. 2 * n
      BY <1>2, <1>6, <1>9, IsASeq
    <2> QED BY <1>9, <2>1, LenProperties
  <1>11. \A k \in 1 .. n : rows[2 * k - 1] = IntentRow(plans[c][k]) /\ rows[2 * k] = copy(k)
    BY <1>2, <1>7, <1>8
  <1> QED BY <1>10, <1>11 DEF n, rows, copy

LEMMA DecisionRowsShape ==
  ASSUME Typed, NEW c \in Cycles
  PROVE  /\ ProposalRows(c, allocations[c]) \in Seq(Write)
         /\ Len(ProposalRows(c, allocations[c])) = Len(allocations[c])
         /\ AllocatorRows(c, allocations[c]) \in Seq(Write)
         /\ Len(AllocatorRows(c, allocations[c])) = Len(allocations[c])
         /\ RiskRows(c, risks[c]) \in Seq(Write)
         /\ Len(RiskRows(c, risks[c])) = Len(risks[c])
         /\ CycleRow(c) \in Write
  <1> DEFINE n == Len(allocations[c])
             r == Len(risks[c])
             a(i) == LedgerRow("strategy_proposal", c, allocations[c][i].proposal, "none", 0)
             b(i) == LedgerRow("allocator_decision", c, allocations[c][i].proposal,
                               IF allocations[c][i].forwarded THEN "forwarded_to_risk"
                               ELSE "rejected", allocations[c][i].cents)
             d(i) == LedgerRow("risk_decision", c, risks[c][i].proposal, risks[c][i].status,
                               risks[c][i].cents)
  <1>1. /\ n \in Nat /\ DOMAIN allocations[c] = 1 .. n
        /\ \A i \in 1 .. n : allocations[c][i] \in Allocation
        /\ r \in Nat /\ DOMAIN risks[c] = 1 .. r
        /\ \A i \in 1 .. r : risks[c][i] \in Decision
    BY Memory
  <1>2. /\ ProposalRows(c, allocations[c]) = [i \in 1 .. n |-> a(i)]
        /\ AllocatorRows(c, allocations[c]) = [i \in 1 .. n |-> b(i)]
        /\ RiskRows(c, risks[c]) = [i \in 1 .. r |-> d(i)]
    BY <1>1 DEF ProposalRows, AllocatorRows, RiskRows
  <1>3. \A i \in 1 .. n : a(i) \in Write
    BY <1>1, LedgerWrites DEF Allocation
  <1>4. \A i \in 1 .. n : b(i) \in Write
    <2> SUFFICES ASSUME NEW i \in 1 .. n PROVE b(i) \in Write
      OBVIOUS
    <2>1. allocations[c][i] \in Allocation
      BY <1>1
    <2>2. allocations[c][i].proposal \in Opportunities \cup {Null}
          /\ allocations[c][i].cents \in Nat
      BY <2>1 DEF Allocation
    <2>3. CASE allocations[c][i].forwarded
      <3>1. "forwarded_to_risk" \in RiskStatuses \cup {"none", "forwarded_to_risk"}
        OBVIOUS
      <3>2. LedgerRow("allocator_decision", c, allocations[c][i].proposal, "forwarded_to_risk",
                      allocations[c][i].cents) \in Write
        BY <2>2, <3>1, LedgerWrites
      <3> QED BY <2>3, <3>2
    <2>4. CASE ~allocations[c][i].forwarded
      <3>1. "rejected" \in RiskStatuses
        BY DEF RiskStatuses
      <3> QED BY <2>2, <2>4, <3>1, LedgerWrites
    <2> QED BY <2>3, <2>4
  <1>5. \A i \in 1 .. r : d(i) \in Write
    BY <1>1, LedgerWrites DEF Decision
  <1>6. CycleRow(c) \in Write
    BY LedgerWrites DEF CycleRow
  <1> HIDE DEF a, b, d, n, r
  <1>7. ProposalRows(c, allocations[c]) \in Seq(Write)
        /\ Len(ProposalRows(c, allocations[c])) = n
    BY <1>1, <1>2, <1>3, IsASeq, LenProperties
  <1>8. AllocatorRows(c, allocations[c]) \in Seq(Write)
        /\ Len(AllocatorRows(c, allocations[c])) = n
    BY <1>1, <1>2, <1>4, IsASeq, LenProperties
  <1>9. RiskRows(c, risks[c]) \in Seq(Write) /\ Len(RiskRows(c, risks[c])) = r
    BY <1>1, <1>2, <1>5, IsASeq, LenProperties
  <1> QED BY <1>6, <1>7, <1>8, <1>9 DEF n, r

LEMMA TwoLists ==
  ASSUME NEW S, NEW s \in Seq(S), NEW t \in Seq(S)
  PROVE  /\ s \o t \in Seq(S) /\ Len(s \o t) = Len(s) + Len(t)
         /\ Len(s) \in Nat /\ Len(t) \in Nat
         /\ \A i \in 1 .. Len(s) : (s \o t)[i] = s[i]
         /\ \A i \in 1 .. Len(t) : (s \o t)[Len(s) + i] = t[i]
  OBVIOUS

\* Four lists one after the other, and a last element.
Joined(w, s1, s2, s3, s4, last) ==
  /\ Len(w) = Len(s1) + Len(s2) + Len(s3) + Len(s4) + 1
  /\ w[Len(s1) + Len(s2) + Len(s3) + Len(s4) + 1] = last
  /\ \A i \in 1 .. Len(s1) : w[i] = s1[i]
  /\ \A i \in 1 .. Len(s2) : w[Len(s1) + i] = s2[i]
  /\ \A i \in 1 .. Len(s3) : w[Len(s1) + Len(s2) + i] = s3[i]
  /\ \A i \in 1 .. Len(s4) : w[Len(s1) + Len(s2) + Len(s3) + i] = s4[i]

LEMMA FiveLists ==
  ASSUME NEW S, NEW s1 \in Seq(S), NEW s2 \in Seq(S), NEW s3 \in Seq(S), NEW s4 \in Seq(S),
         NEW last \in S
  PROVE  /\ s1 \o s2 \o s3 \o s4 \o <<last>> \in Seq(S)
         /\ Joined(s1 \o s2 \o s3 \o s4 \o <<last>>, s1, s2, s3, s4, last)
  <1> DEFINE a == s1 \o s2
             b == a \o s3
             d == b \o s4
             w == d \o <<last>>
  <1>1. a \in Seq(S) /\ b \in Seq(S) /\ d \in Seq(S) /\ w \in Seq(S) /\ <<last>> \in Seq(S)
    OBVIOUS
  <1>2. /\ Len(a) = Len(s1) + Len(s2)
        /\ \A i \in 1 .. Len(s1) : a[i] = s1[i]
        /\ \A i \in 1 .. Len(s2) : a[Len(s1) + i] = s2[i]
    BY TwoLists
  <1>3. /\ Len(b) = Len(a) + Len(s3)
        /\ \A i \in 1 .. Len(a) : b[i] = a[i]
        /\ \A i \in 1 .. Len(s3) : b[Len(a) + i] = s3[i]
    <2> HIDE DEF a
    <2> QED BY <1>1, TwoLists
  <1>4. /\ Len(d) = Len(b) + Len(s4)
        /\ \A i \in 1 .. Len(b) : d[i] = b[i]
        /\ \A i \in 1 .. Len(s4) : d[Len(b) + i] = s4[i]
    <2> HIDE DEF b
    <2> QED BY <1>1, TwoLists
  <1>5. /\ Len(w) = Len(d) + 1 /\ w[Len(d) + 1] = last
        /\ \A i \in 1 .. Len(d) : w[i] = d[i]
    <2> HIDE DEF d
    <2> QED BY <1>1
  <1>6. w = s1 \o s2 \o s3 \o s4 \o <<last>>
    OBVIOUS
  <1>7. /\ Len(s1) \in Nat /\ Len(s2) \in Nat /\ Len(s3) \in Nat /\ Len(s4) \in Nat
    OBVIOUS
  <1> HIDE DEF a, b, d, w
  <1> DEFINE m1 == Len(a)
             m2 == Len(b)
             m3 == Len(d)
  <1>8. /\ m1 = Len(s1) + Len(s2) /\ m2 = m1 + Len(s3) /\ m3 = m2 + Len(s4)
    BY <1>2, <1>3, <1>4
  <1>9. /\ \A i \in 1 .. m1 : i \in 1 .. m2 /\ w[i] = a[i]
        /\ \A i \in 1 .. m2 : i \in 1 .. m3 /\ w[i] = b[i]
    <2>1. \A i \in 1 .. m2 : i \in 1 .. m3 /\ w[i] = b[i]
      BY <1>4, <1>5, <1>7, <1>8
    <2>2. \A i \in 1 .. m1 : i \in 1 .. m2
      BY <1>7, <1>8
    <2> QED BY <1>3, <2>1, <2>2
  <1>10. \A i \in 1 .. Len(s4) : w[m2 + i] = s4[i]
    <2>1. \A i \in 1 .. Len(s4) : m2 + i \in 1 .. m3
      BY <1>7, <1>8
    <2> QED BY <1>4, <1>5, <2>1
  <1>11. \A i \in 1 .. Len(s3) : w[m1 + i] = s3[i]
    <2>1. \A i \in 1 .. Len(s3) : m1 + i \in 1 .. m2
      BY <1>7, <1>8
    <2> QED BY <1>3, <1>9, <2>1
  <1>12. \A i \in 1 .. Len(s2) : w[Len(s1) + i] = s2[i]
    <2>1. \A i \in 1 .. Len(s2) : Len(s1) + i \in 1 .. m1
      BY <1>7, <1>8
    <2> QED BY <1>2, <1>9, <2>1
  <1>13. \A i \in 1 .. Len(s1) : w[i] = s1[i]
    <2>1. \A i \in 1 .. Len(s1) : i \in 1 .. m1
      BY <1>7, <1>8
    <2> QED BY <1>2, <1>9, <2>1
  <1> QED BY <1>1, <1>5, <1>6, <1>8, <1>10, <1>11, <1>12, <1>13 DEF Joined

LEMMA WritesAreTyped ==
  ASSUME Typed, NEW c \in Cycles
  PROVE  Writes(c) \in Seq(Write) \ {<<>>}
  <1>1. /\ ProposalRows(c, allocations[c]) \in Seq(Write)
        /\ AllocatorRows(c, allocations[c]) \in Seq(Write)
        /\ RiskRows(c, risks[c]) \in Seq(Write)
        /\ IntentRows(c, plans[c]) \in Seq(Write)
        /\ CycleRow(c) \in Write
    BY DecisionRowsShape, IntentRowsShape
  <1> QED BY <1>1 DEF Writes

-----------------------------------------------------------------------------
(* Types. *)

LEMMA ZeroExposure == NoExposure \in Exposures
  BY DEF NoExposure, Exposures

LEMMA LoadedIsTyped ==
  ASSUME Typed, NEW value \in AccountValues
  PROVE  LoadedExposure(value) \in Exposures
  <1>1. CASE DOMAIN snapshots = {}
    <2>1. value \in Int
      BY CycleAssumption
    <2> QED BY <1>1, <2>1 DEF LoadedExposure, NoExposure, Exposures
  <1>2. CASE DOMAIN snapshots # {}
    <2> DEFINE gross == Total([k \in DOMAIN snapshots |-> snapshots[k].cents])
               sleeve == [s \in Sleeves |-> Total([k \in OfSleeve(s) |-> snapshots[k].cents])]
               complex == [k \in MarketComplexes |->
                             IF k \in DOMAIN snapshots THEN snapshots[k].cents ELSE 0]
    <2>1. gross \in Int /\ sleeve \in [Sleeves -> Int]
      BY TotalInt
    <2>2. complex \in [MarketComplexes -> Int]
      BY DEF Typed
    <2>3. LoadedExposure(value) = [NoExposure EXCEPT !.gross = gross, !.sleeve = sleeve,
                                                     !.complex = complex]
      BY <1>2 DEF LoadedExposure
    <2> HIDE DEF gross, sleeve, complex
    <2>4. LoadedExposure(value) = [gross |-> gross, sleeve |-> sleeve, complex |-> complex,
                                   contract |-> [d \in Contracts |-> 0]]
      BY <2>3 DEF NoExposure
    <2> QED BY <2>1, <2>2, <2>4 DEF Exposures
  <1> QED BY <1>1, <1>2

LEMMA Appended ==
  ASSUME NEW S, NEW f \in [Cycles -> Seq(S)], NEW c \in Cycles, NEW v \in S
  PROVE  [f EXCEPT ![c] = Append(@, v)] \in [Cycles -> Seq(S)]
  OBVIOUS

LEMMA ForgetTyped ==
  ASSUME Typed, NEW c \in Cycles, Forget(c)
  PROVE  /\ proposals' \in [Cycles -> SUBSET Opportunities]
         /\ loaded' \in [Cycles -> Exposures] /\ exposure' \in [Cycles -> Exposures]
         /\ allocations' \in [Cycles -> Seq(Allocation)]
         /\ risks' \in [Cycles -> Seq(Decision)]
         /\ plans' \in [Cycles -> Seq(Intent)]
  BY ZeroExposure, EmptySeq DEF Typed, Forget

\* What an allocation puts in memory.
LEMMA Allocating ==
  ASSUME Typed, NEW c \in Cycles, AllocateNext(c)
  PROVE  \E p \in Opportunities, room \in Int, cents \in Nat, forwarded \in BOOLEAN :
           /\ room \in Rooms(p, exposure[c])
           /\ \A other \in Rooms(p, exposure[c]) : room <= other
           /\ cents <= Capacity(p, exposure[c], room)
           /\ forwarded => p.legs # <<>> /\ Capacity(p, exposure[c], room) > 0
           /\ exposure' = [exposure EXCEPT
                ![c] = IF forwarded THEN ReserveExposure(p, cents, exposure[c]) ELSE exposure[c]]
           /\ allocations' = [allocations EXCEPT
                ![c] = Append(@, [proposal |-> p, cents |-> cents, forwarded |-> forwarded])]
           /\ proposals' = [proposals EXCEPT ![c] = @ \ {p}]
  <1>1. exposure[c] \in Exposures /\ proposals[c] \subseteq Opportunities
    BY Memory
  <1>0. PICK p \in proposals[c] : \E room \in Rooms(p, exposure[c]) :
          LET e         == exposure[c]
              cents     == Grant(p, e, room)
              forwarded == IsValid(p) /\ Capacity(p, e, room) > 0
          IN  /\ IsLeast(room, Rooms(p, e))
              /\ exposure' = [exposure EXCEPT
                   ![c] = IF forwarded THEN ReserveExposure(p, cents, e) ELSE e]
              /\ allocations' = [allocations EXCEPT
                   ![c] = Append(@, [proposal |-> p, cents |-> cents,
                                     forwarded |-> forwarded])]
              /\ proposals' = [proposals EXCEPT ![c] = @ \ {p}]
    BY DEF AllocateNext
  <1>2. PICK room \in Rooms(p, exposure[c]) :
          LET e         == exposure[c]
              cents     == Grant(p, e, room)
              forwarded == IsValid(p) /\ Capacity(p, e, room) > 0
          IN  /\ IsLeast(room, Rooms(p, e))
              /\ exposure' = [exposure EXCEPT
                   ![c] = IF forwarded THEN ReserveExposure(p, cents, e) ELSE e]
              /\ allocations' = [allocations EXCEPT
                   ![c] = Append(@, [proposal |-> p, cents |-> cents,
                                     forwarded |-> forwarded])]
              /\ proposals' = [proposals EXCEPT ![c] = @ \ {p}]
    BY <1>0
  <1> DEFINE cents == Grant(p, exposure[c], room)
             forwarded == IsValid(p) /\ Capacity(p, exposure[c], room) > 0
  <1>3. p \in Opportunities /\ room \in Int
    BY <1>1, RoomsAreInt
  <1>4. cents \in Nat /\ cents <= Capacity(p, exposure[c], room)
    BY <1>3, GrantFits
  <1>5. forwarded \in BOOLEAN
    BY DEF IsValid
  <1>6. forwarded => p.legs # <<>> /\ Capacity(p, exposure[c], room) > 0
    BY DEF IsValid
  <1>7. \A other \in Rooms(p, exposure[c]) : room <= other
    BY <1>2 DEF IsLeast
  <1>8. /\ exposure' = [exposure EXCEPT
             ![c] = IF forwarded THEN ReserveExposure(p, cents, exposure[c]) ELSE exposure[c]]
        /\ allocations' = [allocations EXCEPT
             ![c] = Append(@, [proposal |-> p, cents |-> cents, forwarded |-> forwarded])]
        /\ proposals' = [proposals EXCEPT ![c] = @ \ {p}]
    BY <1>2
  <1> HIDE DEF cents, forwarded
  <1> QED BY <1>3, <1>4, <1>5, <1>6, <1>7, <1>8

\* What the risk kernel's answer puts in memory.
LEMMA Assessing ==
  ASSUME Typed, NEW c \in Cycles, Assess(c)
  PROVE  \E n \in DOMAIN allocations[c], status \in RiskStatuses, cents \in Nat :
           /\ allocations[c][n].forwarded /\ IsNext(n, c)
           /\ cents <= allocations[c][n].cents
           /\ Good(status) => ~Stopped(seen[c])
           /\ risks' = [risks EXCEPT
                ![c] = Append(@, [proposal |-> allocations[c][n].proposal, status |-> status,
                                  cents |-> cents])]
           /\ pc' = [pc EXCEPT ![c] = IF Good(status) THEN "plan" ELSE "assess"]
  <1>1. PICK n \in Forwarded(c) :
          \E market \in [ContractsOf(allocations[c][n].proposal.legs) -> Markets],
             failing \in Failures, thinnest \in DOMAIN allocations[c][n].proposal.legs :
            LET decision == EvaluateRisk(allocations[c][n].proposal, allocations[c][n].cents,
                                         seen[c], failing, market, thinnest)
            IN  /\ IsNext(n, c)
                /\ risks' = [risks EXCEPT
                     ![c] = Append(@, [proposal |-> allocations[c][n].proposal,
                                       status |-> decision.status, cents |-> decision.cents])]
                /\ pc' = [pc EXCEPT
                     ![c] = IF decision.status \in {"approved", "resized"}
                            THEN "plan" ELSE "assess"]
    BY DEF Assess
  <1> DEFINE given == allocations[c][n]
  <1>2. n \in DOMAIN allocations[c] /\ given.forwarded
    BY DEF Forwarded
  <1>3. given.proposal \in Opportunities /\ given.cents \in Nat
    BY <1>2, Memory DEF Allocation
  <1>4. seen[c] \in OperatorState
    BY Memory
  <1>5. PICK market \in [ContractsOf(given.proposal.legs) -> Markets],
             failing \in Failures, thinnest \in DOMAIN given.proposal.legs :
          LET decision == EvaluateRisk(given.proposal, given.cents, seen[c], failing, market,
                                       thinnest)
          IN  /\ IsNext(n, c)
              /\ risks' = [risks EXCEPT
                   ![c] = Append(@, [proposal |-> given.proposal,
                                     status |-> decision.status, cents |-> decision.cents])]
              /\ pc' = [pc EXCEPT
                   ![c] = IF decision.status \in {"approved", "resized"}
                          THEN "plan" ELSE "assess"]
    BY <1>1
  <1> DEFINE decision == EvaluateRisk(given.proposal, given.cents, seen[c], failing, market,
                                      thinnest)
  <1>6. /\ decision.status \in RiskStatuses
        /\ decision.cents \in Nat /\ decision.cents <= given.cents
        /\ Good(decision.status) => ~Stopped(seen[c])
    BY <1>3, <1>4, RiskDecides
  <1>7. /\ IsNext(n, c)
        /\ risks' = [risks EXCEPT
             ![c] = Append(@, [proposal |-> given.proposal, status |-> decision.status,
                               cents |-> decision.cents])]
        /\ pc' = [pc EXCEPT ![c] = IF Good(decision.status) THEN "plan" ELSE "assess"]
    BY <1>5 DEF Good
  <1> HIDE DEF decision
  <1> QED BY <1>2, <1>6, <1>7

\* What a plan puts in memory.
LEMMA Planning ==
  ASSUME Typed, NEW c \in Cycles, Plan(c), risks[c] # <<>>
  PROVE  \E intent \in Intent :
           /\ intent.cycle = c /\ Affordable(intent)
           /\ intent.proposal = risks[c][Len(risks[c])].proposal
           /\ intent.notional = risks[c][Len(risks[c])].cents
           /\ plans' = [plans EXCEPT ![c] = Append(@, intent)]
  <1> DEFINE approved == risks[c][Len(risks[c])]
             p == approved.proposal
  <1>1. approved \in Decision
    BY Memory
  <1>2. p \in Opportunities /\ approved.cents \in Nat
    BY <1>1 DEF Decision
  <1>3. PICK market \in [ContractsOf(p.legs) -> Markets] :
          /\ HasPrices(p.legs, market)
          /\ plans' = [plans EXCEPT
               ![c] = Append(@, [cycle |-> c, proposal |-> p, notional |-> approved.cents,
                                 legs |-> BuildExecutionIntent(p, approved.cents, market).legs])]
    BY DEF Plan
  <1> DEFINE intent == [cycle |-> c, proposal |-> p, notional |-> approved.cents,
                        legs |-> BuildExecutionIntent(p, approved.cents, market).legs]
  <1>4. intent \in Intent /\ Affordable(intent)
    BY <1>2, <1>3, PlanFits
  <1>5. intent.cycle = c /\ intent.proposal = p /\ intent.notional = approved.cents
    OBVIOUS
  <1>6. plans' = [plans EXCEPT ![c] = Append(@, intent)]
    BY <1>3
  <1> HIDE DEF intent
  <1> QED BY <1>4, <1>5, <1>6

LEMMA StatesAre == OperatorStates \subseteq OperatorState
  BY DEF OperatorStates, OperatorState

LEMMA InitTyped == Init => Typed
  <1> SUFFICES ASSUME Init PROVE Typed
    OBVIOUS
  <1>1. operator \in OperatorState
    BY StatesAre DEF Init
  <1>2. seen \in [Cycles -> OperatorState]
    BY <1>1 DEF Init
  <1>3. DOMAIN snapshots = {}
    BY DEF Init
  <1>4. loaded \in [Cycles -> Exposures] /\ exposure \in [Cycles -> Exposures]
    BY ZeroExposure DEF Init
  <1>5. /\ allocations \in [Cycles -> Seq(Allocation)]
        /\ risks \in [Cycles -> Seq(Decision)]
        /\ plans \in [Cycles -> Seq(Intent)]
        /\ outbox \in [Cycles -> Seq(Write)]
    BY EmptySeq DEF Init
  <1>6. pc \in [Cycles -> Phases] /\ proposals \in [Cycles -> SUBSET Opportunities]
        /\ intents = {}
    BY DEF Init, Phases
  <1> QED BY <1>1, <1>2, <1>3, <1>4, <1>5, <1>6 DEF Typed

LEMMA TypedWrite ==
  ASSUME Typed, NEW c \in Cycles, WriteNext(c), outbox[c] # <<>>
  PROVE  /\ intents' \subseteq Intent
         /\ outbox' \in [Cycles -> Seq(Write)]
         /\ outbox[c][1] \in Write /\ Tail(outbox[c]) \in Seq(Write)
         /\ outbox'[c] = Tail(outbox[c])
         /\ IF outbox[c][1].table = "state"
            THEN intents' = intents \cup {outbox[c][1].row} /\ ledger' = ledger
            ELSE ledger' = ledger \cup {outbox[c][1].row} /\ intents' = intents
  <1>1. outbox[c] \in Seq(Write) /\ outbox \in [Cycles -> Seq(Write)]
    BY DEF Typed
  <1>2. Head(outbox[c]) = outbox[c][1] /\ outbox[c][1] \in Write
        /\ Tail(outbox[c]) \in Seq(Write)
    BY <1>1
  <1>3. outbox' = [outbox EXCEPT ![c] = Tail(outbox[c])]
    BY DEF WriteNext
  <1>4. IF outbox[c][1].table = "state"
        THEN intents' = intents \cup {outbox[c][1].row} /\ ledger' = ledger
        ELSE ledger' = ledger \cup {outbox[c][1].row} /\ intents' = intents
    BY <1>2 DEF WriteNext
  <1>5. outbox[c][1].table = "state" => outbox[c][1].row \in Intent
    BY <1>2 DEF Write
  <1> QED BY <1>1, <1>2, <1>3, <1>4, <1>5 DEF Typed

LEMMA TypedStep ==
  ASSUME Typed, \A c \in Cycles : Decided(c) /\ Writing(c), [Next]_vars
  PROVE  Typed'
  <1>1. ASSUME NEW c \in Cycles, ReadOperator(c) PROVE Typed'
    BY <1>1 DEF ReadOperator, Typed, Phases, tables
  <1>2. ASSUME NEW c \in Cycles, Propose(c) PROVE Typed'
    <2>1. CycleRow(c) \in Write
      BY DecisionRowsShape
    <2>2. PICK found \in Offers :
            /\ proposals' = [proposals EXCEPT ![c] = found]
            /\ pc' = [pc EXCEPT ![c] = IF found = {} THEN "write" ELSE "expose"]
            /\ outbox' = [outbox EXCEPT ![c] = IF found = {} THEN <<CycleRow(c)>> ELSE <<>>]
      BY <1>2 DEF Propose
    <2>3. found \subseteq Opportunities
      BY DEF Opportunities
    <2>4. <<CycleRow(c)>> \in Seq(Write) /\ <<>> \in Seq(Write)
      BY <2>1
    <2>5. /\ proposals' \in [Cycles -> SUBSET Opportunities]
          /\ pc' \in [Cycles -> Phases]
          /\ outbox' \in [Cycles -> Seq(Write)]
      BY <2>2, <2>3, <2>4 DEF Typed, Phases
    <2> QED BY <1>2, <2>5 DEF Propose, Typed, tables
  <1>3. ASSUME NEW c \in Cycles, LoadExposure(c) PROVE Typed'
    <2>1. loaded' \in [Cycles -> Exposures]
      BY <1>3, LoadedIsTyped DEF LoadExposure, Typed
    <2>2. exposure' \in [Cycles -> Exposures]
      BY <1>3, <2>1 DEF LoadExposure, Typed
    <2> QED BY <1>3, <2>1, <2>2 DEF LoadExposure, Typed, Phases, tables
  <1>4. ASSUME NEW c \in Cycles, AllocateNext(c) PROVE Typed'
    <2>1. PICK p \in Opportunities, room \in Int, cents \in Nat, forwarded \in BOOLEAN :
           /\ room \in Rooms(p, exposure[c])
           /\ \A other \in Rooms(p, exposure[c]) : room <= other
           /\ cents <= Capacity(p, exposure[c], room)
           /\ forwarded => p.legs # <<>> /\ Capacity(p, exposure[c], room) > 0
           /\ exposure' = [exposure EXCEPT
                ![c] = IF forwarded THEN ReserveExposure(p, cents, exposure[c]) ELSE exposure[c]]
           /\ allocations' = [allocations EXCEPT
                ![c] = Append(@, [proposal |-> p, cents |-> cents, forwarded |-> forwarded])]
           /\ proposals' = [proposals EXCEPT ![c] = @ \ {p}]
      BY <1>4, Allocating
    <2>2. exposure' \in [Cycles -> Exposures]
      BY <2>1, Reserved DEF Typed
    <2>3. allocations' \in [Cycles -> Seq(Allocation)]
      <3> DEFINE new == [proposal |-> p, cents |-> cents, forwarded |-> forwarded]
      <3>1. new \in Allocation
        BY DEF Allocation
      <3>2. allocations' = [allocations EXCEPT ![c] = Append(@, new)]
        BY <2>1
      <3> HIDE DEF new
      <3> QED BY <3>1, <3>2, Appended DEF Typed
    <2>4. proposals' \in [Cycles -> SUBSET Opportunities]
      BY <2>1 DEF Typed
    <2> QED BY <1>4, <2>2, <2>3, <2>4 DEF AllocateNext, Typed, Phases, tables
  <1>5. ASSUME NEW c \in Cycles, Assess(c) PROVE Typed'
    <2>1. PICK n \in DOMAIN allocations[c], status \in RiskStatuses, cents \in Nat :
           /\ allocations[c][n].forwarded
           /\ cents <= allocations[c][n].cents
           /\ Good(status) => ~Stopped(seen[c])
           /\ risks' = [risks EXCEPT
                ![c] = Append(@, [proposal |-> allocations[c][n].proposal, status |-> status,
                                  cents |-> cents])]
           /\ pc' = [pc EXCEPT ![c] = IF Good(status) THEN "plan" ELSE "assess"]
      BY <1>5, Assessing
    <2>2. allocations[c][n].proposal \in Opportunities
      BY Memory DEF Allocation
    <2>3. risks' \in [Cycles -> Seq(Decision)]
      <3> DEFINE new == [proposal |-> allocations[c][n].proposal, status |-> status,
                         cents |-> cents]
      <3>1. new \in Decision
        BY <2>2 DEF Decision
      <3>2. risks' = [risks EXCEPT ![c] = Append(@, new)]
        BY <2>1
      <3> HIDE DEF new
      <3> QED BY <3>1, <3>2, Appended DEF Typed
    <2> QED BY <1>5, <2>1, <2>3 DEF Assess, Typed, Phases, tables
  <1>6. ASSUME NEW c \in Cycles, Plan(c) PROVE Typed'
    <2>1. risks[c] # <<>>
      BY <1>6 DEF Plan, Decided
    <2>2. plans' \in [Cycles -> Seq(Intent)]
      <3>1. PICK intent \in Intent : plans' = [plans EXCEPT ![c] = Append(@, intent)]
        BY <1>6, <2>1, Planning
      <3> QED BY <3>1, Appended DEF Typed
    <2> QED BY <1>6, <2>2 DEF Plan, Typed, Phases, tables
  <1>7. ASSUME NEW c \in Cycles, BeginWrites(c) PROVE Typed'
    <2>1. Forget(c) /\ outbox' = [outbox EXCEPT ![c] = Writes(c)]
      BY <1>7 DEF BeginWrites
    <2>2. outbox' \in [Cycles -> Seq(Write)]
      BY <2>1, WritesAreTyped DEF Typed
    <2> QED BY <1>7, <2>1, <2>2, ForgetTyped DEF BeginWrites, Typed, Phases, tables
  <1>8. ASSUME NEW c \in Cycles, WriteNext(c) PROVE Typed'
    <2>1. outbox[c] # <<>>
      BY <1>8 DEF WriteNext, Writing
    <2> QED BY <1>8, <2>1, TypedWrite DEF WriteNext, Typed, Phases
  <1>9. ASSUME NEW c \in Cycles, Fail(c) PROVE Typed'
    BY <1>9, ForgetTyped, EmptySeq DEF Fail, Typed, Phases, tables
  <1>10. CASE Command
    BY <1>10, StatesAre DEF Command, Typed, memory
  <1>11. CASE Updating
    <2>1. PICK k \in MarketComplexes, sleeve \in Sleeves : PutSnapshot(k, sleeve)
      BY <1>11, UpdatingPuts
    <2>2. /\ DOMAIN snapshots' = DOMAIN snapshots \cup {k}
          /\ \A o \in DOMAIN snapshots' : snapshots'[o] \in [sleeve : Sleeves, cents : Nat]
      BY <2>1, CycleAssumption DEF PutSnapshot, Typed
    <2> QED BY <2>1, <2>2 DEF PutSnapshot, Typed, memory
  <1>12. CASE UNCHANGED vars
    BY <1>12 DEF vars, tables, memory, Typed
  <1> QED
    BY <1>1, <1>2, <1>3, <1>4, <1>5, <1>6, <1>7, <1>8, <1>9, <1>10, <1>11, <1>12
    DEF Next, Step, Updating

-----------------------------------------------------------------------------
(* What a cycle has decided. *)

LEMMA DecidedFrame ==
  ASSUME NEW c \in Cycles, Decided(c), seen'[c] = seen[c],
         allocations'[c] = allocations[c], risks'[c] = risks[c], plans'[c] = plans[c],
         pc'[c] = pc[c] \/ (pc[c] # "plan" /\ pc'[c] \notin {"plan", "start"})
  PROVE  Decided(c)'
  BY DEF Decided

LEMMA DecidedNothing ==
  ASSUME NEW c \in Cycles, risks'[c] = <<>>, plans'[c] = <<>>, pc'[c] # "plan"
  PROVE  Decided(c)'
  BY DEF Decided

LEMMA DecidedAllocate ==
  ASSUME Typed, NEW c \in Cycles, Decided(c), AllocateNext(c)
  PROVE  Decided(c)'
  <1>1. PICK p \in Opportunities, room \in Int, cents \in Nat, forwarded \in BOOLEAN :
           /\ room \in Rooms(p, exposure[c])
           /\ \A other \in Rooms(p, exposure[c]) : room <= other
           /\ cents <= Capacity(p, exposure[c], room)
           /\ forwarded => p.legs # <<>> /\ Capacity(p, exposure[c], room) > 0
           /\ exposure' = [exposure EXCEPT
                ![c] = IF forwarded THEN ReserveExposure(p, cents, exposure[c]) ELSE exposure[c]]
           /\ allocations' = [allocations EXCEPT
                ![c] = Append(@, [proposal |-> p, cents |-> cents, forwarded |-> forwarded])]
           /\ proposals' = [proposals EXCEPT ![c] = @ \ {p}]
    BY Allocating
  <1> DEFINE new == [proposal |-> p, cents |-> cents, forwarded |-> forwarded]
  <1>2. allocations'[c] = Append(allocations[c], new)
    BY <1>1 DEF Typed
  <1> HIDE DEF new
  <1>3. \A n \in DOMAIN allocations[c] : n \in DOMAIN allocations'[c]
                                        /\ allocations'[c][n] = allocations[c][n]
    BY <1>2, Memory
  <1>4. /\ pc[c] = "allocate" /\ pc'[c] \in {"allocate", "assess"}
        /\ seen'[c] = seen[c] /\ risks'[c] = risks[c] /\ plans'[c] = plans[c]
    BY DEF AllocateNext, Typed
  <1> QED BY <1>3, <1>4 DEF Decided

LEMMA DecidedAssess ==
  ASSUME Typed, NEW c \in Cycles, Decided(c), Assess(c)
  PROVE  Decided(c)'
  <1>1. PICK n \in DOMAIN allocations[c], status \in RiskStatuses, cents \in Nat :
           /\ allocations[c][n].forwarded
           /\ cents <= allocations[c][n].cents
           /\ Good(status) => ~Stopped(seen[c])
           /\ risks' = [risks EXCEPT
                ![c] = Append(@, [proposal |-> allocations[c][n].proposal, status |-> status,
                                  cents |-> cents])]
           /\ pc' = [pc EXCEPT ![c] = IF Good(status) THEN "plan" ELSE "assess"]
    BY Assessing
  <1> DEFINE new == [proposal |-> allocations[c][n].proposal, status |-> status,
                     cents |-> cents]
             last == Len(risks[c]) + 1
  <1>2. new.proposal = allocations[c][n].proposal /\ new.status = status /\ new.cents = cents
    OBVIOUS
  <1>3. risks'[c] = Append(risks[c], new)
    BY <1>1 DEF Typed
  <1> HIDE DEF new
  <1>4. /\ DOMAIN risks'[c] = 1 .. last /\ Len(risks'[c]) = last
        /\ DOMAIN risks[c] = 1 .. last - 1 /\ last \in Nat \ {0}
        /\ \A j \in DOMAIN risks[c] : risks'[c][j] = risks[c][j]
        /\ risks'[c][last] = new /\ risks'[c] # <<>>
    BY <1>3, Memory
  <1>5. /\ pc[c] = "assess" /\ pc'[c] = IF Good(status) THEN "plan" ELSE "assess"
        /\ UNCHANGED <<seen, allocations, plans>>
    BY <1>1 DEF Assess, Typed
  <1> HIDE DEF last
  <1>6. ASSUME NEW j \in DOMAIN risks'[c], Good(risks'[c][j].status)
        PROVE  /\ ~Stopped(seen[c])
               /\ \E m \in DOMAIN allocations[c] :
                    /\ allocations[c][m].forwarded
                    /\ allocations[c][m].proposal = risks'[c][j].proposal
                    /\ risks'[c][j].cents <= allocations[c][m].cents
               /\ \/ pc'[c] = "plan" /\ j = Len(risks'[c])
                  \/ \E k \in DOMAIN plans[c] : plans[c][k].proposal = risks'[c][j].proposal
                                                /\ plans[c][k].notional = risks'[c][j].cents
    <2>1. CASE j = last
      BY <1>1, <1>2, <1>4, <1>5, <1>6, <2>1
    <2>2. CASE j # last
      <3>1. j \in DOMAIN risks[c] /\ risks'[c][j] = risks[c][j]
        BY <1>4, <2>2
      <3> QED BY <1>5, <1>6, <3>1 DEF Decided
    <2> QED BY <2>1, <2>2
  <1>7. ASSUME NEW k \in DOMAIN plans[c]
        PROVE  /\ plans[c][k].cycle = c /\ Affordable(plans[c][k])
               /\ \E j \in DOMAIN risks'[c] : /\ Good(risks'[c][j].status)
                                              /\ risks'[c][j].proposal = plans[c][k].proposal
                                              /\ risks'[c][j].cents = plans[c][k].notional
    <2>1. PICK j \in DOMAIN risks[c] : /\ Good(risks[c][j].status)
                                       /\ risks[c][j].proposal = plans[c][k].proposal
                                       /\ risks[c][j].cents = plans[c][k].notional
      BY DEF Decided
    <2>2. j \in DOMAIN risks'[c] /\ risks'[c][j] = risks[c][j]
      BY <1>4
    <2> QED BY <2>1, <2>2 DEF Decided
  <1>8. pc'[c] = "plan" => risks'[c] # <<>> /\ Good(risks'[c][Len(risks'[c])].status)
    BY <1>2, <1>4, <1>5
  <1> QED BY <1>5, <1>6, <1>7, <1>8 DEF Decided

LEMMA DecidedPlan ==
  ASSUME Typed, NEW c \in Cycles, Decided(c), Plan(c)
  PROVE  Decided(c)'
  <1> DEFINE last == Len(risks[c])
             next == Len(plans[c]) + 1
  <1>1. pc[c] = "plan" /\ risks[c] # <<>> /\ Good(risks[c][last].status)
    BY DEF Plan, Decided
  <1>2. PICK intent \in Intent :
           /\ intent.cycle = c /\ Affordable(intent)
           /\ intent.proposal = risks[c][last].proposal
           /\ intent.notional = risks[c][last].cents
           /\ plans' = [plans EXCEPT ![c] = Append(@, intent)]
    BY <1>1, Planning
  <1>3. plans'[c] = Append(plans[c], intent)
    BY <1>2 DEF Typed
  <1>4. /\ DOMAIN plans'[c] = 1 .. next /\ DOMAIN plans[c] = 1 .. next - 1
        /\ next \in Nat \ {0}
        /\ \A k \in DOMAIN plans[c] : plans'[c][k] = plans[c][k]
        /\ plans'[c][next] = intent /\ next \in DOMAIN plans'[c]
        /\ last \in DOMAIN risks[c]
    BY <1>1, <1>3, Memory
  <1>5. pc'[c] = "assess" /\ UNCHANGED <<seen, allocations, risks>>
    BY DEF Plan, Typed
  <1> HIDE DEF last, next
  <1>6. ASSUME NEW j \in DOMAIN risks[c], Good(risks[c][j].status)
        PROVE  \E k \in DOMAIN plans'[c] : plans'[c][k].proposal = risks[c][j].proposal
                                          /\ plans'[c][k].notional = risks[c][j].cents
    <2>1. CASE j = last
      BY <1>2, <1>4, <2>1
    <2>2. CASE j # last
      <3>1. PICK k \in DOMAIN plans[c] : plans[c][k].proposal = risks[c][j].proposal
                                        /\ plans[c][k].notional = risks[c][j].cents
        BY <1>6, <2>2 DEF Decided, last
      <3> QED BY <1>4, <3>1
    <2> QED BY <2>1, <2>2
  <1>7. ASSUME NEW k \in DOMAIN plans'[c]
        PROVE  /\ plans'[c][k].cycle = c /\ Affordable(plans'[c][k])
               /\ \E j \in DOMAIN risks[c] : /\ Good(risks[c][j].status)
                                             /\ risks[c][j].proposal = plans'[c][k].proposal
                                             /\ risks[c][j].cents = plans'[c][k].notional
    <2>1. CASE k = next
      BY <1>1, <1>2, <1>4, <2>1
    <2>2. CASE k # next
      <3>1. k \in DOMAIN plans[c] /\ plans'[c][k] = plans[c][k]
        BY <1>4, <2>2
      <3> QED BY <3>1 DEF Decided
    <2> QED BY <2>1, <2>2
  <1>8. Affordable(intent)
    BY <1>2
  <1>9. \A j \in DOMAIN risks[c] : Good(risks[c][j].status) =>
       /\ ~Stopped(seen[c])
       /\ \E n \in DOMAIN allocations[c] :
            /\ allocations[c][n].forwarded
            /\ allocations[c][n].proposal = risks[c][j].proposal
            /\ risks[c][j].cents <= allocations[c][n].cents
    BY DEF Decided
  <1> QED BY <1>5, <1>6, <1>7, <1>9 DEF Decided

LEMMA DecidedStep ==
  ASSUME Typed, \A c \in Cycles : Decided(c), [Next]_vars
  PROVE  \A c \in Cycles : Decided(c)'
  <1> SUFFICES ASSUME NEW c \in Cycles PROVE Decided(c)'
    OBVIOUS
  <1>1. ASSUME NEW d \in Cycles, Step(d), d # c PROVE Decided(c)'
    <2>1. /\ seen'[c] = seen[c] /\ allocations'[c] = allocations[c] /\ risks'[c] = risks[c]
          /\ plans'[c] = plans[c] /\ pc'[c] = pc[c]
      BY <1>1
      DEF Step, ReadOperator, Propose, LoadExposure, AllocateNext, Assess, Plan, BeginWrites,
          WriteNext, Fail, Forget, Typed
    <2> QED BY <2>1, DecidedFrame
  <1>2. CASE ReadOperator(c)
    BY <1>2, DecidedNothing DEF ReadOperator, Decided, Typed
  <1>3. CASE Propose(c) \/ LoadExposure(c) \/ WriteNext(c)
    <2>1. /\ seen'[c] = seen[c] /\ allocations'[c] = allocations[c] /\ risks'[c] = risks[c]
          /\ plans'[c] = plans[c] /\ pc[c] # "plan" /\ pc'[c] \notin {"plan", "start"}
      BY <1>3 DEF Propose, LoadExposure, WriteNext, Typed
    <2> QED BY <2>1, DecidedFrame
  <1>4. CASE BeginWrites(c) \/ Fail(c)
    BY <1>4, DecidedNothing DEF BeginWrites, Fail, Forget, Typed
  <1>5. CASE Command \/ Updating \/ UNCHANGED vars
    BY <1>5, DecidedFrame DEF Command, Updating, UpdateAggregatedPositionSnapshot,
         UpdateAccountPosition, PutSnapshot, vars, memory
  <1> QED
    BY <1>1, <1>2, <1>3, <1>4, <1>5, DecidedAllocate, DecidedAssess, DecidedPlan
    DEF Next, Step, Updating

-----------------------------------------------------------------------------
(* What a cycle has yet to write. *)

LEMMA AccountedMore ==
  ASSUME NEW i, NEW rows, NEW more, rows \subseteq more, Accounted(i, rows)
  PROVE  Accounted(i, more)
  BY DEF Accounted

LEMMA OrderedMore ==
  ASSUME NEW c, NEW s, NEW rows, NEW more, NEW stopped, rows \subseteq more,
         Ordered(c, s, rows, stopped)
  PROVE  Ordered(c, s, more, stopped)
  <1>1. \A n : Before(rows, s, n) \subseteq Before(more, s, n)
    BY DEF Before
  <1> QED BY <1>1, AccountedMore DEF Ordered

LEMMA SettledMore ==
  ASSUME NEW c, NEW s, NEW rows, NEW more, NEW set, NEW larger,
         rows \subseteq more, set \subseteq larger,
         \A row \in more \ rows : row.cycle # c,
         Settled(c, s, rows, set)
  PROVE  Settled(c, s, more, larger)
  <1>1. RowsAfter(rows, s) \subseteq RowsAfter(more, s)
        /\ IntentsAfter(set, s) \subseteq IntentsAfter(larger, s)
    BY DEF RowsAfter, IntentsAfter
  <1>2. \A row \in RowsAfter(more, s) : row.cycle = c => row \in RowsAfter(rows, s)
    BY DEF RowsAfter
  <1> QED BY <1>1, <1>2 DEF Settled

\* One write less.
LEMMA WrittenTail ==
  ASSUME NEW s \in Seq(Write), s # <<>>
  PROVE  /\ 1 \in DOMAIN s /\ Len(Tail(s)) = Len(s) - 1 /\ Len(s) \in Nat
         /\ DOMAIN s = 1 .. Len(s) /\ DOMAIN Tail(s) = 1 .. Len(s) - 1
         /\ \A n \in DOMAIN Tail(s) : n + 1 \in DOMAIN s /\ Tail(s)[n] = s[n + 1]
         /\ \A m \in DOMAIN s : m # 1 => m - 1 \in DOMAIN Tail(s) /\ Tail(s)[m - 1] = s[m]
         /\ s[1].table \in {"state", "ledger"}
  <1>1. s[1] \in Write
    OBVIOUS
  <1>2. s[1].table \in {"state", "ledger"}
    BY <1>1 DEF Write
  <1> QED BY <1>2

LEMMA OrderedTail ==
  ASSUME NEW c, NEW s \in Seq(Write), s # <<>>, NEW rows, NEW more, NEW stopped,
         s[1].table = "ledger" => s[1].row \in more,
         rows \subseteq more,
         Ordered(c, s, rows, stopped)
  PROVE  Ordered(c, Tail(s), more, stopped)
  <1>1. ASSUME NEW n \in DOMAIN Tail(s)
        PROVE  Before(rows, s, n + 1) \subseteq Before(more, Tail(s), n)
    <2>1. ASSUME NEW m \in DOMAIN s, m < n + 1, s[m].table = "ledger"
          PROVE  s[m].row \in Before(more, Tail(s), n)
      <3>1. CASE m = 1
        BY <2>1, <3>1 DEF Before
      <3>2. CASE m # 1
        <4>1. m - 1 \in DOMAIN Tail(s) /\ m - 1 < n /\ Tail(s)[m - 1] = s[m]
          BY <2>1, <3>2, WrittenTail
        <4> QED BY <2>1, <4>1 DEF Before
      <3> QED BY <3>1, <3>2
    <2>2. rows \subseteq Before(more, Tail(s), n)
      BY DEF Before
    <2> QED BY <2>1, <2>2 DEF Before
  <1>2. ASSUME NEW n \in DOMAIN Tail(s)
        PROVE  /\ Tail(s)[n].row.cycle = c
               /\ Tail(s)[n].table = "state" =>
                    /\ ~stopped
                    /\ Accounted(Tail(s)[n].row, Before(more, Tail(s), n))
                    /\ Affordable(Tail(s)[n].row)
               /\ Tail(s)[n] = CycleRow(c) => n = Len(Tail(s))
    <2>1. n + 1 \in DOMAIN s /\ Tail(s)[n] = s[n + 1]
      BY WrittenTail
    <2>2. /\ s[n + 1].row.cycle = c
          /\ s[n + 1].table = "state" => /\ ~stopped
                                         /\ Accounted(s[n + 1].row, Before(rows, s, n + 1))
                                         /\ Affordable(s[n + 1].row)
          /\ s[n + 1] = CycleRow(c) => n + 1 = Len(s)
      BY <2>1 DEF Ordered
    <2>3. Len(s) \in Nat /\ Len(Tail(s)) = Len(s) - 1 /\ n \in Nat
      BY WrittenTail
    <2>4. Accounted(s[n + 1].row, Before(rows, s, n + 1)) =>
            Accounted(s[n + 1].row, Before(more, Tail(s), n))
      <3> DEFINE i == s[n + 1].row
                 r == Before(rows, s, n + 1)
                 m == Before(more, Tail(s), n)
      <3>1. r \subseteq m
        BY <1>1
      <3> HIDE DEF i, r, m
      <3>2. Accounted(i, r) => Accounted(i, m)
        BY <3>1, AccountedMore
      <3> QED BY <3>2 DEF i, r, m
    <2>5. n + 1 = Len(s) => n = Len(Tail(s))
      <3> DEFINE a == Len(s)
                 b == Len(Tail(s))
      <3>1. a \in Nat /\ b = a - 1 /\ n \in Nat
        BY <2>3
      <3> HIDE DEF a, b
      <3>2. n + 1 = a => n = b
        BY <3>1
      <3> QED BY <3>2 DEF a, b
    <2> QED BY <2>1, <2>2, <2>4, <2>5
  <1> QED BY <1>2 DEF Ordered

LEMMA SettledTail ==
  ASSUME NEW c, NEW s \in Seq(Write), s # <<>>, NEW rows, NEW more, NEW set, NEW larger,
         IF s[1].table = "state" THEN larger = set \cup {s[1].row} /\ more = rows
         ELSE more = rows \cup {s[1].row} /\ larger = set,
         Settled(c, s, rows, set)
  PROVE  Settled(c, Tail(s), more, larger)
  <1>1. ASSUME NEW table \in {"state", "ledger"}
        PROVE  {s[m].row : m \in {m \in DOMAIN s : s[m].table = table}} =
               {Tail(s)[m].row : m \in {m \in DOMAIN Tail(s) : Tail(s)[m].table = table}}
               \cup (IF s[1].table = table THEN {s[1].row} ELSE {})
    <2> DEFINE all == {s[m].row : m \in {m \in DOMAIN s : s[m].table = table}}
               rest == {Tail(s)[m].row :
                          m \in {m \in DOMAIN Tail(s) : Tail(s)[m].table = table}}
               first == IF s[1].table = table THEN {s[1].row} ELSE {}
    <2>1. ASSUME NEW m \in DOMAIN s, s[m].table = table
          PROVE  s[m].row \in rest \cup first
      BY <2>1, WrittenTail
    <2>2. ASSUME NEW m \in DOMAIN Tail(s), Tail(s)[m].table = table
          PROVE  Tail(s)[m].row \in all
      BY <2>2, WrittenTail
    <2>3. first \subseteq all
      BY WrittenTail
    <2>4. all \subseteq rest \cup first
      BY <2>1
    <2>5. rest \subseteq all
      BY <2>2
    <2> HIDE DEF all, rest, first
    <2>6. all = rest \cup first
      BY <2>3, <2>4, <2>5
    <2> QED BY <2>6 DEF all, rest, first
  <1>2. RowsAfter(more, Tail(s)) = RowsAfter(rows, s)
    BY <1>1, WrittenTail DEF RowsAfter
  <1>3. IntentsAfter(larger, Tail(s)) = IntentsAfter(set, s)
    BY <1>1, WrittenTail DEF IntentsAfter
  <1> QED BY <1>2, <1>3 DEF Settled

\* Where each row of the decisions stands in the list.
LEMMA WritesShape ==
  ASSUME Typed, NEW c \in Cycles
  PROVE  LET w == Writes(c)
             a == Len(allocations[c])
             r == Len(risks[c])
             p == Len(plans[c])
         IN  /\ w \in Seq(Write) /\ Len(w) = a + a + r + 2 * p + 1
             /\ DOMAIN w = 1 .. a + a + r + 2 * p + 1
             /\ w[a + a + r + 2 * p + 1] = CycleRow(c)
             /\ \A i \in 1 .. a :
                  /\ w[i] = LedgerRow("strategy_proposal", c, allocations[c][i].proposal, "none", 0)
                  /\ w[a + i] = LedgerRow("allocator_decision", c, allocations[c][i].proposal,
                                          IF allocations[c][i].forwarded
                                          THEN "forwarded_to_risk" ELSE "rejected",
                                          allocations[c][i].cents)
             /\ \A j \in 1 .. r :
                  w[a + a + j] = LedgerRow("risk_decision", c, risks[c][j].proposal,
                                           risks[c][j].status, risks[c][j].cents)
             /\ \A k \in 1 .. p :
                  /\ w[a + a + r + (2 * k - 1)] = IntentRow(plans[c][k])
                  /\ w[a + a + r + 2 * k] =
                       LedgerRow("execution_intent", c, plans[c][k].proposal, "none",
                                 plans[c][k].notional)
  <1> DEFINE a == Len(allocations[c])
             r == Len(risks[c])
             p == Len(plans[c])
             s1 == ProposalRows(c, allocations[c])
             s2 == AllocatorRows(c, allocations[c])
             s3 == RiskRows(c, risks[c])
             s4 == IntentRows(c, plans[c])
             w == Writes(c)
  <1>1. /\ a \in Nat /\ r \in Nat /\ p \in Nat
        /\ DOMAIN allocations[c] = 1 .. a /\ DOMAIN risks[c] = 1 .. r
    BY Memory
  <1>2. /\ s1 \in Seq(Write) /\ Len(s1) = a /\ s2 \in Seq(Write) /\ Len(s2) = a
        /\ s3 \in Seq(Write) /\ Len(s3) = r /\ s4 \in Seq(Write) /\ Len(s4) = 2 * p
        /\ CycleRow(c) \in Write
        /\ \A k \in 1 .. p :
             /\ s4[2 * k - 1] = IntentRow(plans[c][k])
             /\ s4[2 * k] = LedgerRow("execution_intent", c, plans[c][k].proposal, "none",
                                      plans[c][k].notional)
    BY DecisionRowsShape, IntentRowsShape
  <1>3. \A i \in 1 .. a :
          /\ s1[i] = LedgerRow("strategy_proposal", c, allocations[c][i].proposal, "none", 0)
          /\ s2[i] = LedgerRow("allocator_decision", c, allocations[c][i].proposal,
                               IF allocations[c][i].forwarded
                               THEN "forwarded_to_risk" ELSE "rejected",
                               allocations[c][i].cents)
    BY <1>1 DEF ProposalRows, AllocatorRows
  <1>4. \A j \in 1 .. r : s3[j] = LedgerRow("risk_decision", c, risks[c][j].proposal,
                                           risks[c][j].status, risks[c][j].cents)
    BY <1>1 DEF RiskRows
  <1>5. w = s1 \o s2 \o s3 \o s4 \o <<CycleRow(c)>>
    BY DEF Writes
  <1> HIDE DEF s1, s2, s3, s4, w, a, r, p
  <1>6. /\ w \in Seq(Write)
        /\ Len(w) = Len(s1) + Len(s2) + Len(s3) + Len(s4) + 1
        /\ w[Len(s1) + Len(s2) + Len(s3) + Len(s4) + 1] = CycleRow(c)
        /\ \A i \in 1 .. Len(s1) : w[i] = s1[i]
        /\ \A i \in 1 .. Len(s2) : w[Len(s1) + i] = s2[i]
        /\ \A i \in 1 .. Len(s3) : w[Len(s1) + Len(s2) + i] = s3[i]
        /\ \A i \in 1 .. Len(s4) : w[Len(s1) + Len(s2) + Len(s3) + i] = s4[i]
    <2>1. w \in Seq(Write) /\ Joined(w, s1, s2, s3, s4, CycleRow(c))
      BY <1>2, <1>5, FiveLists
    <2> QED BY <2>1 DEF Joined
  <1>7. /\ w \in Seq(Write) /\ Len(w) = a + a + r + 2 * p + 1
        /\ w[a + a + r + 2 * p + 1] = CycleRow(c)
        /\ \A i \in 1 .. a : w[i] = s1[i] /\ w[a + i] = s2[i]
        /\ \A i \in 1 .. r : w[a + a + i] = s3[i]
        /\ \A i \in 1 .. 2 * p : w[a + a + r + i] = s4[i]
    <2>1. Len(s1) = a /\ Len(s2) = a /\ Len(s3) = r /\ Len(s4) = 2 * p
      BY <1>2
    <2> QED BY <1>6, <2>1
  <1>8. \A k \in 1 .. p : 2 * k - 1 \in 1 .. 2 * p /\ 2 * k \in 1 .. 2 * p
    BY <1>1
  <1>9. \A k \in 1 .. p : /\ w[a + a + r + (2 * k - 1)] = s4[2 * k - 1]
                         /\ w[a + a + r + 2 * k] = s4[2 * k]
    BY <1>7, <1>8
  <1>10. DOMAIN w = 1 .. a + a + r + 2 * p + 1
    BY <1>7, LenProperties
  <1> QED BY <1>2, <1>3, <1>4, <1>7, <1>9, <1>10 DEF w, a, r, p

LEMMA CycleRowIs ==
  ASSUME NEW c
  PROVE  /\ CycleRow(c).table = "ledger"
         /\ CycleRow(c).row.kind = "decision_cycle" /\ CycleRow(c).row.cycle = c
  BY DEF CycleRow, LedgerRow

\* What stands where in the list, and who may stand before whom.
LEMMA WritesOf ==
  ASSUME Typed, NEW c \in Cycles, NEW m \in DOMAIN Writes(c)
  PROVE  LET w == Writes(c)
             a == Len(allocations[c])
             r == Len(risks[c])
         IN  \/ /\ w[m].table = "ledger" /\ w[m].row.cycle = c
                /\ w[m] # CycleRow(c) /\ w[m].row.kind # "risk_decision"
             \/ \E j \in DOMAIN risks[c] :
                  /\ w[m].table = "ledger" /\ w[m].row.cycle = c /\ w[m] # CycleRow(c)
                  /\ w[m].row.proposal = risks[c][j].proposal
                  /\ w[m].row.status = risks[c][j].status
                  /\ w[m].row.cents = risks[c][j].cents
             \/ \E k \in DOMAIN plans[c] :
                  m = a + a + r + (2 * k - 1) /\ w[m] = IntentRow(plans[c][k])
             \/ m = Len(w) /\ w[m] = CycleRow(c)
  <1> DEFINE w == Writes(c)
             a == Len(allocations[c])
             r == Len(risks[c])
             p == Len(plans[c])
  <1>1. /\ a \in Nat /\ r \in Nat /\ p \in Nat
        /\ DOMAIN allocations[c] = 1 .. a /\ DOMAIN risks[c] = 1 .. r
        /\ DOMAIN plans[c] = 1 .. p
        /\ \A i \in 1 .. a : allocations[c][i] \in Allocation
        /\ \A j \in 1 .. r : risks[c][j] \in Decision
        /\ \A k \in 1 .. p : plans[c][k] \in Intent
    BY Memory
  <1>2. /\ Len(w) = a + a + r + 2 * p + 1 /\ m \in 1 .. a + a + r + 2 * p + 1
        /\ w[a + a + r + 2 * p + 1] = CycleRow(c)
        /\ \A i \in 1 .. a :
             /\ w[i] = LedgerRow("strategy_proposal", c, allocations[c][i].proposal, "none", 0)
             /\ w[a + i] = LedgerRow("allocator_decision", c, allocations[c][i].proposal,
                                     IF allocations[c][i].forwarded
                                     THEN "forwarded_to_risk" ELSE "rejected",
                                     allocations[c][i].cents)
        /\ \A j \in 1 .. r :
             w[a + a + j] = LedgerRow("risk_decision", c, risks[c][j].proposal,
                                      risks[c][j].status, risks[c][j].cents)
        /\ \A k \in 1 .. p :
             /\ w[a + a + r + (2 * k - 1)] = IntentRow(plans[c][k])
             /\ w[a + a + r + 2 * k] =
                  LedgerRow("execution_intent", c, plans[c][k].proposal, "none",
                            plans[c][k].notional)
    BY WritesShape
  <1> HIDE DEF w, a, r, p
  <1>0. a \in Nat /\ r \in Nat /\ p \in Nat /\ m \in 1 .. a + a + r + 2 * p + 1
    BY <1>1, <1>2
  <1>3. CASE m \in 1 .. a
    <2>1. allocations[c][m].proposal \in Opportunities
      BY <1>1, <1>3 DEF Allocation
    <2>2. w[m] = LedgerRow("strategy_proposal", c, allocations[c][m].proposal, "none", 0)
      BY <1>2, <1>3
    <2>3. w[m].table = "ledger" /\ w[m].row.cycle = c /\ w[m].row.kind = "strategy_proposal"
      BY <2>2 DEF LedgerRow
    <2> QED BY <2>3, CycleRowIs DEF w
  <1>4. CASE m - a \in 1 .. a
    <2>1. PICK i \in 1 .. a : m = a + i
      BY <1>0, <1>4
    <2> DEFINE status == IF allocations[c][i].forwarded THEN "forwarded_to_risk" ELSE "rejected"
    <2>2. allocations[c][i].proposal \in Opportunities /\ allocations[c][i].cents \in Nat
      BY <1>1 DEF Allocation
    <2>3. w[m] = LedgerRow("allocator_decision", c, allocations[c][i].proposal, status,
                           allocations[c][i].cents)
      BY <1>2, <2>1
    <2>4. status \in RiskStatuses \cup {"none", "forwarded_to_risk"}
      BY DEF RiskStatuses
    <2> HIDE DEF status
    <2>5. w[m].table = "ledger" /\ w[m].row.cycle = c /\ w[m].row.kind = "allocator_decision"
      BY <2>3 DEF LedgerRow
    <2> QED BY <2>5, CycleRowIs DEF w
  <1>5. CASE m - (a + a) \in 1 .. r
    <2>1. PICK j \in 1 .. r : m = a + a + j
      BY <1>0, <1>5
    <2>2. risks[c][j].proposal \in Opportunities /\ risks[c][j].status \in RiskStatuses
          /\ risks[c][j].cents \in Nat
      BY <1>1 DEF Decision
    <2>3. w[m] = LedgerRow("risk_decision", c, risks[c][j].proposal, risks[c][j].status,
                           risks[c][j].cents)
      BY <1>2, <2>1
    <2>4. /\ w[m].table = "ledger" /\ w[m].row.cycle = c /\ w[m].row.kind = "risk_decision"
          /\ w[m].row.proposal = risks[c][j].proposal
          /\ w[m].row.status = risks[c][j].status
          /\ w[m].row.cents = risks[c][j].cents
      BY <2>3 DEF LedgerRow
    <2>5. w[m] # CycleRow(c)
      BY <2>4, CycleRowIs
    <2> QED BY <1>1, <2>4, <2>5 DEF w
  <1>6. CASE m - (a + a + r) \in 1 .. 2 * p
    <2>1. PICK i \in 1 .. 2 * p : m = a + a + r + i
      BY <1>0, <1>6
    <2>2. PICK k \in 1 .. p : i = 2 * k - 1 \/ i = 2 * k
      <3>1. (i + 1) \div 2 \in 1 .. p
            /\ (i = 2 * ((i + 1) \div 2) - 1 \/ i = 2 * ((i + 1) \div 2))
        BY <1>0
      <3> QED BY <3>1
    <2>3. CASE i = 2 * k - 1
      BY <1>1, <1>2, <2>1, <2>3 DEF w, a, r
    <2>4. CASE i = 2 * k
      <3>1. plans[c][k].proposal \in Opportunities /\ plans[c][k].notional \in Nat
        BY <1>1 DEF Intent
      <3>2. w[m] = LedgerRow("execution_intent", c, plans[c][k].proposal, "none",
                             plans[c][k].notional)
        BY <1>2, <2>1, <2>4
      <3>3. w[m].table = "ledger" /\ w[m].row.cycle = c /\ w[m].row.kind = "execution_intent"
        BY <3>2 DEF LedgerRow
      <3> QED BY <3>3, CycleRowIs DEF w
    <2> QED BY <2>2, <2>3, <2>4
  <1>7. CASE m = a + a + r + 2 * p + 1
    BY <1>2, <1>7 DEF w
  <1>8. \/ m \in 1 .. a \/ m - a \in 1 .. a \/ m - (a + a) \in 1 .. r
        \/ m - (a + a + r) \in 1 .. 2 * p \/ m = a + a + r + 2 * p + 1
    BY <1>0
  <1> QED BY <1>3, <1>4, <1>5, <1>6, <1>7, <1>8

\* An intent of the list is preceded by the rows that account for it.
LEMMA AccountedWrite ==
  ASSUME Typed, NEW c \in Cycles, Decided(c), NEW rows, NEW k \in DOMAIN plans[c],
         NEW m, m = Len(allocations[c]) + Len(allocations[c]) + Len(risks[c]) + (2 * k - 1)
  PROVE  /\ Accounted(plans[c][k], Before(rows, Writes(c), m))
         /\ ~Stopped(seen[c]) /\ Affordable(plans[c][k]) /\ plans[c][k].cycle = c
  <1> DEFINE w == Writes(c)
             a == Len(allocations[c])
             r == Len(risks[c])
             p == Len(plans[c])
             plan == plans[c][k]
  <1>1. PICK j \in DOMAIN risks[c] : /\ Good(risks[c][j].status)
                                     /\ risks[c][j].proposal = plan.proposal
                                     /\ risks[c][j].cents = plan.notional
    BY DEF Decided
  <1>2. ~Stopped(seen[c]) /\ Affordable(plan) /\ plan.cycle = c
    BY <1>1 DEF Decided
  <1>3. PICK n \in DOMAIN allocations[c] :
          /\ allocations[c][n].forwarded
          /\ allocations[c][n].proposal = risks[c][j].proposal
          /\ risks[c][j].cents <= allocations[c][n].cents
    BY <1>1 DEF Decided
  <1>4. /\ a \in Nat /\ r \in Nat /\ p \in Nat
        /\ j \in 1 .. r /\ n \in 1 .. a /\ k \in 1 .. p
    BY Memory
  <1>5. /\ DOMAIN w = 1 .. a + a + r + 2 * p + 1
        /\ w[n] = LedgerRow("strategy_proposal", c, allocations[c][n].proposal, "none", 0)
        /\ w[a + n] = LedgerRow("allocator_decision", c, allocations[c][n].proposal,
                                IF allocations[c][n].forwarded
                                THEN "forwarded_to_risk" ELSE "rejected",
                                allocations[c][n].cents)
        /\ w[a + a + j] = LedgerRow("risk_decision", c, risks[c][j].proposal,
                                    risks[c][j].status, risks[c][j].cents)
    BY <1>4, WritesShape
  <1>6. /\ n \in DOMAIN w /\ a + n \in DOMAIN w /\ a + a + j \in DOMAIN w
        /\ n < m /\ a + n < m /\ a + a + j < m
    <2>1. DOMAIN w = 1 .. a + a + r + 2 * p + 1 /\ m = a + a + r + (2 * k - 1)
      BY <1>5
    <2> HIDE DEF w, a, r, p
    <2>2. /\ n \in 1 .. a + a + r + 2 * p + 1 /\ a + n \in 1 .. a + a + r + 2 * p + 1
          /\ a + a + j \in 1 .. a + a + r + 2 * p + 1
          /\ n < a + a + r + (2 * k - 1) /\ a + n < a + a + r + (2 * k - 1)
          /\ a + a + j < a + a + r + (2 * k - 1)
      BY <1>4
    <2> QED BY <2>1, <2>2
  <1> DEFINE before == Before(rows, w, m)
  <1> HIDE DEF w, a, r, p
  <1>7. \A i \in DOMAIN w : i < m /\ w[i].table = "ledger" => w[i].row \in before
    BY DEF Before
  <1> HIDE DEF before, plan
  <1>8. LedgerRow("strategy_proposal", c, plan.proposal, "none", 0).row \in before
    <2>1. w[n] = LedgerRow("strategy_proposal", c, plan.proposal, "none", 0)
      BY <1>1, <1>3, <1>5
    <2>2. w[n].table = "ledger"
      BY <2>1 DEF LedgerRow
    <2> QED BY <1>6, <1>7, <2>1, <2>2
  <1>9. /\ w[a + n].row \in before /\ w[a + n].row.kind = "allocator_decision"
        /\ w[a + n].row.cycle = c /\ w[a + n].row.proposal = plan.proposal
        /\ w[a + n].row.status = "forwarded_to_risk" /\ plan.notional <= w[a + n].row.cents
    <2>1. w[a + n] = LedgerRow("allocator_decision", c, plan.proposal, "forwarded_to_risk",
                               allocations[c][n].cents)
      BY <1>1, <1>3, <1>5
    <2>2. /\ w[a + n].table = "ledger" /\ w[a + n].row.kind = "allocator_decision"
          /\ w[a + n].row.cycle = c /\ w[a + n].row.proposal = plan.proposal
          /\ w[a + n].row.status = "forwarded_to_risk"
          /\ w[a + n].row.cents = allocations[c][n].cents
      BY <2>1 DEF LedgerRow
    <2>3. plan.notional <= w[a + n].row.cents
      BY <1>1, <1>3, <2>2
    <2> QED BY <1>6, <1>7, <2>2, <2>3
  <1>10. /\ w[a + a + j].row \in before /\ w[a + a + j].row.kind = "risk_decision"
         /\ w[a + a + j].row.cycle = c /\ w[a + a + j].row.proposal = plan.proposal
         /\ Good(w[a + a + j].row.status) /\ plan.notional = w[a + a + j].row.cents
    <2>1. w[a + a + j] = LedgerRow("risk_decision", c, plan.proposal, risks[c][j].status,
                                   plan.notional)
      BY <1>1, <1>5
    <2>2. /\ w[a + a + j].table = "ledger" /\ w[a + a + j].row.kind = "risk_decision"
          /\ w[a + a + j].row.cycle = c /\ w[a + a + j].row.proposal = plan.proposal
          /\ w[a + a + j].row.status = risks[c][j].status
          /\ w[a + a + j].row.cents = plan.notional
      BY <2>1 DEF LedgerRow
    <2> QED BY <1>1, <1>6, <1>7, <2>2
  <1>11. Accounted(plan, before)
    BY <1>2, <1>8, <1>9, <1>10 DEF Accounted
  <1> QED BY <1>2, <1>11 DEF before, w, plan

LEMMA OrderedWrites ==
  ASSUME Typed, NEW c \in Cycles, Decided(c), NEW rows
  PROVE  Ordered(c, Writes(c), rows, Stopped(seen[c]))
  <1> DEFINE w == Writes(c)
  <1> SUFFICES ASSUME NEW m \in DOMAIN w
               PROVE  /\ w[m].row.cycle = c
                      /\ w[m].table = "state" => /\ ~Stopped(seen[c])
                                                 /\ Accounted(w[m].row, Before(rows, w, m))
                                                 /\ Affordable(w[m].row)
                      /\ w[m] = CycleRow(c) => m = Len(w)
    BY DEF Ordered
  <1>1. CASE w[m].table = "ledger" /\ w[m].row.cycle = c
             /\ (w[m] # CycleRow(c) \/ m = Len(w))
    BY <1>1
  <1>2. ASSUME NEW k \in DOMAIN plans[c], w[m] = IntentRow(plans[c][k]),
               m = Len(allocations[c]) + Len(allocations[c]) + Len(risks[c]) + (2 * k - 1)
        PROVE  /\ w[m].row.cycle = c
               /\ ~Stopped(seen[c])
               /\ Accounted(w[m].row, Before(rows, w, m))
               /\ Affordable(w[m].row)
               /\ w[m] # CycleRow(c)
    <2>1. w[m].table = "state" /\ w[m].row = plans[c][k]
      BY <1>2 DEF IntentRow
    <2>2. w[m] # CycleRow(c)
      BY <2>1, CycleRowIs
    <2> QED BY <1>2, <2>1, <2>2, AccountedWrite
  <1> QED BY <1>1, <1>2, WritesOf, CycleRowIs

\* A list of a fresh cycle leaves no approval without its intent.
LEMMA SettledWrites ==
  ASSUME Typed, NEW c \in Cycles, Decided(c), pc[c] # "plan",
         NEW rows, \A row \in rows : row.cycle # c, NEW set
  PROVE  Settled(c, Writes(c), rows, set)
  <1> DEFINE w == Writes(c)
  <1> SUFFICES ASSUME NEW row \in RowsAfter(rows, w), row.kind = "risk_decision",
                      row.cycle = c, Good(row.status)
               PROVE  /\ \E i \in IntentsAfter(set, w) : i.cycle = c /\ i.proposal = row.proposal
                      /\ LedgerRow("execution_intent", c, row.proposal, "none", row.cents).row
                           \in RowsAfter(rows, w)
    BY DEF Settled
  <1>1. PICK m \in DOMAIN w : w[m].table = "ledger" /\ row = w[m].row
    BY DEF RowsAfter
  <1>2. PICK j \in DOMAIN risks[c] : /\ row.proposal = risks[c][j].proposal
                                     /\ row.status = risks[c][j].status
                                     /\ row.cents = risks[c][j].cents
    <2>1. w[m] # CycleRow(c)
      BY <1>1, CycleRowIs
    <2>2. ASSUME NEW k \in DOMAIN plans[c], w[m] = IntentRow(plans[c][k]) PROVE FALSE
      BY <1>1, <2>2 DEF IntentRow
    <2>3. w[m].row.kind = "risk_decision"
      BY <1>1
    <2>4. PICK j \in DOMAIN risks[c] : /\ w[m].row.proposal = risks[c][j].proposal
                                       /\ w[m].row.status = risks[c][j].status
                                       /\ w[m].row.cents = risks[c][j].cents
      BY <2>1, <2>2, <2>3, WritesOf, Zenon
    <2> QED BY <1>1, <2>4
  <1>3. PICK k \in DOMAIN plans[c] : plans[c][k].proposal = row.proposal
                                     /\ plans[c][k].notional = row.cents
    BY <1>2 DEF Decided
  <1>4. plans[c][k].cycle = c
    BY DEF Decided
  <1> DEFINE at == Len(allocations[c]) + Len(allocations[c]) + Len(risks[c]) + (2 * k - 1)
             copy == Len(allocations[c]) + Len(allocations[c]) + Len(risks[c]) + 2 * k
  <1>5. /\ w[at] = IntentRow(plans[c][k])
        /\ w[copy] = LedgerRow("execution_intent", c, plans[c][k].proposal, "none",
                               plans[c][k].notional)
    <2>1. k \in 1 .. Len(plans[c])
      BY Memory
    <2> QED BY <2>1, WritesShape
  <1>6. at \in DOMAIN w /\ copy \in DOMAIN w
    <2> DEFINE a == Len(allocations[c])
               r == Len(risks[c])
               p == Len(plans[c])
    <2>1. DOMAIN w = 1 .. a + a + r + 2 * p + 1
      BY WritesShape
    <2>2. k \in 1 .. p /\ a \in Nat /\ r \in Nat /\ p \in Nat
      BY Memory
    <2> HIDE DEF w, a, r, p
    <2>3. /\ a + a + r + (2 * k - 1) \in 1 .. a + a + r + 2 * p + 1
          /\ a + a + r + 2 * k \in 1 .. a + a + r + 2 * p + 1
      BY <2>2
    <2> QED BY <2>1, <2>3 DEF a, r, p
  <1> HIDE DEF at, copy
  <1> HIDE DEF w
  <1>7. plans[c][k] \in IntentsAfter(set, w)
    <2>1. w[at].table = "state" /\ w[at].row = plans[c][k]
      BY <1>5 DEF IntentRow
    <2> QED BY <1>6, <2>1 DEF IntentsAfter
  <1>8. LedgerRow("execution_intent", c, row.proposal, "none", row.cents).row
          \in RowsAfter(rows, w)
    <2>1. w[copy] = LedgerRow("execution_intent", c, row.proposal, "none", row.cents)
      BY <1>3, <1>5
    <2>2. w[copy].table = "ledger"
      BY <2>1 DEF LedgerRow
    <2> QED BY <1>6, <2>1, <2>2 DEF RowsAfter
  <1> QED BY <1>3, <1>4, <1>7, <1>8

-----------------------------------------------------------------------------
(* The tables under the steps. *)

\* What a write leaves behind.
LEMMA WriteLeaves ==
  ASSUME Typed, NEW c \in Cycles, Writing(c), WriteNext(c)
  PROVE  LET s == outbox[c] IN
         /\ s \in Seq(Write) /\ s # <<>> /\ s[1].row.cycle = c
         /\ outbox'[c] = Tail(s)
         /\ pc'[c] = IF Tail(s) = <<>> THEN "done" ELSE "write"
         /\ seen' = seen
         /\ IF s[1].table = "state" THEN intents' = intents \cup {s[1].row} /\ ledger' = ledger
            ELSE ledger' = ledger \cup {s[1].row} /\ intents' = intents
  <1> DEFINE s == outbox[c]
  <1>1. s \in Seq(Write) /\ s # <<>>
    BY DEF Typed, Writing, WriteNext
  <1>2. 1 \in DOMAIN s /\ Head(s) = s[1]
    BY <1>1
  <1>3. s[1].row.cycle = c
    BY <1>2 DEF Writing, Ordered
  <1>4. /\ outbox' = [outbox EXCEPT ![c] = Tail(s)] /\ seen' = seen
        /\ pc' = [pc EXCEPT ![c] = IF outbox'[c] = <<>> THEN "done" ELSE "write"]
    BY DEF WriteNext
  <1>5. outbox \in [Cycles -> Seq(Write)] /\ pc \in [Cycles -> Phases]
    BY DEF Typed
  <1>6. outbox'[c] = Tail(s) /\ pc'[c] = IF Tail(s) = <<>> THEN "done" ELSE "write"
    BY <1>4, <1>5
  <1>7. IF Head(s).table = "state"
        THEN intents' = intents \cup {Head(s).row} /\ ledger' = ledger
        ELSE ledger' = ledger \cup {Head(s).row} /\ intents' = intents
    BY DEF WriteNext
  <1> QED BY <1>1, <1>2, <1>3, <1>4, <1>6, <1>7

\* Nothing a cycle owes changes with the other rows.
LEMMA WritingFrame ==
  ASSUME NEW c \in Cycles, Writing(c), seen'[c] = seen[c], outbox'[c] = outbox[c],
         \/ pc'[c] = pc[c]
         \/ pc[c] \notin {"write", "done"} /\ pc'[c] \notin {"write", "done"},
         ledger \subseteq ledger', intents \subseteq intents',
         \A row \in ledger' \ ledger : row.cycle # c
  PROVE  Writing(c)'
  <1>1. Ordered(c, outbox[c], ledger', Stopped(seen[c]))
    BY OrderedMore DEF Writing
  <1>2. CycleRow(c).row \in ledger' => CycleRow(c).row \in ledger
    BY CycleRowIs
  <1>3. pc'[c] = "write" \/ CycleRow(c).row \in ledger'
          => Settled(c, outbox[c], ledger', intents')
    <2>1. ASSUME pc'[c] = "write" \/ CycleRow(c).row \in ledger'
          PROVE  Settled(c, outbox[c], ledger, intents)
      BY <1>2, <2>1 DEF Writing
    <2> QED BY <2>1, SettledMore
  <1>4. \A row \in ledger' : row.cycle = c => row \in ledger
    OBVIOUS
  <1>5. CycleRow(c).row \in ledger' => pc'[c] = "done"
    BY <1>2 DEF Writing
  <1>6. pc'[c] \notin {"write", "done"} => \A row \in ledger' : row.cycle # c
    BY <1>4 DEF Writing
  <1>7. pc'[c] = "write" <=> outbox'[c] # <<>>
    BY DEF Writing
  <1> QED BY <1>1, <1>3, <1>5, <1>6, <1>7 DEF Writing, Stopped

\* A cycle that owes nothing.
LEMMA WritingNothing ==
  ASSUME NEW c \in Cycles, outbox'[c] = <<>>, pc'[c] # "write",
         CycleRow(c).row \notin ledger',
         pc'[c] # "done" => \A row \in ledger' : row.cycle # c
  PROVE  Writing(c)'
  <1>1. Ordered(c, outbox'[c], ledger', Stopped(seen'[c]))
    BY DEF Ordered
  <1> QED BY <1>1 DEF Writing

\* A cycle without proposals writes its own row alone.
LEMMA WritingRow ==
  ASSUME Typed, NEW c \in Cycles, Writing(c), Propose(c)
  PROVE  Writing(c)'
  <1>1. /\ pc[c] = "propose" /\ ledger' = ledger /\ intents' = intents
        /\ \A row \in ledger : row.cycle # c
    BY DEF Writing, Propose, tables
  <1>2. CycleRow(c).row \notin ledger
    BY <1>1, CycleRowIs
  <1>3. \/ pc'[c] = "expose" /\ outbox'[c] = <<>>
        \/ pc'[c] = "write" /\ outbox'[c] = <<CycleRow(c)>>
    BY DEF Propose, Typed
  <1>4. CASE pc'[c] = "expose" /\ outbox'[c] = <<>>
    BY <1>1, <1>2, <1>4, WritingNothing
  <1>5. CASE pc'[c] = "write" /\ outbox'[c] = <<CycleRow(c)>>
    <2> DEFINE s == <<CycleRow(c)>>
    <2>1. DOMAIN s = {1} /\ Len(s) = 1 /\ s[1] = CycleRow(c) /\ s # <<>>
      OBVIOUS
    <2> HIDE DEF s
    <2>2. Ordered(c, s, ledger', Stopped(seen'[c]))
      BY <2>1, CycleRowIs DEF Ordered
    <2>3. RowsAfter(ledger, s) \subseteq ledger \cup {CycleRow(c).row}
      BY <2>1 DEF RowsAfter
    <2>4. Settled(c, s, ledger, intents)
      BY <1>1, <2>3, CycleRowIs DEF Settled
    <2>5. outbox'[c] = s
      BY <1>5 DEF s
    <2>6. Ordered(c, outbox'[c], ledger', Stopped(seen'[c]))
          /\ Settled(c, outbox'[c], ledger', intents')
      BY <1>1, <2>2, <2>4, <2>5
    <2> QED BY <1>1, <1>2, <1>5, <2>1, <2>5, <2>6 DEF Writing
  <1> QED BY <1>3, <1>4, <1>5

LEMMA WritingBegins ==
  ASSUME Typed, NEW c \in Cycles, Decided(c), Writing(c), BeginWrites(c)
  PROVE  Writing(c)'
  <1>1. /\ pc[c] = "assess" /\ ledger' = ledger /\ intents' = intents /\ seen' = seen
        /\ \A row \in ledger : row.cycle # c
    BY DEF Writing, BeginWrites, tables
  <1>2. CycleRow(c).row \notin ledger
    BY <1>1, CycleRowIs
  <1>3. pc'[c] = "write" /\ outbox'[c] = Writes(c)
    BY DEF BeginWrites, Typed
  <1>4. Writes(c) # <<>>
    <2> DEFINE a == Len(allocations[c])
               r == Len(risks[c])
               p == Len(plans[c])
    <2>1. DOMAIN Writes(c) = 1 .. a + a + r + 2 * p + 1
      BY WritesShape
    <2>2. a \in Nat /\ r \in Nat /\ p \in Nat
      BY Memory
    <2> HIDE DEF a, r, p
    <2>3. 1 \in DOMAIN Writes(c)
      BY <2>1, <2>2
    <2>4. DOMAIN <<>> = {}
      OBVIOUS
    <2> QED BY <2>3, <2>4
  <1>5. Ordered(c, Writes(c), ledger, Stopped(seen[c]))
    BY OrderedWrites
  <1>6. Settled(c, Writes(c), ledger, intents)
    BY <1>1, SettledWrites
  <1> DEFINE s == Writes(c)
  <1> HIDE DEF s
  <1>7. /\ Ordered(c, outbox'[c], ledger', Stopped(seen'[c]))
        /\ Settled(c, outbox'[c], ledger', intents')
    BY <1>1, <1>3, <1>5, <1>6
  <1> QED BY <1>1, <1>2, <1>3, <1>4, <1>7 DEF Writing

LEMMA WritingWrites ==
  ASSUME Typed, NEW c \in Cycles, Writing(c), WriteNext(c)
  PROVE  Writing(c)'
  <1> DEFINE s == outbox[c]
  <1>1. /\ s \in Seq(Write) /\ s # <<>> /\ s[1].row.cycle = c
        /\ outbox'[c] = Tail(s)
        /\ pc'[c] = IF Tail(s) = <<>> THEN "done" ELSE "write"
        /\ seen' = seen
        /\ IF s[1].table = "state" THEN intents' = intents \cup {s[1].row} /\ ledger' = ledger
           ELSE ledger' = ledger \cup {s[1].row} /\ intents' = intents
    BY WriteLeaves
  <1>2. /\ Ordered(c, s, ledger, Stopped(seen[c])) /\ Settled(c, s, ledger, intents)
        /\ CycleRow(c).row \notin ledger
    BY DEF Writing, WriteNext
  <1> HIDE DEF s
  <1>3. ledger \subseteq ledger' /\ (s[1].table = "ledger" => s[1].row \in ledger')
    BY <1>1
  <1>4. Ordered(c, Tail(s), ledger', Stopped(seen[c]))
    BY <1>1, <1>2, <1>3, OrderedTail
  <1>5. Settled(c, Tail(s), ledger', intents')
    BY <1>1, <1>2, SettledTail
  <1>6. CycleRow(c).row \in ledger' => Tail(s) = <<>>
    <2> SUFFICES ASSUME CycleRow(c).row \in ledger' PROVE Tail(s) = <<>>
      OBVIOUS
    <2>1. s[1].table # "state" /\ s[1].row = CycleRow(c).row
      BY <1>1, <1>2
    <2>2. s[1] \in Write
      BY <1>1
    <2>3. s[1] = CycleRow(c)
      <3>1. s[1] \in [table : {"ledger"}, row : Row]
        BY <2>1, <2>2 DEF Write
      <3>2. s[1] = [table |-> "ledger", row |-> s[1].row]
        BY <3>1
      <3>3. CycleRow(c) = [table |-> "ledger", row |-> CycleRow(c).row]
        BY DEF CycleRow, LedgerRow
      <3> QED BY <2>1, <3>2, <3>3
    <2>4. Len(s) = 1
      BY <1>1, <1>2, <2>3, WrittenTail DEF Ordered
    <2> QED BY <1>1, <2>4
  <1>7. /\ Ordered(c, outbox'[c], ledger', Stopped(seen'[c]))
        /\ Settled(c, outbox'[c], ledger', intents')
    BY <1>1, <1>4, <1>5
  <1> QED BY <1>1, <1>6, <1>7 DEF Writing

LEMMA WritingStep ==
  ASSUME Typed, \A c \in Cycles : Decided(c) /\ Writing(c), [Next]_vars
  PROVE  \A c \in Cycles : Writing(c)'
  <1> SUFFICES ASSUME NEW c \in Cycles PROVE Writing(c)'
    OBVIOUS
  <1>1. ASSUME NEW d \in Cycles, Step(d), d # c PROVE Writing(c)'
    <2>1. seen'[c] = seen[c] /\ outbox'[c] = outbox[c] /\ pc'[c] = pc[c]
      BY <1>1
      DEF Step, ReadOperator, Propose, LoadExposure, AllocateNext, Assess, Plan, BeginWrites,
          WriteNext, Fail, Forget, Typed
    <2>2. CASE WriteNext(d)
      <3>1. /\ ledger \subseteq ledger' /\ intents \subseteq intents'
            /\ \A row \in ledger' \ ledger : row.cycle # c
        BY <1>1, <2>2, WriteLeaves
      <3> QED BY <2>1, <3>1, WritingFrame
    <2>3. CASE ~WriteNext(d)
      <3>1. ledger' = ledger /\ intents' = intents
        BY <1>1, <2>3
        DEF Step, ReadOperator, Propose, LoadExposure, AllocateNext, Assess, Plan, BeginWrites,
            Fail, tables
      <3> QED BY <2>1, <3>1, WritingFrame
    <2> QED BY <2>2, <2>3
  <1>2. CASE ReadOperator(c)
    <2>1. /\ pc[c] = "start" /\ pc'[c] = "propose" /\ outbox' = outbox /\ ledger' = ledger
      BY <1>2 DEF ReadOperator, Typed, tables
    <2>2. outbox[c] = <<>> /\ CycleRow(c).row \notin ledger /\ \A row \in ledger : row.cycle # c
      BY <2>1 DEF Writing
    <2> QED BY <2>1, <2>2, WritingNothing
  <1>3. CASE LoadExposure(c) \/ AllocateNext(c) \/ Assess(c) \/ Plan(c)
    <2>1. /\ seen' = seen /\ outbox' = outbox /\ ledger' = ledger /\ intents' = intents
          /\ pc[c] \notin {"write", "done"} /\ pc'[c] \notin {"write", "done"}
      BY <1>3 DEF LoadExposure, AllocateNext, Assess, Plan, Typed, tables
    <2> QED BY <2>1, WritingFrame
  <1>4. CASE Fail(c)
    <2>1. /\ outbox'[c] = <<>> /\ pc'[c] = "done" /\ ledger' = ledger /\ pc[c] # "done"
      BY <1>4 DEF Fail, Running, Typed, tables
    <2>2. CycleRow(c).row \notin ledger
      BY <2>1 DEF Writing
    <2> QED BY <2>1, <2>2, WritingNothing
  <1>5. CASE Command \/ Updating \/ UNCHANGED vars
    <2>1. /\ seen' = seen /\ outbox' = outbox /\ pc' = pc /\ ledger' = ledger
          /\ intents' = intents
      BY <1>5 DEF Command, Updating, UpdateAggregatedPositionSnapshot,
         UpdateAccountPosition, PutSnapshot, vars, memory, tables
    <2> QED BY <2>1, WritingFrame
  <1> QED
    BY <1>1, <1>2, <1>3, <1>4, <1>5, WritingRow, WritingBegins, WritingWrites
    DEF Next, Step, Updating

LEMMA PublishedMore ==
  ASSUME Published, intents' = intents, ledger \subseteq ledger',
         \A c \in Cycles : pc[c] \in {"write", "done"}
                             => seen'[c] = seen[c] /\ pc'[c] \in {"write", "done"},
         \A i \in intents : i.cycle \in Cycles
  PROVE  Published'
  <1> SUFFICES ASSUME NEW i \in intents
               PROVE  /\ Accounted(i, ledger') /\ Affordable(i)
                      /\ ~Stopped(seen'[i.cycle]) /\ pc'[i.cycle] \in {"write", "done"}
    BY DEF Published, Stopped
  <1>1. /\ Accounted(i, ledger) /\ Affordable(i) /\ ~Stopped(seen[i.cycle])
        /\ pc[i.cycle] \in {"write", "done"}
    BY DEF Published
  <1>2. Accounted(i, ledger')
    BY <1>1, AccountedMore
  <1> QED BY <1>1, <1>2

LEMMA PublishedWrite ==
  ASSUME Typed, Published, NEW c \in Cycles, Writing(c), WriteNext(c)
  PROVE  Published'
  <1> DEFINE s == outbox[c]
  <1>1. /\ s \in Seq(Write) /\ s # <<>> /\ s[1].row.cycle = c
        /\ pc'[c] \in {"write", "done"} /\ seen' = seen /\ ledger \subseteq ledger'
        /\ intents' \subseteq intents \cup {s[1].row}
        /\ s[1].table = "state" \/ intents' = intents
    BY WriteLeaves
  <1>2. \A d \in Cycles : pc[d] \in {"write", "done"} => pc'[d] \in {"write", "done"}
    BY <1>1 DEF WriteNext, Typed
  <1>3. s[1].table = "state" =>
          /\ Accounted(s[1].row, ledger) /\ Affordable(s[1].row) /\ ~Stopped(seen[c])
    <2>1. 1 \in DOMAIN s /\ DOMAIN s = 1 .. Len(s) /\ Len(s) \in Nat
      BY <1>1, WrittenTail
    <2>2. Ordered(c, s, ledger, Stopped(seen[c]))
      BY DEF Writing
    <2> HIDE DEF s
    <2>3. Before(ledger, s, 1) = ledger
      <3>1. \A m \in DOMAIN s : ~(m < 1)
        BY <2>1
      <3> QED BY <3>1 DEF Before
    <2> QED BY <2>1, <2>2, <2>3 DEF Ordered
  <1>4. \A i \in intents : i.cycle \in Cycles
    BY DEF Typed, Intent
  <1> HIDE DEF s
  <1> SUFFICES ASSUME NEW i \in intents'
               PROVE  /\ Accounted(i, ledger') /\ Affordable(i)
                      /\ ~Stopped(seen'[i.cycle]) /\ pc'[i.cycle] \in {"write", "done"}
    BY DEF Published, Stopped
  <1>5. CASE i \in intents
    <2>1. /\ Accounted(i, ledger) /\ Affordable(i) /\ ~Stopped(seen[i.cycle])
          /\ pc[i.cycle] \in {"write", "done"}
      BY <1>5 DEF Published
    <2>2. Accounted(i, ledger')
      BY <1>1, <2>1, AccountedMore
    <2> QED BY <1>1, <1>2, <1>4, <1>5, <2>1, <2>2
  <1>6. CASE i \notin intents
    <2>1. s[1].table = "state" /\ i = s[1].row
      BY <1>1, <1>6
    <2>2. /\ Accounted(i, ledger) /\ Affordable(i) /\ ~Stopped(seen[c]) /\ i.cycle = c
      BY <1>1, <1>3, <2>1
    <2>3. Accounted(i, ledger')
      BY <1>1, <2>2, AccountedMore
    <2> QED BY <1>1, <2>2, <2>3
  <1> QED BY <1>5, <1>6

LEMMA PublishedStep ==
  ASSUME Typed, \A c \in Cycles : Decided(c) /\ Writing(c), Published, [Next]_vars
  PROVE  Published'
  <1>1. \A i \in intents : i.cycle \in Cycles
    BY DEF Typed, Intent
  <1>2. ASSUME NEW c \in Cycles, WriteNext(c) PROVE Published'
    BY <1>2, PublishedWrite
  <1>3. ASSUME NEW c \in Cycles, Step(c), ~WriteNext(c) PROVE Published'
    <2>1. ledger' = ledger /\ intents' = intents
      BY <1>3
      DEF Step, ReadOperator, Propose, LoadExposure, AllocateNext, Assess, Plan, BeginWrites,
          Fail, tables
    <2>2. \A d \in Cycles : pc[d] \in {"write", "done"}
                              => seen'[d] = seen[d] /\ pc'[d] \in {"write", "done"}
      BY <1>3
      DEF Step, ReadOperator, Propose, LoadExposure, AllocateNext, Assess, Plan, BeginWrites,
          Fail, Typed
    <2> QED BY <1>1, <2>1, <2>2, PublishedMore
  <1>4. CASE Command \/ Updating \/ UNCHANGED vars
    <2>1. seen' = seen /\ pc' = pc /\ ledger' = ledger /\ intents' = intents
      BY <1>4 DEF Command, Updating, UpdateAggregatedPositionSnapshot,
         UpdateAccountPosition, PutSnapshot, vars, memory, tables
    <2> QED BY <1>1, <2>1, PublishedMore
  <1> QED BY <1>2, <1>3, <1>4 DEF Next, Updating

-----------------------------------------------------------------------------
(* The theorems. *)

LEMMA Inductive == Spec => []IInv
  <1>1. Init => IInv
    <2> SUFFICES ASSUME Init PROVE IInv
      OBVIOUS
    <2>1. Typed
      BY InitTyped
    <2>2. intents = {} /\ ledger = {}
      BY DEF Init
    <2>3. ASSUME NEW c \in Cycles
          PROVE  pc[c] = "start" /\ risks[c] = <<>> /\ plans[c] = <<>> /\ outbox[c] = <<>>
      BY <2>3 DEF Init
    <2>4. ASSUME NEW c \in Cycles PROVE Decided(c)
      BY <2>3 DEF Decided
    <2>5. ASSUME NEW c \in Cycles PROVE Writing(c)
      BY <2>2, <2>3 DEF Writing, Ordered
    <2> QED BY <2>1, <2>2, <2>4, <2>5 DEF IInv, Published
  <1>2. IInv /\ [Next]_vars => IInv'
    BY TypedStep, DecidedStep, WritingStep, PublishedStep DEF IInv
  <1> QED BY <1>1, <1>2, PTL DEF Spec

\* Whatever cycles overlap, fail or are stopped while they run, a cycle that read
\* an operator state asking to stop has published no intent.
THEOREM StoppedPublishesNothing == Spec => []NoIntentWhenStopped
  <1>1. IInv => NoIntentWhenStopped
    BY DEF IInv, Published, NoIntentWhenStopped
  <1> QED BY <1>1, Inductive, PTL

\* At every instant of every cycle's writes, the proposal, the allocation and the
\* approval behind an intent the worker can see are in the ledger, and its legs
\* cost no more than was approved, to half a unit each.
THEOREM IntentsAreAccountedFor == Spec => []IntentsAccountedFor
  <1>1. IInv => IntentsAccountedFor
    BY DEF IInv, Published, Accounted, Affordable, Good, IntentsAccountedFor
  <1> QED BY <1>1, Inductive, PTL

\* Wherever a cycle's process ends, its own row in the ledger means that every
\* approval has its intent in both tables.
THEOREM CycleRowCloses == Spec => []CycleRowSettles
  <1>1. ASSUME IInv, NEW c \in Cycles, CycleRow(c).row \in ledger,
               NEW row \in ledger, row.kind = "risk_decision", row.cycle = c,
               row.status \in {"approved", "resized"}
        PROVE  /\ \E i \in intents : i.cycle = c /\ i.proposal = row.proposal
               /\ LedgerRow("execution_intent", c, row.proposal, "none", row.cents).row \in ledger
    <2>1. outbox[c] = <<>> /\ Settled(c, outbox[c], ledger, intents)
      BY <1>1 DEF IInv, Writing
    <2>2. RowsAfter(ledger, <<>>) = ledger /\ IntentsAfter(intents, <<>>) = intents
      BY DEF RowsAfter, IntentsAfter
    <2> QED BY <1>1, <2>1, <2>2 DEF Settled, Good
  <1>2. IInv => CycleRowSettles
    BY <1>1 DEF CycleRowSettles
  <1> QED BY <1>2, Inductive, PTL

-----------------------------------------------------------------------------
(* The limits. *)

\* What WithinLimits says of the exposure a cycle loaded and the one it has.
Kept(before, after) ==
  /\ after.gross = before.gross \/ Within(after.gross, GrossLimit)
  /\ \A s \in Sleeves : after.sleeve[s] = before.sleeve[s]
                          \/ Within(after.sleeve[s], SleeveLimit)
  /\ \A k \in MarketComplexes : after.complex[k] = before.complex[k]
                                  \/ Within(after.complex[k], ComplexLimit)
  /\ \A d \in Contracts : after.contract[d] = before.contract[d]
                            \/ Within(after.contract[d], ContractLimit)
  /\ ActiveSleeves(after) <= MaxOf(ActiveSleeves(before), MaxActiveSleeves)

LEMMA ActiveAreFinite ==
  ASSUME NEW e
  PROVE  IsFiniteSet({s \in Sleeves : e.sleeve[s] > 0}) /\ ActiveSleeves(e) \in Nat
  <1>1. IsFiniteSet({s \in Sleeves : e.sleeve[s] > 0})
    BY FS_Subset, AllocatorAssumption
  <1> QED BY <1>1, FS_CardinalityType DEF ActiveSleeves

LEMMA KeptAtFirst ==
  ASSUME NEW e
  PROVE  Kept(e, e)
  <1>1. ActiveSleeves(e) \in Nat /\ MaxActiveSleeves \in Nat
    BY ActiveAreFinite, AllocatorAssumption
  <1>2. ActiveSleeves(e) <= MaxOf(ActiveSleeves(e), MaxActiveSleeves)
    BY <1>1 DEF MaxOf
  <1> QED BY <1>2 DEF Kept

\* What fits in the least room, to half a cent, keeps within any limit.
LEMMA RoomKeeps ==
  ASSUME NEW limit \in Int, NEW room \in Int, NEW x \in Int, NEW y \in Int,
         NEW cents \in Nat, NEW most \in Nat,
         y <= x + cents, cents <= most, room <= limit - UnitsPerCent * x,
         2 * (UnitsPerCent * most) <= 2 * room + UnitsPerCent
  PROVE  Within(y, limit)
  <1> DEFINE U == UnitsPerCent
  <1>1. U \in Nat \ {0}
    BY MoneyAssumption
  <1>2. room <= limit - U * x /\ 2 * (U * most) <= 2 * room + U
    OBVIOUS
  <1> SUFFICES 2 * U * y <= 2 * limit + U
    BY DEF Within
  <1> HIDE DEF U
  <1>3. y <= x + most
    OBVIOUS
  <1>4. U * y <= U * (x + most)
    BY <1>1, <1>3
  <1>5. U * (x + most) = U * x + U * most
    BY <1>1
  <1>6. 2 * U * y = 2 * (U * y)
    BY <1>1
  <1>7. U * y \in Int /\ U * x \in Int /\ U * most \in Int
    BY <1>1
  <1> QED BY <1>1, <1>2, <1>4, <1>5, <1>6, <1>7

LEMMA SleevesKept ==
  ASSUME NEW p \in Opportunities, NEW e \in Exposures, NEW r, NEW cents \in Nat,
         \A s \in Sleeves : r.sleeve[s] = IF s = p.sleeve THEN e.sleeve[s] + cents
                                          ELSE e.sleeve[s],
         SleeveMayTrade(p, e)
  PROVE  ActiveSleeves(r) <= MaxOf(ActiveSleeves(e), MaxActiveSleeves)
  <1> DEFINE old == {s \in Sleeves : e.sleeve[s] > 0}
             new == {s \in Sleeves : r.sleeve[s] > 0}
  <1>1. IsFiniteSet(old) /\ Cardinality(old) \in Nat /\ Cardinality(new) \in Nat
        /\ ActiveSleeves(e) = Cardinality(old) /\ ActiveSleeves(r) = Cardinality(new)
    BY ActiveAreFinite DEF ActiveSleeves
  <1>2. new \subseteq old \cup {p.sleeve}
    OBVIOUS
  <1>3. SleeveMayTrade(p, e) => p.sleeve \in old \/ Cardinality(old) < MaxActiveSleeves
    BY <1>1, Proposed DEF SleeveMayTrade
  <1> HIDE DEF old, new
  <1>4. CASE p.sleeve \in old
    <2>1. Cardinality(new) <= Cardinality(old)
      BY <1>1, <1>2, <1>4, FS_Subset
    <2> QED BY <1>1, <2>1, AllocatorAssumption DEF MaxOf
  <1>5. CASE p.sleeve \notin old /\ Cardinality(old) < MaxActiveSleeves
    <2>1. IsFiniteSet(old \cup {p.sleeve})
          /\ Cardinality(old \cup {p.sleeve}) = Cardinality(old) + 1
      BY <1>1, <1>5, FS_AddElement
    <2>2. Cardinality(new) <= Cardinality(old) + 1
      BY <1>2, <2>1, FS_Subset
    <2> QED BY <1>1, <1>5, <2>2, AllocatorAssumption DEF MaxOf
  <1> QED BY <1>3, <1>4, <1>5

LEMMA KeptReserve ==
  ASSUME NEW p \in Opportunities, NEW e \in Exposures, NEW before, NEW room \in Int,
         NEW cents \in Nat, p.legs # <<>>,
         \A other \in Rooms(p, e) : room <= other,
         cents <= Capacity(p, e, room), Capacity(p, e, room) > 0, Kept(before, e)
  PROVE  Kept(before, ReserveExposure(p, cents, e))
  <1> DEFINE r == ReserveExposure(p, cents, e)
             most == Capacity(p, e, room)
  <1>1. /\ most \in Nat /\ cents <= most /\ SleeveMayTrade(p, e)
        /\ 2 * (UnitsPerCent * most) <= 2 * room + UnitsPerCent
    BY CapacityFits
  <1>2. /\ r \in Exposures
        /\ r.gross = e.gross + cents
        /\ \A s \in Sleeves : r.sleeve[s] = IF s = p.sleeve THEN e.sleeve[s] + cents
                                            ELSE e.sleeve[s]
        /\ \A k \in MarketComplexes :
             r.complex[k] = IF k = p.complex THEN e.complex[k] + cents ELSE e.complex[k]
        /\ \A d \in Contracts :
             /\ e.contract[d] <= r.contract[d] /\ r.contract[d] <= e.contract[d] + cents
             /\ d \notin ContractsOf(p.legs) => r.contract[d] = e.contract[d]
    BY Reserved
  <1>3. /\ room <= GrossLimit - UnitsPerCent * e.gross
        /\ room <= SleeveLimit - UnitsPerCent * e.sleeve[p.sleeve]
        /\ room <= ComplexLimit - UnitsPerCent * e.complex[p.complex]
        /\ \A d \in ContractsOf(p.legs) : room <= ContractLimit - UnitsPerCent * e.contract[d]
    BY DEF Rooms
  <1>4. /\ GrossLimit \in Int /\ SleeveLimit \in Int /\ ComplexLimit \in Int
        /\ ContractLimit \in Int
    BY AllocatorAssumption
  <1>5. \A x \in Exposures :
          /\ x.gross \in Int /\ \A s \in Sleeves : x.sleeve[s] \in Int
          /\ \A k \in MarketComplexes : x.complex[k] \in Int
          /\ \A d \in Contracts : x.contract[d] \in Int
    BY DEF Exposures
  <1>6. p.sleeve \in Sleeves /\ p.complex \in MarketComplexes
    BY Proposed
  <1> HIDE DEF r, most
  <1>7. Within(r.gross, GrossLimit)
    <2>1. r.gross <= e.gross + cents /\ r.gross \in Int /\ e.gross \in Int
      BY <1>2, <1>5
    <2> QED BY <1>1, <1>3, <1>4, <2>1, RoomKeeps
  <1>8. ASSUME NEW s \in Sleeves
        PROVE  r.sleeve[s] = before.sleeve[s] \/ Within(r.sleeve[s], SleeveLimit)
    <2>1. CASE s = p.sleeve
      <3>1. r.sleeve[s] <= e.sleeve[s] + cents /\ r.sleeve[s] \in Int /\ e.sleeve[s] \in Int
        BY <1>2, <1>5, <2>1
      <3>2. room <= SleeveLimit - UnitsPerCent * e.sleeve[s]
        BY <1>3, <2>1
      <3> QED BY <1>1, <1>4, <3>1, <3>2, RoomKeeps
    <2>2. CASE s # p.sleeve
      BY <1>2, <2>2 DEF Kept
    <2> QED BY <2>1, <2>2
  <1>9. ASSUME NEW k \in MarketComplexes
        PROVE  r.complex[k] = before.complex[k] \/ Within(r.complex[k], ComplexLimit)
    <2>1. CASE k = p.complex
      <3>1. r.complex[k] <= e.complex[k] + cents /\ r.complex[k] \in Int /\ e.complex[k] \in Int
        BY <1>2, <1>5, <2>1
      <3>2. room <= ComplexLimit - UnitsPerCent * e.complex[k]
        BY <1>3, <2>1
      <3> QED BY <1>1, <1>4, <3>1, <3>2, RoomKeeps
    <2>2. CASE k # p.complex
      BY <1>2, <2>2 DEF Kept
    <2> QED BY <2>1, <2>2
  <1>10. ASSUME NEW d \in Contracts
         PROVE  r.contract[d] = before.contract[d] \/ Within(r.contract[d], ContractLimit)
    <2>1. CASE d \in ContractsOf(p.legs)
      <3>1. r.contract[d] <= e.contract[d] + cents /\ r.contract[d] \in Int
            /\ e.contract[d] \in Int
        BY <1>2, <1>5
      <3>2. room <= ContractLimit - UnitsPerCent * e.contract[d]
        BY <1>3, <2>1
      <3> QED BY <1>1, <1>4, <3>1, <3>2, RoomKeeps
    <2>2. CASE d \notin ContractsOf(p.legs)
      BY <1>2, <2>2 DEF Kept
    <2> QED BY <2>1, <2>2
  <1>11. ActiveSleeves(r) <= MaxOf(ActiveSleeves(before), MaxActiveSleeves)
    <2>1. ActiveSleeves(r) <= MaxOf(ActiveSleeves(e), MaxActiveSleeves)
      BY <1>1, <1>2, SleevesKept
    <2>2. ActiveSleeves(e) <= MaxOf(ActiveSleeves(before), MaxActiveSleeves)
      BY DEF Kept
    <2>3. /\ ActiveSleeves(r) \in Nat /\ ActiveSleeves(e) \in Nat
          /\ ActiveSleeves(before) \in Nat /\ MaxActiveSleeves \in Nat
      BY ActiveAreFinite, AllocatorAssumption
    <2> QED BY <2>1, <2>2, <2>3 DEF MaxOf
  <1> QED BY <1>7, <1>8, <1>9, <1>10, <1>11 DEF Kept, r

LEMMA LimitsStep ==
  ASSUME Typed, \A c \in Cycles : Kept(loaded[c], exposure[c]), [Next]_vars
  PROVE  \A c \in Cycles : Kept(loaded'[c], exposure'[c])
  <1> SUFFICES ASSUME NEW c \in Cycles PROVE Kept(loaded'[c], exposure'[c])
    OBVIOUS
  <1>1. CASE loaded'[c] = exposure'[c]
    BY <1>1, KeptAtFirst
  <1>2. CASE loaded'[c] = loaded[c] /\ exposure'[c] = exposure[c]
    BY <1>2
  <1>3. CASE AllocateNext(c)
    <2>1. PICK p \in Opportunities, room \in Int, cents \in Nat, forwarded \in BOOLEAN :
            /\ \A other \in Rooms(p, exposure[c]) : room <= other
            /\ cents <= Capacity(p, exposure[c], room)
            /\ forwarded => p.legs # <<>> /\ Capacity(p, exposure[c], room) > 0
            /\ exposure' = [exposure EXCEPT
                 ![c] = IF forwarded THEN ReserveExposure(p, cents, exposure[c])
                        ELSE exposure[c]]
      BY <1>3, Allocating
    <2>2. /\ loaded' = loaded /\ exposure[c] \in Exposures
          /\ exposure'[c] = IF forwarded THEN ReserveExposure(p, cents, exposure[c])
                            ELSE exposure[c]
      BY <1>3, <2>1 DEF AllocateNext, Typed
    <2>3. CASE forwarded
      BY <2>1, <2>2, <2>3, KeptReserve
    <2>4. CASE ~forwarded
      BY <2>2, <2>4
    <2> QED BY <2>3, <2>4
  <1>4. ASSUME NEW d \in Cycles, Step(d), d # c
        PROVE  loaded'[c] = loaded[c] /\ exposure'[c] = exposure[c]
    BY <1>4
    DEF Step, ReadOperator, Propose, LoadExposure, AllocateNext, Assess, Plan, BeginWrites,
        WriteNext, Fail, Forget, Typed
  <1>5. ASSUME ReadOperator(c) \/ Propose(c) \/ Assess(c) \/ Plan(c) \/ WriteNext(c)
        PROVE  loaded'[c] = loaded[c] /\ exposure'[c] = exposure[c]
    BY <1>5 DEF ReadOperator, Propose, Assess, Plan, WriteNext
  <1>6. ASSUME LoadExposure(c) \/ BeginWrites(c) \/ Fail(c)
        PROVE  loaded'[c] = exposure'[c]
    BY <1>6 DEF LoadExposure, BeginWrites, Fail, Forget, Typed
  <1>7. ASSUME Command \/ Updating \/ UNCHANGED vars
        PROVE  loaded'[c] = loaded[c] /\ exposure'[c] = exposure[c]
    BY <1>7 DEF Command, Updating, UpdateAggregatedPositionSnapshot,
         UpdateAccountPosition, PutSnapshot, vars, memory
  <1> QED BY <1>1, <1>2, <1>3, <1>4, <1>5, <1>6, <1>7 DEF Next, Step, Updating

Keeping == \A c \in Cycles : Kept(loaded[c], exposure[c])

LEMMA KeepsWithin == Spec => []Keeping
  <1>1. Init => Keeping
    BY KeptAtFirst DEF Init, Keeping
  <1>2. ASSUME IInv, Keeping, [Next]_vars PROVE Keeping'
    <2>1. \A c \in Cycles : Kept(loaded'[c], exposure'[c])
      BY <1>2, LimitsStep DEF IInv, Keeping
    <2> QED BY <2>1 DEF Keeping
  <1>3. IInv /\ Keeping /\ [Next]_vars => Keeping'
    BY <1>2
  <1> QED BY <1>1, <1>3, Inductive, PTL DEF Spec

\* However many proposals a cycle funds, in whatever order it takes them, its
\* exposure exceeds none of the five limits by more than half a cent, except
\* where the exposure it loaded already did.
THEOREM CyclesKeepWithinLimits == Spec => []WithinLimits
  <1>1. Keeping => WithinLimits
    BY DEF Keeping, Kept, WithinLimits
  <1> QED BY <1>1, KeepsWithin, PTL

-----------------------------------------------------------------------------
(* The type invariant. *)

\* What TypeOK says beyond Typed; that the complexes with a snapshot are finitely
\* many is what makes their sums natural numbers, and so it is with the intents.
MoreTyped ==
  /\ DOMAIN snapshots \subseteq MarketComplexes /\ IsFiniteSet(DOMAIN snapshots)
  /\ IsFiniteSet(intents)
  /\ ledger \subseteq Row
  /\ \A c \in Cycles : loaded[c] \in Exposure /\ exposure[c] \in Exposure
  /\ commands \in Nat /\ updates \in Nat /\ overlapped \in BOOLEAN
  /\ unseen \in [Scopes -> Nat]

LEMMA NatExposure ==
  ASSUME NEW e \in Exposures, e.gross \in Nat, \A s \in Sleeves : e.sleeve[s] \in Nat,
         \A k \in MarketComplexes : e.complex[k] \in Nat,
         \A d \in Contracts : e.contract[d] \in Nat
  PROVE  e \in Exposure
  <1>1. /\ e = [gross |-> e.gross, sleeve |-> e.sleeve, complex |-> e.complex,
                contract |-> e.contract]
        /\ e.sleeve \in [Sleeves -> Int] /\ e.complex \in [MarketComplexes -> Int]
        /\ e.contract \in [Contracts -> Int]
    BY DEF Exposures
  <1>2. /\ e.sleeve \in [Sleeves -> Nat] /\ e.complex \in [MarketComplexes -> Nat]
        /\ e.contract \in [Contracts -> Nat]
    BY <1>1
  <1> QED BY <1>1, <1>2 DEF Exposure

LEMMA ExposureParts ==
  ASSUME NEW e \in Exposure
  PROVE  /\ e \in Exposures /\ e.gross \in Nat /\ \A s \in Sleeves : e.sleeve[s] \in Nat
         /\ \A k \in MarketComplexes : e.complex[k] \in Nat
         /\ \A d \in Contracts : e.contract[d] \in Nat
  BY DEF Exposure, Exposures

LEMMA NoExposureIsNat == NoExposure \in Exposure
  BY DEF NoExposure, Exposure

LEMMA LoadedIsNat ==
  ASSUME Typed, MoreTyped, NEW value \in AccountValues
  PROVE  LoadedExposure(value) \in Exposure
  <1>1. CASE DOMAIN snapshots = {}
    <2>1. value \in Nat
      BY CycleAssumption
    <2> QED BY <1>1, <2>1 DEF LoadedExposure, NoExposure, Exposure
  <1>2. CASE DOMAIN snapshots # {}
    <2> DEFINE gross == Total([k \in DOMAIN snapshots |-> snapshots[k].cents])
               sleeve == [s \in Sleeves |-> Total([k \in OfSleeve(s) |-> snapshots[k].cents])]
               complex == [k \in MarketComplexes |->
                             IF k \in DOMAIN snapshots THEN snapshots[k].cents ELSE 0]
    <2>1. \A k \in DOMAIN snapshots : snapshots[k].cents \in Nat
      BY DEF Typed
    <2>2. gross \in Nat
      <3>1. PICK D, f : D = DOMAIN snapshots /\ f = [k \in D |-> snapshots[k].cents]
        OBVIOUS
      <3>2. IsFiniteSet(D) /\ DOMAIN f = D /\ \A k \in DOMAIN f : f[k] \in Nat
        BY <2>1, <3>1 DEF MoreTyped
      <3> QED BY <3>1, <3>2, TotalNat
    <2>3. ASSUME NEW s \in Sleeves
          PROVE  Total([k \in OfSleeve(s) |-> snapshots[k].cents]) \in Nat
      <3>1. PICK D, f : D = OfSleeve(s) /\ f = [k \in D |-> snapshots[k].cents]
        OBVIOUS
      <3>2. D \subseteq DOMAIN snapshots
        BY <3>1 DEF OfSleeve
      <3>3. IsFiniteSet(D) /\ DOMAIN f = D /\ \A k \in DOMAIN f : f[k] \in Nat
        BY <2>1, <3>1, <3>2, FS_Subset DEF MoreTyped
      <3> QED BY <3>1, <3>3, TotalNat
    <2>4. sleeve \in [Sleeves -> Nat]
      BY <2>3
    <2>5. complex \in [MarketComplexes -> Nat]
      BY <2>1
    <2>6. LoadedExposure(value) = [NoExposure EXCEPT !.gross = gross, !.sleeve = sleeve,
                                                     !.complex = complex]
      BY <1>2 DEF LoadedExposure
    <2> HIDE DEF gross, sleeve, complex
    <2>7. LoadedExposure(value) = [gross |-> gross, sleeve |-> sleeve, complex |-> complex,
                                   contract |-> [d \in Contracts |-> 0]]
      BY <2>6 DEF NoExposure
    <2> QED BY <2>2, <2>4, <2>5, <2>7 DEF Exposure
  <1> QED BY <1>1, <1>2

LEMMA ReservedIsNat ==
  ASSUME NEW p \in Opportunities, NEW cents \in Nat, NEW e \in Exposure, p.legs # <<>>
  PROVE  ReserveExposure(p, cents, e) \in Exposure
  <1> DEFINE r == ReserveExposure(p, cents, e)
  <1>0. /\ e \in Exposures /\ e.gross \in Nat /\ \A s \in Sleeves : e.sleeve[s] \in Nat
        /\ \A k \in MarketComplexes : e.complex[k] \in Nat
        /\ \A d \in Contracts : e.contract[d] \in Nat
    BY ExposureParts
  <1>1. /\ r \in Exposures
        /\ r.gross = e.gross + cents
        /\ \A s \in Sleeves : r.sleeve[s] = IF s = p.sleeve THEN e.sleeve[s] + cents
                                            ELSE e.sleeve[s]
        /\ \A k \in MarketComplexes :
             r.complex[k] = IF k = p.complex THEN e.complex[k] + cents ELSE e.complex[k]
        /\ \A d \in Contracts : e.contract[d] <= r.contract[d]
    BY <1>0, Reserved
  <1> HIDE DEF r
  <1>2. \A d \in Contracts : r.contract[d] \in Nat
    <2>1. \A d \in Contracts : r.contract[d] \in Int
      BY <1>1 DEF Exposures
    <2> QED BY <1>0, <1>1, <2>1
  <1>3. /\ r.gross \in Nat /\ \A s \in Sleeves : r.sleeve[s] \in Nat
        /\ \A k \in MarketComplexes : r.complex[k] \in Nat
    BY <1>0, <1>1
  <1> QED BY <1>1, <1>2, <1>3, NatExposure DEF r

LEMMA UnseenGrows ==
  ASSUME MoreTyped, NEW c \in Cycles, LoadExposure(c)
  PROVE  /\ unseen' \in [Scopes -> Nat]
         /\ \A x \in Scopes : unseen[x] <= unseen'[x]
                                /\ Planned(intents, x) - Shown(x) <= unseen'[x]
  <1>1. unseen' = [x \in Scopes |-> MaxOf(unseen[x], Planned(intents, x) - Shown(x))]
    BY DEF LoadExposure
  <1>2. unseen \in [Scopes -> Nat]
    BY DEF MoreTyped
  <1>3. ASSUME NEW x \in Scopes
        PROVE  /\ unseen'[x] \in Nat /\ unseen[x] <= unseen'[x]
               /\ Planned(intents, x) - Shown(x) <= unseen'[x]
    <2>1. PICK a, b, n : a = Planned(intents, x) /\ b = Shown(x) /\ n = unseen[x]
      OBVIOUS
    <2>2. a \in Int /\ b \in Int /\ n \in Nat
      BY <1>2, <2>1, TotalInt DEF Planned, Shown
    <2>3. unseen'[x] = MaxOf(n, a - b)
      BY <1>1, <2>1
    <2> QED BY <2>1, <2>2, <2>3 DEF MaxOf
  <1> QED BY <1>1, <1>3

LEMMA MoreTypedStep ==
  ASSUME Typed, \A c \in Cycles : Writing(c), MoreTyped, [Next]_vars
  PROVE  MoreTyped'
  <1>1. ASSUME NEW c \in Cycles, LoadExposure(c) PROVE MoreTyped'
    <2>1. PICK value \in AccountValues :
            loaded' = [loaded EXCEPT ![c] = LoadedExposure(value)]
      BY <1>1 DEF LoadExposure
    <2>2. LoadedExposure(value) \in Exposure
      BY LoadedIsNat
    <2>3. exposure' = [exposure EXCEPT ![c] = LoadedExposure(value)]
      BY <1>1, <2>1 DEF LoadExposure, Typed
    <2>4. \A d \in Cycles : loaded'[d] \in Exposure /\ exposure'[d] \in Exposure
      BY <2>1, <2>2, <2>3 DEF Typed, MoreTyped
    <2>5. overlapped' \in BOOLEAN
      BY <1>1 DEF LoadExposure, MoreTyped
    <2>6. unseen' \in [Scopes -> Nat]
      BY <1>1, UnseenGrows
    <2> QED BY <1>1, <2>4, <2>5, <2>6 DEF LoadExposure, MoreTyped, tables
  <1>2. ASSUME NEW c \in Cycles, AllocateNext(c) PROVE MoreTyped'
    <2>1. PICK p \in Opportunities, cents \in Nat, forwarded \in BOOLEAN :
            /\ forwarded => p.legs # <<>>
            /\ exposure' = [exposure EXCEPT
                 ![c] = IF forwarded THEN ReserveExposure(p, cents, exposure[c])
                        ELSE exposure[c]]
      BY <1>2, Allocating
    <2>2. exposure[c] \in Exposure /\ exposure \in [Cycles -> Exposures]
      BY DEF MoreTyped, Typed
    <2>3. forwarded => ReserveExposure(p, cents, exposure[c]) \in Exposure
      BY <2>1, <2>2, ReservedIsNat
    <2>4. \A d \in Cycles : exposure'[d] \in Exposure
      BY <2>1, <2>2, <2>3 DEF MoreTyped
    <2> QED BY <1>2, <2>4 DEF AllocateNext, MoreTyped, tables, environment
  <1>3. ASSUME NEW c \in Cycles, WriteNext(c) PROVE MoreTyped'
    <2>1. outbox[c] # <<>>
      BY <1>3 DEF WriteNext, Writing
    <2>2. /\ outbox[c][1] \in Write
          /\ IF outbox[c][1].table = "state"
             THEN intents' = intents \cup {outbox[c][1].row} /\ ledger' = ledger
             ELSE ledger' = ledger \cup {outbox[c][1].row} /\ intents' = intents
      BY <1>3, <2>1, TypedWrite
    <2>3. ledger' \subseteq Row /\ IsFiniteSet(intents')
      BY <2>2, FS_AddElement DEF Write, MoreTyped
    <2> QED BY <1>3, <2>3 DEF WriteNext, MoreTyped, environment
  <1>4. ASSUME NEW c \in Cycles, BeginWrites(c) \/ Fail(c) PROVE MoreTyped'
    <2>1. \A d \in Cycles : loaded'[d] \in Exposure /\ exposure'[d] \in Exposure
      BY <1>4, NoExposureIsNat DEF BeginWrites, Fail, Forget, MoreTyped, Typed
    <2> QED BY <1>4, <2>1 DEF BeginWrites, Fail, MoreTyped, tables, environment
  <1>5. CASE Updating
    <2>1. PICK k \in MarketComplexes, sleeve \in Sleeves : PutSnapshot(k, sleeve)
      BY <1>5, UpdatingPuts
    <2>2. DOMAIN snapshots' = DOMAIN snapshots \cup {k}
      BY <2>1 DEF PutSnapshot
    <2>3. IsFiniteSet(DOMAIN snapshots')
      <3>1. PICK D : D = DOMAIN snapshots
        OBVIOUS
      <3>2. IsFiniteSet(D \cup {k})
        BY <3>1, FS_AddElement DEF MoreTyped
      <3> QED BY <2>2, <3>1, <3>2
    <2>4. updates' \in Nat
      BY <2>1 DEF PutSnapshot, MoreTyped
    <2> QED BY <2>1, <2>2, <2>3, <2>4 DEF PutSnapshot, MoreTyped, memory
  <1>6. ASSUME NEW c \in Cycles, ReadOperator(c) \/ Propose(c) \/ Assess(c) \/ Plan(c)
        PROVE  MoreTyped'
    BY <1>6 DEF ReadOperator, Propose, Assess, Plan, MoreTyped, tables, environment
  <1>7. CASE Command
    BY <1>7 DEF Command, MoreTyped, memory, CycleAssumption
  <1>8. CASE UNCHANGED vars
    BY <1>8 DEF vars, tables, memory, environment, MoreTyped
  <1> QED BY <1>1, <1>2, <1>3, <1>4, <1>5, <1>6, <1>7, <1>8 DEF Next, Step, Updating

LEMMA MoreInductive == Spec => []MoreTyped
  <1>1. Init => MoreTyped
    <2> SUFFICES ASSUME Init PROVE MoreTyped
      OBVIOUS
    <2>1. DOMAIN snapshots = {} /\ IsFiniteSet({}) /\ intents = {}
      BY FS_EmptySet DEF Init
    <2>2. \A c \in Cycles : loaded[c] \in Exposure /\ exposure[c] \in Exposure
      BY NoExposureIsNat DEF Init
    <2> QED BY <2>1, <2>2 DEF Init, MoreTyped
  <1>2. IInv /\ MoreTyped /\ [Next]_vars => MoreTyped'
    BY MoreTypedStep DEF IInv
  <1> QED BY <1>1, <1>2, Inductive, PTL DEF Spec

\* The rows and the memory of every cycle keep their types, and no exposure,
\* allocation or approval is ever negative, whatever is allocated, rounded and
\* booked.
THEOREM TypeCorrect == Spec => []TypeOK
  <1>1. ASSUME Typed, MoreTyped PROVE TypeOK
    <2>1. loaded \in [Cycles -> Exposure] /\ exposure \in [Cycles -> Exposure]
      BY <1>1 DEF Typed, MoreTyped
    <2> QED BY <1>1, <2>1 DEF Typed, MoreTyped, TypeOK, OperatorState, Allocation, Decision, Write
  <1>2. IInv /\ MoreTyped => TypeOK
    BY <1>1 DEF IInv
  <1> QED BY <1>2, Inductive, MoreInductive, PTL

-----------------------------------------------------------------------------
(* The limits across cycles. *)

Amount(e, x) ==
  IF x.kind = "gross" THEN e.gross
  ELSE IF x.kind = "sleeve" THEN e.sleeve[x.of] ELSE e.complex[x.of]

\* The forwarded allocations risk has not decided on yet.
ForwardedOf(given) == {n \in DOMAIN given : given[n].forwarded}
Rank(given, n) == Cardinality({m \in ForwardedOf(given) : m < n})
Undecided(given, decided) == {n \in ForwardedOf(given) : Rank(given, n) >= Len(decided)}
Left(given, decided, x) ==
  Total([n \in Undecided(given, decided) |-> Share(given[n].proposal, given[n].cents, x)])

\* The approval about to be planned, and the intents with the plans.
Coming(phase, decided, x) ==
  IF phase = "plan"
  THEN Share(decided[Len(decided)].proposal, decided[Len(decided)].cents, x) ELSE 0
Ahead(set, planned) == set \cup {planned[k] : k \in DOMAIN planned}

\* What a cycle plans, is about to plan and may still be granted comes out of what
\* it reserved since it loaded an exposure that shows all intents but what is left.
Budgeted(set, phase, before, after, given, decided, planned, left) ==
  \A x \in Scopes :
    /\ Planned(set, x) <= Amount(before, x) + left[x]
    /\ Planned(Ahead(set, planned), x) + Coming(phase, decided, x) + Left(given, decided, x)
         + Amount(before, x) <= Planned(set, x) + Amount(after, x)

Fits(set, left) == \A x \in Scopes : Within(Planned(set, x) - left[x], Limit(x))

Deciding(phase) == phase \in {"allocate", "assess", "plan"}
Publishing(rows) == \E m \in DOMAIN rows : rows[m].table = "state"
Active(c) == Deciding(pc[c]) \/ Publishing(outbox[c])

\* What a cycle has in memory before it decides.
Fresh(c) ==
  /\ pc[c] \in {"start", "propose", "expose", "allocate"} => risks[c] = <<>> /\ plans[c] = <<>>
  /\ pc[c] \in {"start", "propose", "expose"} => allocations[c] = <<>>

LimitsInv ==
  /\ \A c, d \in Cycles : Active(c) /\ Active(d) => c = d
  /\ Fits(intents, unseen)
  /\ \A c \in Cycles :
       /\ Deciding(pc[c]) => Budgeted(intents, pc[c], loaded[c], exposure[c], allocations[c],
                                      risks[c], plans[c], unseen)
       /\ Publishing(outbox[c]) => Fits(IntentsAfter(intents, outbox[c]), unseen)

LEMMA ShareNat ==
  ASSUME NEW p, NEW cents \in Nat, NEW x
  PROVE  Share(p, cents, x) \in Nat
  BY DEF Share

LEMMA PlannedNat ==
  ASSUME NEW S, S \subseteq Intent, IsFiniteSet(S), NEW x
  PROVE  Planned(S, x) \in Nat
  <1>1. PICK f : f = [i \in S |-> Share(i.proposal, i.notional, x)]
    OBVIOUS
  <1>2. DOMAIN f = S /\ \A i \in DOMAIN f : f[i] \in Nat
    BY <1>1, ShareNat DEF Intent
  <1>3. Total(f) \in Nat
    BY <1>2, TotalNat
  <1> QED BY <1>1, <1>3 DEF Planned

LEMMA PlannedMonotone ==
  ASSUME NEW S, S \subseteq Intent, IsFiniteSet(S), NEW T, T \subseteq S, NEW x
  PROVE  Planned(T, x) <= Planned(S, x)
  <1>1. PICK f, g : /\ f = [i \in T |-> Share(i.proposal, i.notional, x)]
                    /\ g = [i \in S |-> Share(i.proposal, i.notional, x)]
    OBVIOUS
  <1>2. /\ DOMAIN f = T /\ DOMAIN g = S /\ \A i \in DOMAIN g : g[i] \in Nat
        /\ \A i \in DOMAIN f : f[i] = g[i]
    BY <1>1, ShareNat DEF Intent
  <1>3. Total(f) <= Total(g)
    BY <1>2, TotalMonotone
  <1> QED BY <1>1, <1>3 DEF Planned

LEMMA PlannedAdd ==
  ASSUME NEW S, S \subseteq Intent, IsFiniteSet(S), NEW i \in Intent, NEW x
  PROVE  Planned(S \cup {i}, x) <= Planned(S, x) + Share(i.proposal, i.notional, x)
  <1>1. i.notional \in Nat
    BY DEF Intent
  <1>2. CASE i \in S
    <2>1. S \cup {i} = S
      BY <1>2
    <2>2. Share(i.proposal, i.notional, x) \in Nat /\ Planned(S, x) \in Nat
      BY <1>1, ShareNat, PlannedNat
    <2> QED BY <1>2, <2>1, <2>2
  <1>3. CASE i \notin S
    <2>1. PICK f, g : /\ f = [j \in S |-> Share(j.proposal, j.notional, x)]
                      /\ g = [j \in S \cup {i} |-> Share(j.proposal, j.notional, x)]
      OBVIOUS
    <2>2. /\ DOMAIN f = S /\ DOMAIN g = S \cup {i}
          /\ \A j \in DOMAIN f : f[j] \in Nat /\ g[j] = f[j]
          /\ g[i] = Share(i.proposal, i.notional, x) /\ g[i] \in Nat
      BY <1>1, <2>1, ShareNat DEF Intent
    <2>3. Total(g) = Total(f) + g[i]
      BY <1>3, <2>2, TotalAdd
    <2>4. Total(f) \in Int
      BY TotalInt
    <2> QED BY <2>1, <2>2, <2>3, <2>4 DEF Planned
  <1> QED BY <1>2, <1>3

LEMMA AmountNat ==
  ASSUME NEW e \in Exposure, NEW x \in Scopes
  PROVE  Amount(e, x) \in Nat
  BY ExposureParts DEF Scopes, Amount

LEMMA LimitNat ==
  ASSUME NEW x \in Scopes
  PROVE  Limit(x) \in Nat
  BY AllocatorAssumption DEF Scopes, Limit

\* A reservation is felt in the scopes of its proposal.
LEMMA AmountReserved ==
  ASSUME NEW p \in Opportunities, NEW cents \in Nat, NEW e \in Exposure, p.legs # <<>>,
         NEW x \in Scopes
  PROVE  Amount(ReserveExposure(p, cents, e), x) = Amount(e, x) + Share(p, cents, x)
  <1> DEFINE r == ReserveExposure(p, cents, e)
  <1>1. /\ r.gross = e.gross + cents
        /\ \A s \in Sleeves : r.sleeve[s] = IF s = p.sleeve THEN e.sleeve[s] + cents
                                            ELSE e.sleeve[s]
        /\ \A k \in MarketComplexes :
             r.complex[k] = IF k = p.complex THEN e.complex[k] + cents ELSE e.complex[k]
    <2>1. e \in Exposures
      BY ExposureParts
    <2> QED BY <2>1, Reserved
  <1> HIDE DEF r
  <1> SUFFICES Amount(r, x) = Amount(e, x) + Share(p, cents, x)
    BY DEF r
  <1>2. Amount(e, x) \in Nat
    BY AmountNat
  <1>3. CASE x.kind = "gross"
    BY <1>1, <1>2, <1>3 DEF Amount, Share, In
  <1>4. CASE x.kind = "sleeve"
    <2>1. x.of \in Sleeves
      BY <1>4 DEF Scopes
    <2> QED BY <1>1, <1>2, <1>4, <2>1 DEF Amount, Share, In
  <1>5. CASE x.kind = "complex"
    <2>1. x.of \in MarketComplexes
      BY <1>5 DEF Scopes
    <2> QED BY <1>1, <1>2, <1>5, <2>1 DEF Amount, Share, In
  <1>6. x.kind \in {"gross", "sleeve", "complex"}
    BY DEF Scopes
  <1> QED BY <1>3, <1>4, <1>5, <1>6

LEMMA UndecidedFinite ==
  ASSUME NEW a \in Seq(Allocation), NEW r \in Seq(Decision)
  PROVE  /\ IsFiniteSet(ForwardedOf(a)) /\ ForwardedOf(a) \subseteq DOMAIN a
         /\ \A n : Rank(a, n) \in Nat
         /\ Undecided(a, r) \subseteq ForwardedOf(a) /\ IsFiniteSet(Undecided(a, r))
         /\ \A n \in DOMAIN a : a[n].cents \in Nat
  <1>1. Len(a) \in Nat /\ DOMAIN a = 1 .. Len(a)
    BY LenProperties
  <1>2. IsFiniteSet(DOMAIN a)
    BY <1>1, FS_Interval
  <1>3. ForwardedOf(a) \subseteq DOMAIN a /\ Undecided(a, r) \subseteq ForwardedOf(a)
    BY DEF ForwardedOf, Undecided
  <1>4. IsFiniteSet(ForwardedOf(a))
    <2>1. PICK D : D = DOMAIN a
      OBVIOUS
    <2> QED BY <1>2, <1>3, <2>1, FS_Subset
  <1>5. ASSUME NEW n PROVE Rank(a, n) \in Nat
    <2>1. IsFiniteSet({m \in ForwardedOf(a) : m < n})
      BY <1>4, FS_Subset
    <2> QED BY <2>1, FS_CardinalityType DEF Rank
  <1>6. \A n \in DOMAIN a : a[n] \in Allocation
    BY ElementOfSeq, <1>1
  <1> QED BY <1>3, <1>4, <1>5, <1>6, FS_Subset DEF Allocation

LEMMA LeftNat ==
  ASSUME NEW a \in Seq(Allocation), NEW r \in Seq(Decision), NEW x
  PROVE  Left(a, r, x) \in Nat
  <1>1. PICK D, f : D = Undecided(a, r)
                    /\ f = [n \in D |-> Share(a[n].proposal, a[n].cents, x)]
    OBVIOUS
  <1>2. IsFiniteSet(D) /\ DOMAIN f = D /\ \A n \in DOMAIN f : f[n] \in Nat
    BY <1>1, UndecidedFinite, ShareNat
  <1>3. Total(f) \in Nat
    BY <1>2, TotalNat
  <1> QED BY <1>1, <1>3 DEF Left

LEMMA LeftEmpty ==
  ASSUME NEW r, NEW x
  PROVE  Left(<<>>, r, x) = 0
  <1>1. PICK D, f : D = Undecided(<<>>, r)
                    /\ f = [n \in D |-> Share(<<>>[n].proposal, <<>>[n].cents, x)]
    OBVIOUS
  <1>2. DOMAIN <<>> = {}
    OBVIOUS
  <1>3. D = {}
    BY <1>1, <1>2 DEF Undecided, ForwardedOf
  <1>4. DOMAIN f = {}
    BY <1>1, <1>3
  <1> QED BY <1>1, <1>4, TotalEmpty DEF Left

\* A forwarded allocation adds what it was granted.
LEMMA LeftGranted ==
  ASSUME NEW a \in Seq(Allocation), NEW v \in Allocation, NEW x, NEW none, none = <<>>
  PROVE  Left(Append(a, v), none, x)
           <= Left(a, none, x) + (IF v.forwarded THEN Share(v.proposal, v.cents, x) ELSE 0)
  <1>1. PICK b, z :
          /\ b = Append(a, v) /\ z = Len(a) + 1
          /\ b \in Seq(Allocation) /\ Len(a) \in Nat /\ DOMAIN a = 1 .. Len(a)
          /\ DOMAIN b = DOMAIN a \cup {z} /\ b[z] = v /\ z \notin DOMAIN a
          /\ \A n \in DOMAIN a : b[n] = a[n]
    <2>1. /\ Append(a, v) \in Seq(Allocation) /\ Len(a) \in Nat /\ DOMAIN a = 1 .. Len(a)
          /\ Len(Append(a, v)) = Len(a) + 1
          /\ DOMAIN Append(a, v) = 1 .. Len(a) + 1 /\ Append(a, v)[Len(a) + 1] = v
          /\ \A n \in 1 .. Len(a) : Append(a, v)[n] = a[n]
      BY AppendProperties, LenProperties
    <2>2. 1 .. Len(a) + 1 = (1 .. Len(a)) \cup {Len(a) + 1} /\ Len(a) + 1 \notin 1 .. Len(a)
      BY <2>1
    <2>3. DOMAIN Append(a, v) = DOMAIN a \cup {Len(a) + 1} /\ Len(a) + 1 \notin DOMAIN a
          /\ \A n \in DOMAIN a : Append(a, v)[n] = a[n]
      BY <2>1, <2>2
    <2>4. PICK b, z : b = Append(a, v) /\ z = Len(a) + 1
      OBVIOUS
    <2> QED BY <2>1, <2>3, <2>4
  <1>2. none \in Seq(Decision) /\ Len(none) = 0
    OBVIOUS
  <1>3. ForwardedOf(b) = IF v.forwarded THEN ForwardedOf(a) \cup {z} ELSE ForwardedOf(a)
    <2>1. CASE v.forwarded
      BY <1>1, <2>1 DEF ForwardedOf
    <2>2. CASE ~v.forwarded
      BY <1>1, <2>2 DEF ForwardedOf
    <2> QED BY <2>1, <2>2
  <1>4. Undecided(a, none) = ForwardedOf(a) /\ Undecided(b, none) = ForwardedOf(b)
    <2>1. ASSUME NEW s \in Seq(Allocation) PROVE Undecided(s, none) = ForwardedOf(s)
      <3>1. \A n : Rank(s, n) \in Nat
        BY <1>2, UndecidedFinite
      <3>2. \A n : Rank(s, n) >= Len(none)
        BY <1>2, <3>1
      <3> QED BY <3>2 DEF Undecided
    <2> QED BY <1>1, <2>1
  <1>5. PICK f, g : /\ f = [n \in ForwardedOf(a) |-> Share(a[n].proposal, a[n].cents, x)]
                    /\ g = [n \in ForwardedOf(b) |-> Share(b[n].proposal, b[n].cents, x)]
    OBVIOUS
  <1>6. Left(a, none, x) = Total(f) /\ Left(b, none, x) = Total(g)
    BY <1>4, <1>5 DEF Left
  <1>7. /\ DOMAIN f = ForwardedOf(a) /\ DOMAIN g = ForwardedOf(b)
        /\ IsFiniteSet(DOMAIN f)
        /\ \A n \in DOMAIN f : f[n] \in Nat
        /\ Total(f) \in Int
    BY <1>2, <1>5, UndecidedFinite, ShareNat, TotalInt
  <1>8. ForwardedOf(a) \subseteq DOMAIN a /\ v.cents \in Nat
    BY DEF ForwardedOf, Allocation
  <1>9. CASE v.forwarded
    <2>1. /\ DOMAIN g = DOMAIN f \cup {z} /\ z \notin DOMAIN f
          /\ g[z] = Share(v.proposal, v.cents, x)
          /\ \A n \in DOMAIN f : f[n] \in Int /\ g[n] = f[n]
      BY <1>1, <1>3, <1>5, <1>7, <1>8, <1>9
    <2>2. g[z] \in Nat
      BY <1>8, <2>1, ShareNat
    <2>3. Total(g) = Total(f) + g[z]
      BY <1>7, <2>1, <2>2, TotalAdd
    <2> QED BY <1>1, <1>6, <1>7, <1>9, <2>1, <2>2, <2>3
  <1>10. CASE ~v.forwarded
    <2>1. DOMAIN g = DOMAIN f /\ \A n \in DOMAIN f : g[n] = f[n] /\ f[n] \in Int
      BY <1>1, <1>3, <1>5, <1>7, <1>8, <1>10
    <2>2. Total(f) = Total(g)
      BY <1>7, <2>1, TotalSame
    <2> QED BY <1>1, <1>6, <1>7, <1>10, <2>2
  <1> QED BY <1>9, <1>10

\* What risk decides on next no longer counts as undecided.
LEMMA LeftDecided ==
  ASSUME NEW a \in Seq(Allocation), NEW r \in Seq(Decision), NEW d \in Decision, NEW x,
         NEW n \in ForwardedOf(a), Rank(a, n) = Len(r)
  PROVE  Left(a, Append(r, d), x) + Share(a[n].proposal, a[n].cents, x) <= Left(a, r, x)
  <1>1. /\ Len(r) \in Nat /\ Append(r, d) \in Seq(Decision) /\ Len(Append(r, d)) = Len(r) + 1
    BY AppendProperties, LenProperties
  <1>2. \A m : Rank(a, m) \in Nat
    BY UndecidedFinite
  <1>3. /\ n \in Undecided(a, r)
        /\ Undecided(a, Append(r, d)) \subseteq Undecided(a, r) \ {n}
    BY <1>1, <1>2 DEF Undecided
  <1>4. PICK S, f, R, g, T, h :
          /\ S = Undecided(a, r) /\ f = [m \in S |-> Share(a[m].proposal, a[m].cents, x)]
          /\ R = S \ {n} /\ g = [m \in R |-> Share(a[m].proposal, a[m].cents, x)]
          /\ T = Undecided(a, Append(r, d))
          /\ h = [m \in T |-> Share(a[m].proposal, a[m].cents, x)]
    OBVIOUS
  <1>5. Left(a, r, x) = Total(f) /\ Left(a, Append(r, d), x) = Total(h)
    BY <1>4 DEF Left
  <1>6. /\ IsFiniteSet(S) /\ IsFiniteSet(R) /\ S \subseteq DOMAIN a /\ T \subseteq R
        /\ n \in S
        /\ \A m \in S : Share(a[m].proposal, a[m].cents, x) \in Nat
    BY <1>3, <1>4, UndecidedFinite, ShareNat, FS_Subset
  <1>7. /\ IsFiniteSet(DOMAIN f) /\ IsFiniteSet(DOMAIN g) /\ n \in DOMAIN f
        /\ DOMAIN g = DOMAIN f \ {n} /\ DOMAIN h \subseteq DOMAIN g
        /\ \A m \in DOMAIN f : f[m] \in Nat /\ f[m] \in Int
        /\ \A m \in DOMAIN g : g[m] = f[m]
        /\ \A m \in DOMAIN g : g[m] \in Nat
        /\ \A m \in DOMAIN h : h[m] = g[m]
        /\ f[n] = Share(a[n].proposal, a[n].cents, x)
    BY <1>4, <1>6
  <1>8. Total(f) = f[n] + Total(g)
    BY <1>7, TotalRemove
  <1>9. Total(h) <= Total(g)
    <2>1. /\ \A m \in DOMAIN h : h[m] \in Int /\ g[m] \in Int /\ h[m] <= g[m]
          /\ \A m \in DOMAIN g \ DOMAIN h : g[m] \in Nat
      BY <1>7
    <2> QED BY <1>7, <2>1, TotalMonotone
  <1>10. Total(h) \in Int /\ Total(g) \in Int
    BY TotalInt
  <1> QED BY <1>5, <1>7, <1>8, <1>9, <1>10

\* What the snapshots show is in the exposure a cycle loads.
LEMMA LoadedCounts ==
  ASSUME Typed, MoreTyped, NEW value \in AccountValues, NEW x \in Scopes
  PROVE  Shown(x) <= Amount(LoadedExposure(value), x)
  <1>1. PICK e : e = LoadedExposure(value) /\ e \in Exposure
    BY LoadedIsNat
  <1>2. Amount(e, x) \in Nat
    BY <1>1, AmountNat
  <1>3. PICK K, f : /\ K = RowsIn(x)
                    /\ f = [k \in K |-> snapshots[k].cents]
                    /\ Shown(x) = Total(f)
    BY DEF Shown
  <1>4. DOMAIN f = K /\ K \subseteq DOMAIN snapshots
    BY <1>3 DEF RowsIn
  <1>5. CASE DOMAIN snapshots = {}
    <2>1. Total(f) = 0
      BY <1>4, <1>5, TotalEmpty
    <2> QED BY <1>1, <1>2, <1>3, <2>1
  <1>6. CASE DOMAIN snapshots # {}
    <2>1. /\ e.gross = Total([k \in DOMAIN snapshots |-> snapshots[k].cents])
          /\ \A s \in Sleeves : e.sleeve[s] = Total([k \in OfSleeve(s) |-> snapshots[k].cents])
          /\ \A k \in MarketComplexes :
               e.complex[k] = IF k \in DOMAIN snapshots THEN snapshots[k].cents ELSE 0
      BY <1>1, <1>6 DEF LoadedExposure, NoExposure
    <2>2. x.kind \in {"gross", "sleeve", "complex"}
      BY DEF Scopes
    <2>3. CASE x.kind = "gross"
      <3>1. K = DOMAIN snapshots
        BY <1>3, <2>3 DEF RowsIn, In
      <3>2. e.gross = Total(f)
        BY <1>3, <2>1, <3>1
      <3> QED BY <1>1, <1>2, <1>3, <2>3, <3>2 DEF Amount
    <2>4. CASE x.kind = "sleeve"
      <3>1. x.of \in Sleeves
        BY <2>4 DEF Scopes
      <3>2. K = OfSleeve(x.of)
        BY <1>3, <2>4 DEF RowsIn, In, OfSleeve
      <3>3. e.sleeve[x.of] = Total(f)
        BY <1>3, <2>1, <3>1, <3>2
      <3> QED BY <1>1, <1>2, <1>3, <2>4, <3>3 DEF Amount
    <2>5. CASE x.kind = "complex"
      <3>1. x.of \in MarketComplexes
        BY <2>5 DEF Scopes
      <3>2. K = {k \in DOMAIN snapshots : k = x.of}
        BY <1>3, <2>5 DEF RowsIn, In
      <3>3. CASE x.of \in DOMAIN snapshots
        <4>1. K = {x.of}
          BY <3>2, <3>3
        <4>2. PICK none : none = [k \in {} |-> 0] /\ DOMAIN none = {}
          OBVIOUS
        <4>3. /\ IsFiniteSet(DOMAIN f) /\ x.of \in DOMAIN f
              /\ \A y \in DOMAIN f : f[y] \in Int
              /\ DOMAIN none = DOMAIN f \ {x.of} /\ \A y \in DOMAIN none : none[y] = f[y]
              /\ f[x.of] = snapshots[x.of].cents /\ f[x.of] \in Nat
          <5>1. snapshots[x.of].cents \in Nat
            BY <3>3 DEF Typed
          <5>2. IsFiniteSet(K)
            BY <4>1, FS_Singleton
          <5> QED BY <1>3, <1>4, <4>1, <4>2, <5>1, <5>2
        <4>4. Total(f) = f[x.of] + Total(none)
          BY <4>3, TotalRemove
        <4>5. Total(none) = 0
          BY <4>2, TotalEmpty
        <4>6. Total(f) = e.complex[x.of]
          BY <2>1, <3>1, <3>3, <4>3, <4>4, <4>5
        <4> QED BY <1>1, <1>2, <1>3, <2>5, <4>6 DEF Amount
      <3>4. CASE x.of \notin DOMAIN snapshots
        <4>1. Total(f) = 0
          BY <1>4, <3>2, <3>4, TotalEmpty
        <4> QED BY <1>1, <1>2, <1>3, <4>1
      <3> QED BY <3>3, <3>4
    <2> QED BY <2>2, <2>3, <2>4, <2>5
  <1> QED BY <1>5, <1>6

-----------------------------------------------------------------------------
(* One cycle's budget. *)

LEMMA WithinLess ==
  ASSUME NEW a \in Int, NEW b \in Int, a <= b, NEW limit \in Int, Within(b, limit)
  PROVE  Within(a, limit)
  <1> DEFINE U == UnitsPerCent
  <1>1. U \in Nat \ {0} /\ 2 * U * b <= 2 * limit + U
    BY MoneyAssumption DEF Within
  <1> SUFFICES 2 * U * a <= 2 * limit + U
    BY DEF Within
  <1> HIDE DEF U
  <1>2. 2 * U * a <= 2 * U * b
    BY <1>1
  <1>3. 2 * U * a \in Int /\ 2 * U * b \in Int
    BY <1>1
  <1> QED BY <1>1, <1>2, <1>3

LEMMA FitsLess ==
  ASSUME NEW S, S \subseteq Intent, IsFiniteSet(S), NEW T, T \subseteq S,
         NEW left \in [Scopes -> Nat], NEW more \in [Scopes -> Nat],
         \A x \in Scopes : left[x] <= more[x], Fits(S, left)
  PROVE  Fits(T, more)
  <1> SUFFICES ASSUME NEW x \in Scopes PROVE Within(Planned(T, x) - more[x], Limit(x))
    BY DEF Fits
  <1>1. Planned(T, x) <= Planned(S, x) /\ Planned(S, x) \in Int
    BY PlannedMonotone, PlannedNat
  <1>2. Planned(T, x) \in Int
    <2>1. T \subseteq Intent /\ IsFiniteSet(T)
      BY FS_Subset
    <2> QED BY <2>1, PlannedNat
  <1>3. Limit(x) \in Int /\ Within(Planned(S, x) - left[x], Limit(x))
    BY LimitNat DEF Fits
  <1>4. PICK a, b : a = Planned(T, x) - more[x] /\ b = Planned(S, x) - left[x]
    OBVIOUS
  <1>5. left[x] \in Nat /\ more[x] \in Nat /\ left[x] <= more[x]
    OBVIOUS
  <1>6. a \in Int /\ b \in Int /\ a <= b
    BY <1>1, <1>2, <1>4, <1>5
  <1> QED BY <1>3, <1>4, <1>6, WithinLess

LEMMA RangeFinite ==
  ASSUME NEW f, IsFiniteSet(DOMAIN f)
  PROVE  IsFiniteSet({f[k] : k \in DOMAIN f})
  <1>1. PICK D, T : D = DOMAIN f /\ T = {f[k] : k \in D}
    OBVIOUS
  <1>2. PICK g : g = [k \in D |-> f[k]]
    OBVIOUS
  <1>3. g \in [D -> T] /\ \A t \in T : \E k \in D : g[k] = t
    BY <1>1, <1>2
  <1>4. g \in Surjection(D, T)
    BY <1>3 DEF Surjection
  <1>5. IsFiniteSet(T)
    BY <1>1, <1>4, FS_Surjection
  <1> QED BY <1>1, <1>5

LEMMA AheadFinite ==
  ASSUME NEW S, S \subseteq Intent, IsFiniteSet(S), NEW q \in Seq(Intent)
  PROVE  Ahead(S, q) \subseteq Intent /\ IsFiniteSet(Ahead(S, q)) /\ S \subseteq Ahead(S, q)
  <1>1. Len(q) \in Nat /\ DOMAIN q = 1 .. Len(q) /\ \A k \in DOMAIN q : q[k] \in Intent
    BY LenProperties, ElementOfSeq
  <1>2. IsFiniteSet({q[k] : k \in DOMAIN q})
    <2>1. IsFiniteSet(DOMAIN q)
      BY <1>1, FS_Interval
    <2> QED BY <2>1, RangeFinite
  <1> QED BY <1>1, <1>2, FS_Union DEF Ahead

LEMMA IntentsAfterFinite ==
  ASSUME NEW S, S \subseteq Intent, IsFiniteSet(S), NEW s \in Seq(Write)
  PROVE  IntentsAfter(S, s) \subseteq Intent /\ IsFiniteSet(IntentsAfter(S, s))
  <1>1. Len(s) \in Nat /\ DOMAIN s = 1 .. Len(s) /\ \A k \in DOMAIN s : s[k] \in Write
    BY LenProperties, ElementOfSeq
  <1>2. PICK D : D = {m \in DOMAIN s : s[m].table = "state"}
    OBVIOUS
  <1>3. IsFiniteSet(D)
    <2>1. IsFiniteSet(1 .. Len(s))
      BY <1>1, FS_Interval
    <2> QED BY <1>1, <1>2, <2>1, FS_Subset
  <1>4. IsFiniteSet({s[m].row : m \in D})
    <2>1. PICK f : f = [m \in D |-> s[m].row]
      OBVIOUS
    <2>2. DOMAIN f = D /\ {f[m] : m \in DOMAIN f} = {s[m].row : m \in D}
      BY <2>1
    <2> QED BY <1>3, <2>2, RangeFinite
  <1>5. {s[m].row : m \in D} \subseteq Intent
    BY <1>1, <1>2 DEF Write
  <1> QED BY <1>2, <1>4, <1>5, FS_Union DEF IntentsAfter

LEMMA KeptAmount ==
  ASSUME NEW before, NEW after, Kept(before, after), NEW x \in Scopes
  PROVE  Amount(after, x) = Amount(before, x) \/ Within(Amount(after, x), Limit(x))
  BY DEF Kept, Scopes, Amount, Limit

\* What a budget leaves once nothing is about to be planned keeps within the
\* limits, because the exposure it reserved from does.
LEMMA BudgetFits ==
  ASSUME NEW set, set \subseteq Intent, IsFiniteSet(set), NEW phase, phase # "plan",
         NEW before \in Exposure, NEW after \in Exposure, NEW a \in Seq(Allocation),
         NEW r \in Seq(Decision), NEW q \in Seq(Intent), NEW left \in [Scopes -> Nat],
         Budgeted(set, phase, before, after, a, r, q, left), Kept(before, after),
         Fits(set, left)
  PROVE  Fits(Ahead(set, q), left)
  <1> SUFFICES ASSUME NEW x \in Scopes
               PROVE  Within(Planned(Ahead(set, q), x) - left[x], Limit(x))
    BY DEF Fits
  <1>1. PICK s, t, l, b, e, u : /\ s = Planned(set, x) /\ t = Planned(Ahead(set, q), x)
                                /\ l = Left(a, r, x) /\ u = left[x]
                                /\ b = Amount(before, x) /\ e = Amount(after, x)
    OBVIOUS
  <1>2. s \in Nat /\ t \in Nat /\ l \in Nat /\ b \in Nat /\ e \in Nat
        /\ u \in Nat
    BY <1>1, AheadFinite, PlannedNat, LeftNat, AmountNat
  <1>3. Coming(phase, r, x) = 0
    BY DEF Coming
  <1>4. s <= b + u /\ t + l + b <= s + e
    <2>1. s <= b + u /\ t + Coming(phase, r, x) + l + b <= s + e
      BY <1>1 DEF Budgeted
    <2> QED BY <1>2, <1>3, <2>1
  <1>5. Limit(x) \in Int /\ Within(s - u, Limit(x))
    BY <1>1, LimitNat DEF Fits
  <1>6. CASE e = b
    <2>1. t - u <= s - u /\ t - u \in Int /\ s - u \in Int
      BY <1>2, <1>4, <1>6
    <2> QED BY <1>1, <1>5, <2>1, WithinLess
  <1>7. CASE Within(e, Limit(x))
    <2>1. t - u <= e /\ t - u \in Int /\ e \in Int
      BY <1>2, <1>4
    <2> QED BY <1>1, <1>5, <1>7, <2>1, WithinLess
  <1> QED BY <1>1, <1>6, <1>7, KeptAmount

LEMMA BudgetLoaded ==
  ASSUME NEW set, set \subseteq Intent, IsFiniteSet(set), NEW e \in Exposure,
         NEW left, \A x \in Scopes : Planned(set, x) <= Amount(e, x) + left[x],
         NEW none, none = <<>>, NEW phase, phase # "plan"
  PROVE  Budgeted(set, phase, e, e, none, none, none, left)
  <1> SUFFICES ASSUME NEW x \in Scopes
               PROVE  Planned(Ahead(set, none), x) + Coming(phase, none, x)
                        + Left(none, none, x) + Amount(e, x) <= Planned(set, x) + Amount(e, x)
    BY DEF Budgeted
  <1>1. Left(none, none, x) = 0 /\ Coming(phase, none, x) = 0
    BY LeftEmpty DEF Coming
  <1>2. Ahead(set, none) = set
    BY DEF Ahead
  <1>3. Planned(set, x) \in Nat /\ Amount(e, x) \in Nat
    BY PlannedNat, AmountNat
  <1> QED BY <1>1, <1>2, <1>3

LEMMA BudgetGranted ==
  ASSUME NEW set, set \subseteq Intent, IsFiniteSet(set), NEW phase, NEW next, next # "plan",
         NEW before \in Exposure, NEW e \in Exposure, NEW a \in Seq(Allocation),
         NEW none, none = <<>>, NEW v \in Allocation, NEW after,
         after = IF v.forwarded THEN ReserveExposure(v.proposal, v.cents, e) ELSE e,
         v.forwarded => v.proposal.legs # <<>>,
         phase # "plan", NEW left, Budgeted(set, phase, before, e, a, none, none, left)
  PROVE  Budgeted(set, next, before, after, Append(a, v), none, none, left)
  <1> SUFFICES ASSUME NEW x \in Scopes
               PROVE  Planned(Ahead(set, none), x) + Coming(next, none, x)
                        + Left(Append(a, v), none, x) + Amount(before, x)
                          <= Planned(set, x) + Amount(after, x)
    BY DEF Budgeted
  <1>1. PICK s, t, l, m, b, d, n :
          /\ s = Planned(set, x) /\ t = Planned(Ahead(set, none), x)
          /\ l = Left(a, none, x) /\ m = Left(Append(a, v), none, x)
          /\ b = Amount(before, x) /\ d = Amount(e, x)
          /\ n = IF v.forwarded THEN Share(v.proposal, v.cents, x) ELSE 0
    OBVIOUS
  <1>2. none \in Seq(Decision) /\ none \in Seq(Intent) /\ Append(a, v) \in Seq(Allocation)
        /\ v.proposal \in Opportunities /\ v.cents \in Nat
    BY AppendProperties DEF Allocation
  <1>3. s \in Nat /\ t \in Nat /\ l \in Nat /\ m \in Nat /\ b \in Nat /\ d \in Nat /\ n \in Nat
    BY <1>1, <1>2, AheadFinite, PlannedNat, LeftNat, AmountNat, ShareNat
  <1>4. Coming(phase, none, x) = 0 /\ Coming(next, none, x) = 0
    BY DEF Coming
  <1>5. t + l + b <= s + d
    <2>1. t + Coming(phase, none, x) + l + b <= s + d
      BY <1>1 DEF Budgeted
    <2> QED BY <1>3, <1>4, <2>1
  <1>6. m <= l + n
    BY <1>1, LeftGranted
  <1>7. Amount(after, x) = d + n
    <2>1. CASE v.forwarded
      BY <1>1, <1>2, <2>1, AmountReserved
    <2>2. CASE ~v.forwarded
      BY <1>1, <1>3, <2>2
    <2> QED BY <2>1, <2>2
  <1>8. t + 0 + m + b <= s + (d + n)
    BY <1>3, <1>5, <1>6
  <1> QED BY <1>1, <1>4, <1>7, <1>8

LEMMA BudgetDecided ==
  ASSUME NEW set, set \subseteq Intent, IsFiniteSet(set), NEW phase, phase # "plan", NEW next,
         NEW before \in Exposure, NEW e \in Exposure, NEW a \in Seq(Allocation),
         NEW r \in Seq(Decision), NEW q \in Seq(Intent), NEW d \in Decision,
         NEW n \in ForwardedOf(a), Rank(a, n) = Len(r),
         d.proposal = a[n].proposal, d.cents <= a[n].cents,
         NEW left, Budgeted(set, phase, before, e, a, r, q, left)
  PROVE  Budgeted(set, next, before, e, a, Append(r, d), q, left)
  <1> SUFFICES ASSUME NEW x \in Scopes
               PROVE  Planned(Ahead(set, q), x) + Coming(next, Append(r, d), x)
                        + Left(a, Append(r, d), x) + Amount(before, x)
                          <= Planned(set, x) + Amount(e, x)
    BY DEF Budgeted
  <1>1. PICK s, t, l, m, b, o, k, i :
          /\ s = Planned(set, x) /\ t = Planned(Ahead(set, q), x)
          /\ l = Left(a, r, x) /\ m = Left(a, Append(r, d), x)
          /\ b = Amount(before, x) /\ o = Amount(e, x)
          /\ k = Share(a[n].proposal, a[n].cents, x) /\ i = Coming(next, Append(r, d), x)
    OBVIOUS
  <1>2. /\ Len(r) \in Nat /\ Append(r, d) \in Seq(Decision) /\ Len(Append(r, d)) = Len(r) + 1
        /\ Append(r, d)[Len(r) + 1] = d
    BY AppendProperties, LenProperties
  <1>3. a[n].cents \in Nat /\ d.cents \in Nat
    BY UndecidedFinite DEF Decision
  <1>4. s \in Nat /\ t \in Nat /\ l \in Nat /\ m \in Nat /\ b \in Nat /\ o \in Nat /\ k \in Nat
    BY <1>1, <1>2, <1>3, AheadFinite, PlannedNat, LeftNat, AmountNat, ShareNat
  <1>5. i \in Nat /\ i <= k
    <2>1. Share(d.proposal, d.cents, x) \in Nat /\ Share(d.proposal, d.cents, x) <= k
      BY <1>1, <1>3 DEF Share
    <2>2. i = Share(d.proposal, d.cents, x) \/ i = 0
      BY <1>1, <1>2 DEF Coming
    <2> QED BY <1>4, <2>1, <2>2
  <1>6. t + l + b <= s + o
    <2>1. t + Coming(phase, r, x) + l + b <= s + o
      BY <1>1 DEF Budgeted
    <2>2. Coming(phase, r, x) = 0
      BY DEF Coming
    <2> QED BY <1>4, <2>1, <2>2
  <1>7. m + k <= l
    BY <1>1, LeftDecided
  <1>8. t + i + m + b <= s + o
    BY <1>4, <1>5, <1>6, <1>7
  <1> QED BY <1>1, <1>8

LEMMA BudgetPlanned ==
  ASSUME NEW set, set \subseteq Intent, IsFiniteSet(set), NEW next, next # "plan",
         NEW before \in Exposure, NEW e \in Exposure, NEW a \in Seq(Allocation),
         NEW r \in Seq(Decision), NEW q \in Seq(Intent), NEW i \in Intent,
         i.proposal = r[Len(r)].proposal, i.notional = r[Len(r)].cents,
         NEW left, Budgeted(set, "plan", before, e, a, r, q, left)
  PROVE  Budgeted(set, next, before, e, a, r, Append(q, i), left)
  <1> SUFFICES ASSUME NEW x \in Scopes
               PROVE  Planned(Ahead(set, Append(q, i)), x) + Coming(next, r, x)
                        + Left(a, r, x) + Amount(before, x) <= Planned(set, x) + Amount(e, x)
    BY DEF Budgeted
  <1>1. PICK s, t, u, l, b, o, k :
          /\ s = Planned(set, x) /\ t = Planned(Ahead(set, q), x)
          /\ u = Planned(Ahead(set, Append(q, i)), x)
          /\ l = Left(a, r, x) /\ b = Amount(before, x) /\ o = Amount(e, x)
          /\ k = Share(i.proposal, i.notional, x)
    OBVIOUS
  <1>2. /\ Len(q) \in Nat /\ Append(q, i) \in Seq(Intent)
        /\ DOMAIN q = 1 .. Len(q) /\ DOMAIN Append(q, i) = 1 .. Len(q) + 1
        /\ Append(q, i)[Len(q) + 1] = i /\ \A n \in 1 .. Len(q) : Append(q, i)[n] = q[n]
        /\ i.notional \in Nat
    BY AppendProperties, LenProperties DEF Intent
  <1>3. Ahead(set, Append(q, i)) = Ahead(set, q) \cup {i}
    BY <1>2 DEF Ahead
  <1>4. s \in Nat /\ t \in Nat /\ u \in Nat /\ l \in Nat /\ b \in Nat /\ o \in Nat /\ k \in Nat
    BY <1>1, <1>2, AheadFinite, PlannedNat, LeftNat, AmountNat, ShareNat
  <1>5. u <= t + k
    BY <1>1, <1>3, AheadFinite, PlannedAdd
  <1>6. t + k + l + b <= s + o
    <2>1. t + Coming("plan", r, x) + l + b <= s + o
      BY <1>1 DEF Budgeted
    <2>2. Coming("plan", r, x) = k
      BY <1>1 DEF Coming
    <2> QED BY <2>1, <2>2
  <1>7. Coming(next, r, x) = 0
    BY DEF Coming
  <1> QED BY <1>1, <1>4, <1>5, <1>6, <1>7

-----------------------------------------------------------------------------
(* All cycles. *)

\* What LimitsInv says of one cycle.
Keeps(set, phase, before, after, given, decided, planned, rows, left) ==
  /\ Deciding(phase) => Budgeted(set, phase, before, after, given, decided, planned, left)
  /\ Publishing(rows) => Fits(IntentsAfter(set, rows), left)

KeepsCycle(c) ==
  Keeps(intents, pc[c], loaded[c], exposure[c], allocations[c], risks[c], plans[c], outbox[c],
        unseen)

LEMMA NotPublishing ==
  ASSUME NEW s, s = <<>>
  PROVE  ~Publishing(s)
  <1>1. DOMAIN s = {}
    OBVIOUS
  <1> QED BY <1>1 DEF Publishing

\* A step of one cycle leaves the memory of the others alone.
LEMMA OthersStay ==
  ASSUME Typed, NEW c \in Cycles, Step(c), NEW d \in Cycles, d # c
  PROVE  /\ pc'[d] = pc[d] /\ loaded'[d] = loaded[d] /\ exposure'[d] = exposure[d]
         /\ allocations'[d] = allocations[d] /\ risks'[d] = risks[d]
         /\ plans'[d] = plans[d] /\ outbox'[d] = outbox[d]
  BY DEF Step, ReadOperator, Propose, LoadExposure, AllocateNext, Assess, Plan, BeginWrites,
         WriteNext, Fail, Forget, Typed

LEMMA FreshStep ==
  ASSUME Typed, \A c \in Cycles : Fresh(c), [Next]_vars
  PROVE  \A c \in Cycles : Fresh(c)'
  <1> SUFFICES ASSUME NEW c \in Cycles PROVE Fresh(c)'
    OBVIOUS
  <1>1. ASSUME pc'[c] = pc[c], allocations'[c] = allocations[c], risks'[c] = risks[c],
               plans'[c] = plans[c]
        PROVE  Fresh(c)'
    BY <1>1 DEF Fresh
  <1>2. ASSUME NEW d \in Cycles, Step(d), d # c PROVE Fresh(c)'
    BY <1>1, <1>2, OthersStay
  <1>3. CASE Command \/ Updating \/ UNCHANGED vars
    BY <1>1, <1>3 DEF Command, Updating, UpdateAggregatedPositionSnapshot,
         UpdateAccountPosition, PutSnapshot, vars, memory
  <1>4. CASE ReadOperator(c) \/ Propose(c) \/ LoadExposure(c)
    <2>1. /\ pc[c] \in {"start", "propose", "expose"}
          /\ allocations' = allocations /\ risks' = risks /\ plans' = plans
      BY <1>4 DEF ReadOperator, Propose, LoadExposure
    <2> QED BY <2>1 DEF Fresh
  <1>5. CASE AllocateNext(c)
    <2>1. /\ pc[c] = "allocate" /\ risks' = risks /\ plans' = plans
          /\ pc'[c] \in {"assess", "allocate"}
      BY <1>5 DEF AllocateNext, Typed
    <2> QED BY <2>1 DEF Fresh
  <1>6. CASE Assess(c)
    <2>1. pc'[c] \in {"plan", "assess"}
      BY <1>6, Assessing DEF Typed
    <2> QED BY <2>1 DEF Fresh
  <1>7. CASE Plan(c) \/ BeginWrites(c) \/ WriteNext(c) \/ Fail(c)
    <2>1. pc'[c] \in {"assess", "write", "done"}
      BY <1>7 DEF Plan, BeginWrites, WriteNext, Fail, Typed
    <2> QED BY <2>1 DEF Fresh
  <1> QED BY <1>2, <1>3, <1>4, <1>5, <1>6, <1>7 DEF Next, Step, Updating

\* What one cycle's step must keep for all of them.
LEMMA AcrossOne ==
  ASSUME Typed, LimitsInv, NEW c \in Cycles, Step(c), Fits(intents', unseen'), KeepsCycle(c)',
         Active(c)' => Active(c) \/ \A d \in Cycles : d # c => ~Active(d),
         (intents' = intents /\ unseen' = unseen) \/ \A d \in Cycles : d # c => ~Active(d)
  PROVE  LimitsInv'
  <1>1. ASSUME NEW d \in Cycles, d # c
        PROVE  /\ pc'[d] = pc[d] /\ loaded'[d] = loaded[d] /\ exposure'[d] = exposure[d]
               /\ allocations'[d] = allocations[d] /\ risks'[d] = risks[d]
               /\ plans'[d] = plans[d] /\ outbox'[d] = outbox[d]
    BY <1>1, OthersStay
  <1>2. \A d \in Cycles : d # c => Active(d)' = Active(d)
    BY <1>1 DEF Active
  <1>3. ASSUME NEW a \in Cycles, NEW b \in Cycles, Active(a)', Active(b)' PROVE a = b
    BY <1>2, <1>3 DEF LimitsInv
  <1>4. ASSUME NEW d \in Cycles PROVE KeepsCycle(d)'
    <2>1. CASE d = c
      BY <2>1
    <2>2. CASE d # c /\ intents' = intents /\ unseen' = unseen
      <3>1. KeepsCycle(d)
        BY DEF LimitsInv, KeepsCycle, Keeps
      <3> QED BY <1>1, <2>2, <3>1 DEF KeepsCycle
    <2>3. CASE d # c /\ ~Active(d)
      <3>1. ~Deciding(pc'[d]) /\ ~Publishing(outbox'[d])
        BY <1>1, <2>3 DEF Active
      <3> QED BY <3>1 DEF KeepsCycle, Keeps
    <2> QED BY <2>1, <2>2, <2>3
  <1> QED BY <1>3, <1>4 DEF LimitsInv, KeepsCycle, Keeps

\* A cycle that loads its exposure alone starts within its budget: what it is not
\* shown of the intents is what unseen records.
LEMMA AcrossLoad ==
  ASSUME Typed, MoreTyped, \A c \in Cycles : Writing(c) /\ Fresh(c),
         LimitsInv, NEW c \in Cycles, LoadExposure(c), ~overlapped'
  PROVE  LimitsInv'
  <1>1. /\ Running = {c} /\ intents' = intents
        /\ pc[c] = "expose" /\ pc'[c] = "allocate"
        /\ outbox' = outbox
    BY DEF LoadExposure, Typed, tables
  <1>0. /\ unseen' \in [Scopes -> Nat]
        /\ \A x \in Scopes : unseen[x] <= unseen'[x]
                               /\ Planned(intents, x) - Shown(x) <= unseen'[x]
    BY UnseenGrows
  <1>2. PICK e \in Exposure : /\ loaded'[c] = e /\ exposure'[c] = e
                              /\ \A x \in Scopes : Shown(x) <= Amount(e, x)
    <2>1. PICK value \in AccountValues :
            loaded' = [loaded EXCEPT ![c] = LoadedExposure(value)]
      BY DEF LoadExposure
    <2>2. loaded'[c] = LoadedExposure(value) /\ exposure'[c] = LoadedExposure(value)
      BY <2>1 DEF LoadExposure, Typed
    <2>3. LoadedExposure(value) \in Exposure
      BY LoadedIsNat
    <2> QED BY <2>2, <2>3, LoadedCounts
  <1>3. allocations'[c] = <<>> /\ risks'[c] = <<>> /\ plans'[c] = <<>>
    BY <1>1 DEF LoadExposure, Fresh
  <1>4. PICK none, set, left : none = <<>> /\ set = intents /\ left = unseen'
    OBVIOUS
  <1>5. Budgeted(set, "allocate", e, e, none, none, none, left)
    <2>1. set \subseteq Intent /\ IsFiniteSet(set)
      BY <1>4 DEF Typed, MoreTyped
    <2>2. ASSUME NEW x \in Scopes PROVE Planned(set, x) <= Amount(e, x) + left[x]
      <3>1. PICK n, a, b, u : /\ n = Planned(set, x) /\ a = Amount(e, x)
                              /\ b = Shown(x) /\ u = left[x]
        OBVIOUS
      <3>2. n \in Nat /\ a \in Nat /\ b \in Int /\ u \in Nat
        BY <1>0, <1>4, <2>1, <3>1, PlannedNat, AmountNat, TotalInt DEF Shown
      <3>3. n - b <= u /\ b <= a
        BY <1>0, <1>2, <1>4, <3>1
      <3> QED BY <3>1, <3>2, <3>3
    <2> QED BY <1>4, <2>1, <2>2, BudgetLoaded
  <1>6. ~Publishing(outbox'[c])
    <2>1. outbox[c] = <<>>
      BY <1>1 DEF Writing
    <2> QED BY <1>1, <2>1, NotPublishing
  <1>7. KeepsCycle(c)'
    BY <1>1, <1>2, <1>3, <1>4, <1>5, <1>6 DEF KeepsCycle, Keeps
  <1>8. \A d \in Cycles : d # c => ~Active(d)
    <2> SUFFICES ASSUME NEW d \in Cycles, d # c PROVE ~Active(d)
      OBVIOUS
    <2>1. pc[d] \in {"start", "done"}
      BY <1>1 DEF Running
    <2>2. outbox[d] = <<>>
      BY <2>1 DEF Writing
    <2> QED BY <2>1, <2>2, NotPublishing DEF Active, Deciding
  <1>9. Fits(intents', unseen')
    <2>1. PICK before : before = unseen
      OBVIOUS
    <2>2. set \subseteq Intent /\ IsFiniteSet(set) /\ before \in [Scopes -> Nat]
          /\ Fits(set, before)
      BY <1>4, <2>1 DEF Typed, MoreTyped, LimitsInv
    <2>3. left \in [Scopes -> Nat] /\ \A x \in Scopes : before[x] <= left[x]
      BY <1>0, <1>4, <2>1
    <2>4. Fits(set, left)
      BY <2>2, <2>3, FitsLess
    <2> QED BY <1>1, <1>4, <2>4
  <1> QED BY <1>1, <1>7, <1>8, <1>9, AcrossOne DEF Step

\* A cycle that allocates, assesses or plans stays within its budget.
LEMMA BudgetStep ==
  ASSUME Typed, MoreTyped, NEW c \in Cycles, Decided(c), Fresh(c),
         Deciding(pc[c]) => Budgeted(intents, pc[c], loaded[c], exposure[c], allocations[c],
                                     risks[c], plans[c], unseen),
         AllocateNext(c) \/ Assess(c) \/ Plan(c)
  PROVE  /\ Deciding(pc[c]) /\ intents' = intents /\ outbox' = outbox /\ unseen' = unseen
         /\ Budgeted(intents, pc'[c], loaded'[c], exposure'[c], allocations'[c], risks'[c],
                     plans'[c], unseen)
  <1>1. PICK set, left, b, e, a, r, q :
          /\ set = intents /\ left = unseen /\ b = loaded[c] /\ e = exposure[c]
          /\ a = allocations[c] /\ r = risks[c] /\ q = plans[c]
    OBVIOUS
  <1>2. /\ set \subseteq Intent /\ IsFiniteSet(set) /\ b \in Exposure /\ e \in Exposure
        /\ a \in Seq(Allocation) /\ r \in Seq(Decision) /\ q \in Seq(Intent)
    BY <1>1 DEF Typed, MoreTyped
  <1>3. CASE AllocateNext(c)
    <2>0. PICK p \in Opportunities, room \in Int, cents \in Nat, forwarded \in BOOLEAN :
            /\ room \in Rooms(p, exposure[c])
            /\ \A other \in Rooms(p, exposure[c]) : room <= other
            /\ cents <= Capacity(p, exposure[c], room)
            /\ forwarded => p.legs # <<>> /\ Capacity(p, exposure[c], room) > 0
            /\ exposure' = [exposure EXCEPT
                 ![c] = IF forwarded THEN ReserveExposure(p, cents, exposure[c]) ELSE exposure[c]]
            /\ allocations' = [allocations EXCEPT
                 ![c] = Append(@, [proposal |-> p, cents |-> cents, forwarded |-> forwarded])]
            /\ proposals' = [proposals EXCEPT ![c] = @ \ {p}]
      BY <1>3, Allocating
    <2>1. /\ forwarded => p.legs # <<>>
          /\ exposure' = [exposure EXCEPT
                 ![c] = IF forwarded THEN ReserveExposure(p, cents, exposure[c]) ELSE exposure[c]]
          /\ allocations' = [allocations EXCEPT
               ![c] = Append(@, [proposal |-> p, cents |-> cents, forwarded |-> forwarded])]
      BY <2>0
    <2>2. PICK v : v = [proposal |-> p, cents |-> cents, forwarded |-> forwarded]
      OBVIOUS
    <2>3. /\ v \in Allocation /\ v.proposal = p /\ v.cents = cents /\ v.forwarded = forwarded
      BY <2>2 DEF Allocation
    <2>4. /\ pc[c] = "allocate" /\ intents' = intents /\ outbox' = outbox /\ unseen' = unseen
          /\ pc'[c] \in {"assess", "allocate"}
          /\ loaded'[c] = b /\ risks'[c] = r /\ plans'[c] = q
          /\ exposure'[c] = IF v.forwarded THEN ReserveExposure(v.proposal, v.cents, e) ELSE e
          /\ allocations'[c] = Append(a, v)
      BY <1>1, <1>3, <2>1, <2>2, <2>3 DEF AllocateNext, Typed, tables, environment
    <2>5. r = <<>> /\ q = <<>>
      BY <1>1, <2>4 DEF Fresh
    <2>6. Budgeted(set, pc[c], b, e, a, r, r, left)
      BY <1>1, <2>4, <2>5 DEF Deciding
    <2>7. PICK phase, next, after : phase = pc[c] /\ next = pc'[c] /\ after = exposure'[c]
      OBVIOUS
    <2>8. Budgeted(set, next, b, after, Append(a, v), r, r, left)
      <3>1. phase # "plan" /\ next # "plan"
        BY <2>4, <2>7
      <3>2. /\ Budgeted(set, phase, b, e, a, r, r, left)
            /\ after = IF v.forwarded THEN ReserveExposure(v.proposal, v.cents, e) ELSE e
            /\ v.forwarded => v.proposal.legs # <<>>
        BY <2>1, <2>3, <2>4, <2>6, <2>7
      <3> QED BY <1>2, <2>3, <2>5, <3>1, <3>2, BudgetGranted
    <2> QED BY <1>1, <2>4, <2>5, <2>7, <2>8 DEF Deciding
  <1>4. CASE Assess(c)
    <2>0. PICK n \in DOMAIN allocations[c], status \in RiskStatuses, cents \in Nat :
            /\ allocations[c][n].forwarded /\ IsNext(n, c)
            /\ cents <= allocations[c][n].cents
            /\ Good(status) => ~Stopped(seen[c])
            /\ risks' = [risks EXCEPT
                 ![c] = Append(@, [proposal |-> allocations[c][n].proposal, status |-> status,
                                   cents |-> cents])]
            /\ pc' = [pc EXCEPT ![c] = IF Good(status) THEN "plan" ELSE "assess"]
      BY <1>4, Assessing
    <2>1. /\ n \in DOMAIN a /\ a[n].forwarded /\ IsNext(n, c)
          /\ cents <= a[n].cents
          /\ risks' = [risks EXCEPT ![c] = Append(@, [proposal |-> a[n].proposal,
                                                     status |-> status, cents |-> cents])]
      BY <1>1, <2>0
    <2>2. PICK d : d = [proposal |-> a[n].proposal, status |-> status, cents |-> cents]
      OBVIOUS
    <2>3. a[n].proposal \in Opportunities
      BY <1>1, Memory DEF Allocation
    <2>4. d \in Decision /\ d.proposal = a[n].proposal /\ d.cents = cents
      BY <2>2, <2>3 DEF Decision
    <2>5. n \in ForwardedOf(a) /\ Rank(a, n) = Len(r)
      <3>1. Forwarded(c) = ForwardedOf(a)
        BY <1>1 DEF Forwarded, ForwardedOf
      <3> QED BY <1>1, <2>1, <3>1 DEF IsNext, Rank, ForwardedOf
    <2>6. /\ pc[c] = "assess" /\ intents' = intents /\ outbox' = outbox /\ unseen' = unseen
          /\ loaded'[c] = b /\ exposure'[c] = e /\ allocations'[c] = a /\ plans'[c] = q
          /\ risks'[c] = Append(r, d)
      BY <1>1, <1>4, <2>1, <2>2 DEF Assess, Typed, tables, environment
    <2>7. PICK phase, next : phase = pc[c] /\ next = pc'[c]
      OBVIOUS
    <2>8. Budgeted(set, next, b, e, a, Append(r, d), q, left)
      <3>1. Budgeted(set, phase, b, e, a, r, q, left) /\ phase # "plan"
        BY <1>1, <2>6, <2>7 DEF Deciding
      <3>2. d.cents <= a[n].cents
        BY <2>1, <2>4
      <3> QED BY <1>2, <2>4, <2>5, <3>1, <3>2, BudgetDecided
    <2> QED BY <1>1, <2>6, <2>7, <2>8 DEF Deciding
  <1>5. CASE Plan(c)
    <2>1. /\ pc[c] = "plan" /\ intents' = intents /\ outbox' = outbox /\ pc'[c] = "assess"
          /\ unseen' = unseen
          /\ loaded'[c] = b /\ exposure'[c] = e /\ allocations'[c] = a /\ risks'[c] = r
      BY <1>1, <1>5 DEF Plan, Typed, tables, environment
    <2>2. r # <<>>
      BY <1>1, <2>1 DEF Decided
    <2>3. PICK i \in Intent : /\ i.proposal = r[Len(r)].proposal
                              /\ i.notional = r[Len(r)].cents
                              /\ plans' = [plans EXCEPT ![c] = Append(@, i)]
      BY <1>1, <1>5, <2>2, Planning
    <2>4. plans'[c] = Append(q, i)
      BY <1>1, <2>3 DEF Typed
    <2>5. Budgeted(set, "plan", b, e, a, r, q, left)
      BY <1>1, <2>1 DEF Deciding
    <2>6. Budgeted(set, "assess", b, e, a, r, Append(q, i), left)
      BY <1>2, <2>3, <2>5, BudgetPlanned
    <2> QED BY <1>1, <2>1, <2>4, <2>6 DEF Deciding
  <1> QED BY <1>3, <1>4, <1>5

LEMMA AcrossDeciding ==
  ASSUME Typed, MoreTyped, NEW c \in Cycles, Decided(c), Writing(c), Fresh(c),
         LimitsInv, AllocateNext(c) \/ Assess(c) \/ Plan(c)
  PROVE  LimitsInv'
  <1>1. /\ Deciding(pc[c]) /\ intents' = intents /\ outbox' = outbox /\ unseen' = unseen
        /\ Budgeted(intents, pc'[c], loaded'[c], exposure'[c], allocations'[c], risks'[c],
                    plans'[c], unseen)
    BY BudgetStep DEF LimitsInv
  <1>2. ~Publishing(outbox'[c])
    <2>1. outbox[c] = <<>>
      BY <1>1 DEF Writing, Deciding
    <2> QED BY <1>1, <2>1, NotPublishing
  <1>3. KeepsCycle(c)'
    BY <1>1, <1>2 DEF KeepsCycle, Keeps
  <1>4. Fits(intents', unseen')
    BY <1>1 DEF LimitsInv
  <1>5. Active(c)
    BY <1>1 DEF Active
  <1> QED BY <1>1, <1>3, <1>4, <1>5, AcrossOne DEF Step

\* What a cycle is about to publish is what it planned.
LEMMA PublishesPlans ==
  ASSUME Typed, NEW c \in Cycles
  PROVE  IntentsAfter(intents, Writes(c)) \subseteq Ahead(intents, plans[c])
  <1> SUFFICES ASSUME NEW m \in DOMAIN Writes(c), Writes(c)[m].table = "state"
               PROVE  \E k \in DOMAIN plans[c] : Writes(c)[m].row = plans[c][k]
    BY DEF IntentsAfter, Ahead
  <1>1. PICK w : w = Writes(c)[m]
    OBVIOUS
  <1>2. \/ w.table = "ledger"
        \/ \E k \in DOMAIN plans[c] : w = IntentRow(plans[c][k])
        \/ w = CycleRow(c)
    BY <1>1, WritesOf
  <1>3. \A i : IntentRow(i).row = i
    BY DEF IntentRow
  <1> QED BY <1>1, <1>2, <1>3, CycleRowIs

LEMMA AcrossBegins ==
  ASSUME Typed, MoreTyped, NEW c \in Cycles, Kept(loaded[c], exposure[c]),
         LimitsInv, BeginWrites(c)
  PROVE  LimitsInv'
  <1>1. /\ pc[c] = "assess" /\ pc'[c] = "write" /\ intents' = intents
        /\ outbox'[c] = Writes(c) /\ unseen' = unseen /\ unseen \in [Scopes -> Nat]
    BY DEF BeginWrites, Typed, MoreTyped, tables, environment
  <1>2. Fits(Ahead(intents, plans[c]), unseen)
    <2>1. PICK set, left, b, e, a, r, q :
            /\ set = intents /\ left = unseen /\ b = loaded[c] /\ e = exposure[c]
            /\ a = allocations[c] /\ r = risks[c] /\ q = plans[c]
      OBVIOUS
    <2>2. /\ set \subseteq Intent /\ IsFiniteSet(set) /\ b \in Exposure /\ e \in Exposure
          /\ left \in [Scopes -> Nat] /\ a \in Seq(Allocation)
          /\ r \in Seq(Decision) /\ q \in Seq(Intent)
      BY <2>1 DEF Typed, MoreTyped
    <2>3. Budgeted(set, "assess", b, e, a, r, q, left) /\ Kept(b, e)
          /\ Fits(set, left)
      BY <1>1, <2>1 DEF LimitsInv, Deciding
    <2>4. Fits(Ahead(set, q), left)
      BY <2>2, <2>3, BudgetFits
    <2> QED BY <2>1, <2>4
  <1>3. Fits(IntentsAfter(intents, Writes(c)), unseen)
    <2>1. PICK set, left, q, after : /\ set = intents /\ left = unseen /\ q = plans[c]
                                /\ after = IntentsAfter(intents, Writes(c))
      OBVIOUS
    <2>2. set \subseteq Intent /\ IsFiniteSet(set) /\ q \in Seq(Intent)
          /\ left \in [Scopes -> Nat] /\ \A x \in Scopes : left[x] <= left[x]
      BY <2>1 DEF Typed, MoreTyped
    <2>3. Ahead(set, q) \subseteq Intent /\ IsFiniteSet(Ahead(set, q))
      BY <2>2, AheadFinite
    <2>4. after \subseteq Ahead(set, q) /\ Fits(Ahead(set, q), left)
      BY <1>2, <2>1, PublishesPlans
    <2> QED BY <2>1, <2>2, <2>3, <2>4, FitsLess
  <1>4. ~Deciding(pc'[c])
    BY <1>1 DEF Deciding
  <1>5. KeepsCycle(c)'
    BY <1>1, <1>3, <1>4 DEF KeepsCycle, Keeps
  <1>6. Active(c)
    BY <1>1 DEF Active, Deciding
  <1>7. Fits(intents', unseen')
    BY <1>1 DEF LimitsInv
  <1> QED BY <1>1, <1>5, <1>6, <1>7, AcrossOne DEF Step

LEMMA AcrossWrite ==
  ASSUME Typed, MoreTyped, NEW c \in Cycles, Writing(c), LimitsInv, WriteNext(c)
  PROVE  LimitsInv'
  <1>1. PICK s, tail, set, left : /\ s = outbox[c] /\ tail = Tail(s) /\ set = intents
                                /\ left = unseen
    OBVIOUS
  <1>0. /\ left \in [Scopes -> Nat] /\ \A x \in Scopes : left[x] <= left[x]
        /\ unseen' = left
    BY <1>1 DEF WriteNext, MoreTyped, environment
  <1>2. /\ s \in Seq(Write) /\ s # <<>>
        /\ outbox'[c] = tail
        /\ pc'[c] \in {"done", "write"}
        /\ IF s[1].table = "state" THEN intents' = set \cup {s[1].row} ELSE intents' = set
    BY <1>1, WriteLeaves
  <1>3. /\ set \subseteq Intent /\ IsFiniteSet(set)
        /\ IntentsAfter(set, s) \subseteq Intent /\ IsFiniteSet(IntentsAfter(set, s))
    BY <1>1, <1>2, IntentsAfterFinite DEF Typed, MoreTyped
  <1>4. 1 \in DOMAIN s /\ \A m \in DOMAIN tail : m + 1 \in DOMAIN s /\ tail[m] = s[m + 1]
    BY <1>1, <1>2
  <1>5. /\ intents' \subseteq IntentsAfter(set, s)
        /\ IntentsAfter(intents', tail) \subseteq IntentsAfter(set, s)
    BY <1>2, <1>4 DEF IntentsAfter
  <1>6. ~Deciding(pc'[c])
    BY <1>2 DEF Deciding
  <1>7. Publishing(tail) => Publishing(s)
    BY <1>4 DEF Publishing
  <1>8. Publishing(s) => Active(c) /\ Fits(IntentsAfter(set, s), left)
    BY <1>1 DEF LimitsInv, Active
  <1>9. Fits(intents', unseen')
    <2>1. CASE s[1].table = "state"
      <3>1. Publishing(s)
        BY <1>4, <2>1 DEF Publishing
      <3> QED BY <1>0, <1>3, <1>5, <1>8, <3>1, FitsLess
    <2>2. CASE s[1].table # "state"
      BY <1>0, <1>1, <1>2, <2>2 DEF LimitsInv
    <2> QED BY <2>1, <2>2
  <1>10. KeepsCycle(c)'
    <2>1. Publishing(tail) => Fits(IntentsAfter(intents', tail), left)
      BY <1>0, <1>3, <1>5, <1>7, <1>8, FitsLess
    <2> QED BY <1>0, <1>2, <1>6, <2>1 DEF KeepsCycle, Keeps
  <1>11. Active(c)' => Active(c)
    BY <1>2, <1>6, <1>7, <1>8 DEF Active
  <1>12. (intents' = intents /\ unseen' = unseen) \/ \A d \in Cycles : d # c => ~Active(d)
    <2>1. CASE s[1].table = "state"
      <3>1. Active(c)
        BY <1>4, <1>8, <2>1 DEF Publishing
      <3> QED BY <3>1 DEF LimitsInv
    <2>2. CASE s[1].table # "state"
      BY <1>0, <1>1, <1>2, <2>2
    <2> QED BY <2>1, <2>2
  <1> QED BY <1>9, <1>10, <1>11, <1>12, AcrossOne DEF Step

\* A cycle that starts, finds its proposals or ends has nothing to keep.
LEMMA AcrossIdle ==
  ASSUME Typed, NEW c \in Cycles, Writing(c), LimitsInv,
         ReadOperator(c) \/ Propose(c) \/ Fail(c)
  PROVE  LimitsInv'
  <1>1. intents' = intents /\ unseen' = unseen /\ pc'[c] \in {"propose", "write", "expose", "done"}
    BY DEF ReadOperator, Propose, Fail, Typed, tables, environment
  <1>2. outbox'[c] = <<>> \/ outbox'[c] = <<CycleRow(c)>>
    <2>1. CASE ReadOperator(c)
      BY <2>1 DEF ReadOperator, Writing
    <2>2. CASE Propose(c)
      BY <2>2 DEF Propose, Typed
    <2>3. CASE Fail(c)
      BY <2>3 DEF Fail, Typed
    <2> QED BY <2>1, <2>2, <2>3
  <1>3. ~Publishing(outbox'[c])
    <2>1. CASE outbox'[c] = <<>>
      BY <2>1, NotPublishing
    <2>2. CASE outbox'[c] = <<CycleRow(c)>>
      <3>1. PICK s : s = outbox'[c] /\ DOMAIN s = {1} /\ s[1] = CycleRow(c)
        BY <2>2
      <3> QED BY <3>1, CycleRowIs DEF Publishing
    <2> QED BY <1>2, <2>1, <2>2
  <1>4. ~Deciding(pc'[c])
    BY <1>1 DEF Deciding
  <1>5. KeepsCycle(c)' /\ ~Active(c)'
    BY <1>3, <1>4 DEF KeepsCycle, Keeps, Active
  <1>6. Fits(intents', unseen')
    BY <1>1 DEF LimitsInv
  <1> QED BY <1>1, <1>5, <1>6, AcrossOne DEF Step

AcrossInv ==
  /\ \A c \in Cycles : Fresh(c)
  /\ ~overlapped => LimitsInv

LEMMA AcrossStep ==
  ASSUME IInv, MoreTyped, Keeping, AcrossInv, [Next]_vars
  PROVE  AcrossInv'
  <1>1. Typed /\ \A c \in Cycles : Decided(c) /\ Writing(c)
    BY DEF IInv
  <1>2. \A c \in Cycles : Fresh(c)'
    BY <1>1, FreshStep DEF AcrossInv
  <1>3. ASSUME ~overlapped' PROVE LimitsInv'
    <2>1. ~overlapped
      BY <1>3
      DEF Next, Step, ReadOperator, Propose, LoadExposure, AllocateNext, Assess, Plan,
          BeginWrites, WriteNext, Fail, Command, UpdateAggregatedPositionSnapshot,
          UpdateAccountPosition, PutSnapshot, vars, environment
    <2>2. LimitsInv /\ \A c \in Cycles : Fresh(c)
      BY <2>1 DEF AcrossInv
    <2>3. ASSUME NEW c \in Cycles, LoadExposure(c) PROVE LimitsInv'
      BY <1>1, <1>3, <2>2, <2>3, AcrossLoad
    <2>4. ASSUME NEW c \in Cycles, AllocateNext(c) \/ Assess(c) \/ Plan(c) PROVE LimitsInv'
      BY <1>1, <2>2, <2>4, AcrossDeciding
    <2>5. ASSUME NEW c \in Cycles, BeginWrites(c) PROVE LimitsInv'
      <3>1. Kept(loaded[c], exposure[c])
        BY DEF Keeping
      <3> QED BY <1>1, <2>2, <2>5, <3>1, AcrossBegins
    <2>6. ASSUME NEW c \in Cycles, WriteNext(c) PROVE LimitsInv'
      BY <1>1, <2>2, <2>6, AcrossWrite
    <2>7. ASSUME NEW c \in Cycles, ReadOperator(c) \/ Propose(c) \/ Fail(c) PROVE LimitsInv'
      BY <1>1, <2>2, <2>7, AcrossIdle
    <2>8. CASE Command \/ Updating \/ UNCHANGED vars
      <3>1. /\ intents' = intents /\ pc' = pc /\ loaded' = loaded /\ exposure' = exposure
            /\ allocations' = allocations /\ risks' = risks /\ plans' = plans
            /\ outbox' = outbox /\ unseen' = unseen
        BY <2>8 DEF Command, Updating, UpdateAggregatedPositionSnapshot,
             UpdateAccountPosition, PutSnapshot, vars, memory, tables, environment
      <3>2. ASSUME NEW c \in Cycles PROVE KeepsCycle(c)' /\ Active(c)' = Active(c)
        <4>1. KeepsCycle(c)
          BY <2>2 DEF LimitsInv, KeepsCycle, Keeps
        <4> QED BY <3>1, <4>1 DEF KeepsCycle, Active
      <3>3. Fits(intents', unseen')
        BY <2>2, <3>1 DEF LimitsInv
      <3>4. \A c, d \in Cycles : Active(c)' /\ Active(d)' => c = d
        BY <2>2, <3>2 DEF LimitsInv
      <3> QED BY <3>2, <3>3, <3>4 DEF LimitsInv, KeepsCycle, Keeps
    <2> QED BY <2>3, <2>4, <2>5, <2>6, <2>7, <2>8 DEF Next, Step, Updating
  <1> QED BY <1>2, <1>3 DEF AcrossInv

LEMMA AcrossInit == Init => AcrossInv
  <1> SUFFICES ASSUME Init PROVE AcrossInv
    OBVIOUS
  <1>1. /\ intents = {} /\ unseen = [x \in Scopes |-> 0]
        /\ \A c \in Cycles : /\ pc[c] = "start" /\ allocations[c] = <<>> /\ risks[c] = <<>>
                             /\ plans[c] = <<>> /\ outbox[c] = <<>>
    BY DEF Init
  <1>2. \A c \in Cycles : Fresh(c) /\ ~Active(c)
    BY <1>1, NotPublishing DEF Fresh, Active, Deciding
  <1>3. Fits(intents, unseen)
    <2> SUFFICES ASSUME NEW x \in Scopes PROVE Within(Planned(intents, x) - unseen[x], Limit(x))
      BY DEF Fits
    <2>1. PICK f : f = [i \in {} |-> Share(i.proposal, i.notional, x)] /\ DOMAIN f = {}
      OBVIOUS
    <2>2. Total(f) = 0
      BY <2>1, TotalEmpty
    <2>3. Planned(intents, x) = 0 /\ unseen[x] = 0
      BY <1>1, <2>1, <2>2 DEF Planned
    <2>4. Limit(x) \in Nat /\ UnitsPerCent \in Nat
      BY LimitNat, MoneyAssumption
    <2>5. Within(0, Limit(x))
      BY <2>4 DEF Within
    <2> QED BY <2>3, <2>5
  <1>4. LimitsInv
    BY <1>2, <1>3 DEF LimitsInv, Active
  <1> QED BY <1>2, <1>4 DEF AcrossInv

\* As long as every cycle loads its exposure when no other is under way, all the
\* intents ever published, by any number of cycles with any number of proposals, some
\* of them cut off while they wrote, exceed a limit by no more than what one cycle was
\* not shown of them when it loaded its exposure, whatever the position snapshots made
\* of them in between.
THEOREM AllCyclesKeepWithinLimits == Spec => []LimitsAcrossCycles
  <1>1. IInv /\ MoreTyped /\ Keeping /\ AcrossInv /\ [Next]_vars => AcrossInv'
    BY AcrossStep
  <1>2. AcrossInv => LimitsAcrossCycles
    BY DEF AcrossInv, LimitsInv, Fits, LimitsAcrossCycles
  <1> QED BY <1>1, <1>2, AcrossInit, Inductive, MoreInductive, KeepsWithin, PTL DEF Spec
=============================================================================
