------------------------ MODULE ProposalSearchProofs ------------------------
(***************************************************************************)
(* Proofs about ProposalSearch, for every board.                           *)
(***************************************************************************)
EXTENDS ProposalSearch, MoneyProofs, SequenceTheorems

-----------------------------------------------------------------------------
(* The elements of a set in an order. *)

\* Each element is at one place.
LEMMA SetToSeqsIs ==
  ASSUME NEW S, IsFiniteSet(S), NEW s \in SetToSeqs(S)
  PROVE  /\ Cardinality(S) \in Nat /\ DOMAIN s = 1 .. Cardinality(S)
         /\ \A i \in DOMAIN s : s[i] \in S
         /\ \A i, j \in DOMAIN s : s[i] = s[j] => i = j
         /\ \A x \in S : \E i \in DOMAIN s : x = s[i]
  <1>1. PICK n \in Nat : n = Cardinality(S)
    BY FS_CardinalityType
  <1>2. s \in [1 .. n -> S] /\ \A i, j \in 1 .. n : i # j => s[i] # s[j]
    BY <1>1 DEF SetToSeqs
  <1>3. s \in Injection(1 .. n, S)
    BY <1>2 DEF Injection, IsInjective
  <1>4. IsFiniteSet(1 .. n) /\ Cardinality(1 .. n) = n
    BY FS_Interval
  <1>5. s \in Surjection(1 .. n, S)
    BY <1>1, <1>3, <1>4, FS_Injection
  <1>6. \A x \in S : \E i \in 1 .. n : x = s[i]
    BY <1>5 DEF Surjection
  <1> QED BY <1>1, <1>2, <1>6

\* Legs of different markets have an order by market: the rank of a leg is the
\* number of legs that do not come after it.
LEMMA MarketOrderExists ==
  ASSUME NEW legs, IsFiniteSet(legs), \A r \in legs : r.market \in Nat,
         \A r, s \in legs : r.market = s.market => r = s
  PROVE  \E s \in SetToSeqs(legs) :
           \A k, l \in DOMAIN s : k < l => s[k].market < s[l].market
  <1> DEFINE UpTo(r) == {s \in legs : s.market <= r.market}
  <1>1. PICK n \in Nat : n = Cardinality(legs)
    BY FS_CardinalityType
  <1>2. ASSUME NEW r \in legs
        PROVE  /\ IsFiniteSet(UpTo(r)) /\ r \in UpTo(r) /\ UpTo(r) \subseteq legs
               /\ Cardinality(UpTo(r)) \in 1 .. n
    <2>1. r \in UpTo(r) /\ UpTo(r) \subseteq legs
      OBVIOUS
    <2> HIDE DEF UpTo
    <2>2. IsFiniteSet(UpTo(r)) /\ Cardinality(UpTo(r)) <= n
      BY <1>1, <2>1, FS_Subset
    <2>3. Cardinality(UpTo(r)) \in Nat /\ Cardinality(UpTo(r)) # 0
      BY <2>1, <2>2, FS_CardinalityType, FS_EmptySet
    <2> QED BY <2>1, <2>2, <2>3
  <1>3. PICK rank : rank = [r \in legs |-> Cardinality(UpTo(r))]
    OBVIOUS
  <1>4. rank \in [legs -> 1 .. n]
    <2> HIDE DEF UpTo
    <2> QED BY <1>2, <1>3
  <1>5. ASSUME NEW r \in legs, NEW s \in legs, r.market < s.market PROVE rank[r] < rank[s]
    <2>1. UpTo(r) \subseteq UpTo(s) /\ s \notin UpTo(r)
      <3>1. ASSUME NEW q \in UpTo(r) PROVE q \in UpTo(s)
        <4>1. q.market \in Nat /\ r.market \in Nat /\ s.market \in Nat /\ q.market <= r.market
          OBVIOUS
        <4> QED BY <1>5, <4>1
      <3>2. ~(s.market <= r.market)
        BY <1>5
      <3> QED BY <3>1, <3>2
    <2> HIDE DEF UpTo
    <2>2. /\ Cardinality(UpTo(r)) <= Cardinality(UpTo(s))
          /\ Cardinality(UpTo(r)) # Cardinality(UpTo(s))
      BY <1>2, <2>1, FS_Subset
    <2>3. Cardinality(UpTo(r)) \in Nat /\ Cardinality(UpTo(s)) \in Nat
      BY <1>2
    <2> QED BY <1>3, <2>2, <2>3
  <1> HIDE DEF UpTo
  <1>6. ASSUME NEW r \in legs, NEW s \in legs, rank[r] = rank[s] PROVE r = s
    <2>1. rank[r] \in Nat /\ r.market \in Nat /\ s.market \in Nat
      BY <1>4
    <2>2. ~(r.market < s.market) /\ ~(s.market < r.market)
      BY <1>5, <1>6, <2>1
    <2>3. r.market = s.market
      BY <2>1, <2>2
    <2> QED BY <2>3
  <1>7. \A k \in 1 .. n : \E r \in legs : rank[r] = k
    <2>1. rank \in Injection(legs, 1 .. n)
      BY <1>4, <1>6 DEF Injection, IsInjective
    <2>2. IsFiniteSet(1 .. n) /\ Cardinality(1 .. n) = n
      BY FS_Interval
    <2>3. rank \in Surjection(legs, 1 .. n)
      BY <1>1, <2>1, <2>2, FS_Injection
    <2> QED BY <2>3 DEF Surjection
  <1>8. PICK s : s = [k \in 1 .. n |-> CHOOSE r \in legs : rank[r] = k]
    OBVIOUS
  <1>9. DOMAIN s = 1 .. n /\ \A k \in 1 .. n : s[k] \in legs /\ rank[s[k]] = k
    BY <1>7, <1>8
  <1>10. s \in SetToSeqs(legs)
    <2>1. s \in [1 .. n -> legs]
      BY <1>8, <1>9
    <2>2. \A i, j \in 1 .. n : i # j => s[i] # s[j]
      BY <1>9
    <2> QED BY <1>1, <2>1, <2>2 DEF SetToSeqs
  <1>11. ASSUME NEW k \in 1 .. n, NEW l \in 1 .. n, k < l PROVE s[k].market < s[l].market
    <2>1. PICK a \in legs, b \in legs : a = s[k] /\ b = s[l]
      BY <1>9
    <2>2. rank[a] = k /\ rank[b] = l
      BY <1>9, <2>1
    <2>3. a.market \in Nat /\ b.market \in Nat
      OBVIOUS
    <2>4. ~(b.market < a.market)
      BY <1>5, <1>11, <2>2
    <2>5. a.market # b.market
      BY <1>11, <2>2
    <2> QED BY <2>1, <2>3, <2>4, <2>5
  <1> QED BY <1>9, <1>10, <1>11

LEMMA InMarketOrderIs ==
  ASSUME NEW legs, IsFiniteSet(legs), \A r \in legs : r.market \in Nat,
         \A r, s \in legs : r.market = s.market => r = s
  PROVE  InMarketOrder(legs) \in SetToSeqs(legs)
  BY MarketOrderExists DEF InMarketOrder

-----------------------------------------------------------------------------
(* What a basket earns. *)

\* The profit on each leg, once it is known which of them pay.
Earned(side, legs, won) ==
  [r \in legs |->
     (IF side = "buy" THEN (IF r \in won THEN Par ELSE 0) - r.ask
                      ELSE r.bid - (IF r \in won THEN Par ELSE 0)) - CostPerLeg]

Payouts(legs, won) == [r \in legs |-> IF r \in won THEN Par ELSE 0]

\* The costs are those of the legs.
LEMMA CostsAddUp ==
  ASSUME NEW legs, IsFiniteSet(legs), NEW each, DOMAIN each = legs,
         \A r \in legs : each[r] = CostPerLeg
  PROVE  Total(each) = Costs(legs) /\ Costs(legs) \in Int
  <1>1. CostPerLeg \in Nat
    BY SearchAssumption
  <1>2. Total(each) = CostPerLeg * Cardinality(legs) /\ Cardinality(legs) \in Nat
    BY <1>1, TotalConstant, FS_CardinalityType
  <1> QED BY <1>1, <1>2 DEF Costs

\* Bought, a basket of which a leg pays earns its edge at least.
LEMMA BoughtEarns ==
  ASSUME NEW legs, IsFiniteSet(legs), \A r \in legs : r.ask \in Nat,
         NEW won, \E r \in legs : r \in won
  PROVE  Total(Earned("buy", legs, won)) >= BuyEdge(legs)
  <1>0. Par \in Nat /\ CostPerLeg \in Nat
    BY SearchAssumption DEF Par
  <1>1. PICK earned, payout, asks, costs, net :
          /\ earned = Earned("buy", legs, won) /\ payout = Payouts(legs, won)
          /\ asks = [r \in legs |-> r.ask] /\ costs = [r \in legs |-> CostPerLeg]
          /\ net = [r \in legs |-> earned[r] + r.ask]
    OBVIOUS
  <1>2. /\ DOMAIN earned = legs /\ DOMAIN payout = legs /\ DOMAIN asks = legs
        /\ DOMAIN costs = legs /\ DOMAIN net = legs
    BY <1>1 DEF Earned, Payouts
  <1>3. \A r \in legs : payout[r] \in {0, Par} /\ (r \in won => payout[r] = Par)
    BY <1>1 DEF Payouts
  <1>4. \A r \in legs : earned[r] = payout[r] - r.ask - CostPerLeg
    BY <1>1, <1>0 DEF Earned, Payouts
  <1>5. \A r \in legs : /\ earned[r] \in Int /\ asks[r] \in Int /\ costs[r] \in Int
                        /\ net[r] = earned[r] + asks[r] /\ net[r] \in Int
                        /\ payout[r] = net[r] + costs[r]
    BY <1>0, <1>1, <1>3, <1>4
  <1>6. Total(net) = Total(earned) + Total(asks)
    BY <1>2, <1>5, TotalPlus
  <1>7. Total(payout) = Total(net) + Total(costs)
    BY <1>2, <1>5, TotalPlus
  <1>8. Total(costs) = Costs(legs) /\ Costs(legs) \in Int
    BY <1>1, <1>2, CostsAddUp
  <1>9. Total(payout) >= Par
    <2>1. \A r \in DOMAIN payout : payout[r] \in {0, Par}
      BY <1>2, <1>3
    <2>2. \E r \in DOMAIN payout : payout[r] = Par
      BY <1>2, <1>3
    <2> QED BY <1>0, <1>2, <2>1, <2>2, TotalOne
  <1>10. BuyEdge(legs) = Par - Total(asks) - Costs(legs)
    BY <1>1 DEF BuyEdge
  <1>11. Total(earned) \in Int /\ Total(asks) \in Int /\ Total(payout) \in Int /\ Total(net) \in Int
    BY TotalInt
  <1>12. Total(earned) >= BuyEdge(legs)
    BY <1>0, <1>6, <1>7, <1>8, <1>9, <1>10, <1>11
  <1> QED BY <1>1, <1>12

\* Sold, a basket of which one leg pays at most earns its edge at least.
LEMMA SoldEarns ==
  ASSUME NEW legs, IsFiniteSet(legs), \A r \in legs : r.bid \in Nat,
         NEW won, \A r, s \in legs : r \in won /\ s \in won => r = s
  PROVE  Total(Earned("sell", legs, won)) >= SellEdge(legs)
  <1>0. Par \in Nat /\ CostPerLeg \in Nat
    BY SearchAssumption DEF Par
  <1>1. PICK earned, payout, bids, costs, net :
          /\ earned = Earned("sell", legs, won) /\ payout = Payouts(legs, won)
          /\ bids = [r \in legs |-> r.bid] /\ costs = [r \in legs |-> CostPerLeg]
          /\ net = [r \in legs |-> earned[r] + payout[r]]
    OBVIOUS
  <1>2. /\ DOMAIN earned = legs /\ DOMAIN payout = legs /\ DOMAIN bids = legs
        /\ DOMAIN costs = legs /\ DOMAIN net = legs
    BY <1>1 DEF Earned, Payouts
  <1>3. \A r \in legs : payout[r] \in {0, Par} /\ (r \notin won => payout[r] = 0)
    BY <1>1 DEF Payouts
  <1>4. \A r \in legs : earned[r] = r.bid - payout[r] - CostPerLeg
    BY <1>1, <1>0 DEF Earned, Payouts
  <1>5. \A r \in legs : /\ earned[r] \in Int /\ payout[r] \in Int /\ costs[r] \in Int
                        /\ net[r] = earned[r] + payout[r] /\ net[r] \in Int
                        /\ bids[r] = net[r] + costs[r]
    BY <1>0, <1>1, <1>3, <1>4
  <1>6. Total(net) = Total(earned) + Total(payout)
    BY <1>2, <1>5, TotalPlus
  <1>7. Total(bids) = Total(net) + Total(costs)
    BY <1>2, <1>5, TotalPlus
  <1>8. Total(costs) = Costs(legs) /\ Costs(legs) \in Int
    BY <1>1, <1>2, CostsAddUp
  <1>9. Total(payout) <= Par
    <2>1. \A r \in DOMAIN payout : payout[r] \in {0, Par}
      BY <1>2, <1>3
    <2>2. \A r, s \in DOMAIN payout : payout[r] # 0 /\ payout[s] # 0 => r = s
      BY <1>2, <1>3
    <2> QED BY <1>0, <1>2, <2>1, <2>2, TotalOne
  <1>10. SellEdge(legs) = Total(bids) - Par - Costs(legs)
    BY <1>1 DEF SellEdge
  <1>11. Total(earned) \in Int /\ Total(bids) \in Int /\ Total(payout) \in Int /\ Total(net) \in Int
    BY TotalInt
  <1>12. Total(earned) >= SellEdge(legs)
    BY <1>0, <1>6, <1>7, <1>8, <1>9, <1>10, <1>11
  <1> QED BY <1>1, <1>12

-----------------------------------------------------------------------------
(* The baskets of a board. *)

\* The rows of a board are what the assumptions say.
LEMMA BoardRows ==
  ASSUME board \in Boards
  PROVE  /\ IsFiniteSet(board)
         /\ \A r \in board : /\ r.market \in Nat /\ r.bid \in PriceOrNull
                             /\ r.ask \in PriceOrNull /\ r.hours \in PriceOrNull
         /\ \A r, s \in board : r.contract = s.contract => r = s
  BY SearchAssumption, BoardAssumption

\* A binary market has one YES row.
LEMMA OneYes ==
  ASSUME board \in Boards, NEW r \in board, NEW s \in board, r.outcome = "yes",
         s.outcome = "yes", r.market = s.market, IsBinary(r.market)
  PROVE  r = s
  <1>1. PICK rows : rows = RowsOf(r.market)
    OBVIOUS
  <1>2. PICK t \in rows : t.outcome = "no"
    BY <1>1 DEF IsBinary
  <1>3. r \in rows /\ s \in rows /\ rows \subseteq board /\ Cardinality(rows) = 2
    BY <1>1 DEF RowsOf, IsBinary
  <1>4. SUFFICES ASSUME r # s PROVE FALSE
    OBVIOUS
  <1>5. IsFiniteSet({}) /\ Cardinality({}) = 0
    BY FS_EmptySet
  <1>6. IsFiniteSet({r}) /\ Cardinality({r}) = 1
    BY FS_Singleton
  <1>7. IsFiniteSet({r, s}) /\ Cardinality({r, s}) = 2
    <2>1. {r} \cup {s} = {r, s} /\ s \notin {r}
      BY <1>4
    <2>2. IsFiniteSet({r} \cup {s}) /\ Cardinality({r} \cup {s}) = 1 + 1
      BY <1>6, <2>1, FS_AddElement
    <2> QED BY <2>1, <2>2
  <1>8. {r, s} = rows
    <2>1. IsFiniteSet(rows)
      BY <1>3, BoardRows, FS_Subset
    <2>2. {r, s} \in SUBSET rows
      BY <1>3
    <2> QED BY <1>3, <1>7, <2>1, <2>2, FS_Subset
  <1>9. t = r \/ t = s
    BY <1>2, <1>8
  <1> QED BY <1>2, <1>9

\* The legs of a basket are rows of different markets.
LEMMA BasketRows ==
  ASSUME board \in Boards, NEW complex
  PROVE  /\ IsFiniteSet(Basket(complex)) /\ Basket(complex) \subseteq board
         /\ \A r \in Basket(complex) : /\ r.complex = complex /\ r.outcome = "yes"
                                       /\ IsBinary(r.market) /\ r.market \in Nat
         /\ \A r, s \in Basket(complex) : r.market = s.market => r = s
  <1>1. /\ Basket(complex) \subseteq board
        /\ \A r \in Basket(complex) : /\ r.complex = complex /\ r.outcome = "yes"
                                      /\ IsBinary(r.market)
    BY DEF Basket
  <1>2. IsFiniteSet(Basket(complex))
    BY <1>1, BoardRows, FS_Subset
  <1> QED BY <1>1, <1>2, BoardRows, OneYes

\* The proposal takes one side of all the legs, each at one place.
Names(p, legs) ==
  \E s \in SetToSeqs(legs) :
    /\ DOMAIN p.legs = DOMAIN s
    /\ \A k \in DOMAIN s : p.legs[k].side = Direction(legs) /\ RowFor(p.legs[k]) = s[k]

\* What a proposal is made of.
LEMMA ProposalIs ==
  ASSUME board \in Boards, NEW complex, NEW p, p = ProposalOf(complex)
  PROVE  /\ p.complex = complex /\ p.edge = BestEdge(Basket(complex))
         /\ p.holding = Min({HoldingHours} \cup {r.hours : r \in Basket(complex)})
         /\ Names(p, Basket(complex))
  <1>1. PICK legs : legs = Basket(complex)
    OBVIOUS
  <1>2. PICK s : s = InMarketOrder(legs)
    OBVIOUS
  <1>3. s \in SetToSeqs(legs)
    BY <1>1, <1>2, BasketRows, InMarketOrderIs
  <1>4. /\ p.complex = complex /\ p.edge = BestEdge(legs)
        /\ p.holding = Min({HoldingHours} \cup {r.hours : r \in legs})
        /\ p.legs = [k \in DOMAIN s |-> [contract |-> s[k].contract, side |-> Direction(legs)]]
    BY <1>1, <1>2 DEF ProposalOf
  <1>5. ASSUME NEW k \in DOMAIN s PROVE RowFor(p.legs[k]) = s[k]
    <2>1. PICK r : r = s[k]
      OBVIOUS
    <2>2. r \in board
      BY <1>1, <1>3, <2>1, BasketRows, SetToSeqsIs
    <2>3. p.legs[k].contract = r.contract
      BY <1>4, <2>1
    <2>4. \A q \in board : q.contract = r.contract => q = r
      BY <2>2, BoardRows
    <2> QED BY <2>1, <2>2, <2>3, <2>4 DEF RowFor
  <1>6. Names(p, legs)
    BY <1>3, <1>4, <1>5 DEF Names
  <1> QED BY <1>1, <1>4, <1>6

\* What is found are proposals of accepted baskets.
LEMMA FoundIs ==
  ASSUME NEW p \in Found
  PROVE  \E complex : /\ p = ProposalOf(complex) /\ IsAccepted(Basket(complex))
                      /\ Cardinality(Basket(complex)) >= 2 /\ IsExclusiveBasket(Basket(complex))
  BY DEF Found, Candidates

-----------------------------------------------------------------------------
(* What has been proposed was found on the board. *)

SearchInv ==
  /\ board \in Boards
  /\ proposals = <<>> \/ proposals \in BestFirst(Found)

LEMMA FoundStays == ASSUME UNCHANGED board PROVE Found' = Found
  BY DEF Found, Candidates, ProposalOf, Basket, IsBinary, RowsOf

LEMMA SearchInvariance == Spec => []SearchInv
  <1>1. Init => SearchInv
    BY DEF Init, SearchInv
  <1>2. SearchInv /\ [Next]_vars => SearchInv'
    <2> SUFFICES ASSUME SearchInv, [Next]_vars PROVE SearchInv'
      OBVIOUS
    <2>1. UNCHANGED board
      BY DEF Next, Analyze, Finished, vars
    <2>2. proposals' = proposals \/ proposals' = <<>> \/ proposals' \in BestFirst(Found)
      BY DEF Next, Analyze, Finished, vars
    <2>3. proposals' = <<>> \/ proposals' \in BestFirst(Found)
      BY <2>2 DEF SearchInv
    <2>4. proposals' = <<>> \/ proposals' \in BestFirst(Found')
      BY <2>1, <2>3, FoundStays
    <2> QED BY <2>1, <2>4 DEF SearchInv, BestFirst
  <1> QED BY <1>1, <1>2, PTL DEF Spec

\* A proposal is one of those found, and no two are the same.
LEMMA ProposalsFound ==
  ASSUME SearchInv
  PROVE  /\ \A i \in DOMAIN proposals : proposals[i] \in Found
         /\ \A i, j \in DOMAIN proposals : proposals[i] = proposals[j] => i = j
         /\ \A i, j \in DOMAIN proposals : i < j => proposals[i].edge >= proposals[j].edge
  <1>1. CASE proposals = <<>>
    BY <1>1
  <1>2. CASE proposals \in BestFirst(Found)
    BY <1>2 DEF BestFirst, SetToSeqs
  <1> QED BY <1>1, <1>2 DEF SearchInv

-----------------------------------------------------------------------------
(* The edge of a proposal is locked in. *)

\* The legs of an accepted basket have prices and times.
LEMMA AcceptedRows ==
  ASSUME board \in Boards, NEW complex, IsAccepted(Basket(complex))
  PROVE  \A r \in Basket(complex) : /\ r.bid \in Nat /\ r.ask \in Nat
                                    /\ r.hours \in Nat /\ r.hours >= MinHours
  <1>1. \A r \in Basket(complex) : r.bid # Null /\ r.ask # Null
    BY DEF IsAccepted, SpreadsFit
  <1>2. \A r \in Basket(complex) : r.hours # Null /\ r.hours >= MinHours
    BY DEF IsAccepted, FarFromResolution
  <1>3. \A r \in Basket(complex) : /\ r.bid \in PriceOrNull /\ r.ask \in PriceOrNull
                                   /\ r.hours \in PriceOrNull
    BY BoardRows, BasketRows
  <1> QED BY <1>1, <1>2, <1>3 DEF PriceOrNull

\* The profit of a proposal is that of the legs of its basket.
LEMMA ProfitIs ==
  ASSUME board \in Boards, NEW complex, IsAccepted(Basket(complex)),
         NEW p, p = ProposalOf(complex), NEW won
  PROVE  /\ Profit(p, won) = Total(Earned(Direction(Basket(complex)), Basket(complex), won))
         /\ Covered(p, won) => \E r \in Basket(complex) : r \in won
  <1>1. PICK legs, side : legs = Basket(complex) /\ side = Direction(Basket(complex))
    OBVIOUS
  <1>2. PICK s \in SetToSeqs(legs) :
          /\ DOMAIN p.legs = DOMAIN s
          /\ \A k \in DOMAIN s : p.legs[k].side = side /\ RowFor(p.legs[k]) = s[k]
    <2>1. Names(p, legs)
      BY <1>1, ProposalIs
    <2> QED BY <1>1, <2>1 DEF Names
  <1>3. /\ IsFiniteSet(legs) /\ \A r \in legs : r.bid \in Nat /\ r.ask \in Nat
    BY <1>1, AcceptedRows, BasketRows
  <1>4. /\ Cardinality(legs) \in Nat /\ DOMAIN s = 1 .. Cardinality(legs)
        /\ \A k \in DOMAIN s : s[k] \in legs
        /\ \A k, l \in DOMAIN s : s[k] = s[l] => k = l
        /\ \A r \in legs : \E k \in DOMAIN s : r = s[k]
    BY <1>2, <1>3, SetToSeqsIs
  <1>5. PICK each, earned : /\ each = [k \in DOMAIN p.legs |-> Outcome(p.legs[k], won)]
                            /\ earned = Earned(side, legs, won)
    OBVIOUS
  <1>6. DOMAIN each = DOMAIN s /\ DOMAIN earned = legs
    BY <1>2, <1>5 DEF Earned
  <1>7. IsFiniteSet(DOMAIN each) /\ IsFiniteSet(DOMAIN earned)
    BY <1>3, <1>4, <1>6, FS_Interval
  <1>8. \A r \in legs : earned[r] \in Int
    <2>1. Par \in Int /\ CostPerLeg \in Int
      BY SearchAssumption DEF Par
    <2>2. ASSUME NEW r \in legs PROVE earned[r] \in Int
      <3>1. r.bid \in Int /\ r.ask \in Int
        BY <1>3
      <3> QED BY <1>5, <2>1, <3>1 DEF Earned
    <2> QED BY <2>2
  <1>9. ASSUME NEW k \in DOMAIN s PROVE each[k] = earned[s[k]]
    <2>1. p.legs[k].side = side /\ RowFor(p.legs[k]) = s[k] /\ s[k] \in legs
      BY <1>2, <1>4
    <2> QED BY <1>2, <1>5, <2>1 DEF Earned, Outcome
  <1>10. \A k \in DOMAIN each : /\ s[k] \in DOMAIN earned /\ each[k] = earned[s[k]]
                                /\ each[k] \in Int
    BY <1>4, <1>6, <1>8, <1>9
  <1>11. Total(each) = Total(earned)
    <2>1. \A k, l \in DOMAIN each : s[k] = s[l] => k = l
      BY <1>4, <1>6
    <2>2. \A r \in DOMAIN earned : \E k \in DOMAIN each : r = s[k]
      BY <1>4, <1>6
    <2> QED BY <1>7, <1>10, <2>1, <2>2, TotalReindex
  <1>12. Profit(p, won) = Total(each)
    BY <1>5 DEF Profit
  <1>13. Covered(p, won) => \E r \in legs : r \in won
    BY <1>2, <1>4 DEF Covered
  <1> QED BY <1>1, <1>5, <1>11, <1>12, <1>13

\* Of an exclusive basket one leg pays at most.
LEMMA OnePays ==
  ASSUME board \in Boards, NEW complex, IsExclusiveBasket(Basket(complex)),
         NEW won \in Resolutions
  PROVE  \A r, s \in Basket(complex) : r \in won /\ s \in won => r = s
  <1> TAKE r, s \in Basket(complex)
  <1>1. /\ r \in board /\ s \in board /\ r.outcome = "yes" /\ s.outcome = "yes"
        /\ r.complex = s.complex
    BY BasketRows
  <1>2. /\ r.question # Null /\ s.question # Null
        /\ r.question.template = s.question.template
        /\ r.question.entity = s.question.entity => r = s
    BY DEF IsExclusiveBasket
  <1>3. IF r.question.entity = s.question.entity THEN r \in won <=> s \in won
        ELSE ~(r \in won /\ s \in won)
    BY <1>1, <1>2 DEF Resolutions
  <1> QED BY <1>2, <1>3

\* A proposal that is found earns its edge.
LEMMA FoundEarns ==
  ASSUME board \in Boards, NEW p \in Found, NEW won \in Resolutions,
         p.legs[1].side = "sell" \/ Covered(p, won)
  PROVE  Profit(p, won) >= p.edge
  <1>1. PICK complex : /\ p = ProposalOf(complex) /\ IsAccepted(Basket(complex))
                       /\ Cardinality(Basket(complex)) >= 2 /\ IsExclusiveBasket(Basket(complex))
    BY FoundIs
  <1>2. PICK legs : legs = Basket(complex)
    OBVIOUS
  <1>3. IsFiniteSet(legs) /\ \A r \in legs : r.bid \in Nat /\ r.ask \in Nat
    BY <1>1, <1>2, AcceptedRows, BasketRows
  <1>4. /\ Profit(p, won) = Total(Earned(Direction(legs), legs, won))
        /\ Covered(p, won) => \E r \in legs : r \in won
    BY <1>1, <1>2, ProfitIs
  <1>5. p.edge = BestEdge(legs) /\ p.legs[1].side = Direction(legs)
    <2>1. PICK s \in SetToSeqs(legs) :
            /\ DOMAIN p.legs = DOMAIN s
            /\ \A k \in DOMAIN s : p.legs[k].side = Direction(legs)
      <3>1. Names(p, legs)
        BY <1>1, <1>2, ProposalIs
      <3> QED BY <3>1 DEF Names
    <2>2. DOMAIN s = 1 .. Cardinality(legs) /\ Cardinality(legs) \in Nat
      BY <1>3, SetToSeqsIs
    <2>3. 1 \in DOMAIN s
      BY <1>1, <1>2, <2>2
    <2>4. p.edge = BestEdge(legs)
      BY <1>1, <1>2, ProposalIs
    <2> QED BY <2>1, <2>3, <2>4
  <1>6. CASE BuyEdge(legs) >= SellEdge(legs)
    <2>1. Direction(legs) = "buy" /\ BestEdge(legs) = BuyEdge(legs)
      BY <1>6 DEF Direction, BestEdge, MaxOf
    <2>2. \E r \in legs : r \in won
      BY <1>4, <1>5, <2>1
    <2>3. Total(Earned("buy", legs, won)) >= BuyEdge(legs)
      BY <1>3, <2>2, BoughtEarns
    <2> QED BY <1>4, <1>5, <2>1, <2>3
  <1>7. CASE ~(BuyEdge(legs) >= SellEdge(legs))
    <2>1. Direction(legs) = "sell" /\ BestEdge(legs) = SellEdge(legs)
      BY <1>7 DEF Direction, BestEdge, MaxOf
    <2>2. \A r, s \in legs : r \in won /\ s \in won => r = s
      BY <1>1, <1>2, OnePays
    <2>3. Total(Earned("sell", legs, won)) >= SellEdge(legs)
      BY <1>3, <2>2, SoldEarns
    <2> QED BY <1>4, <1>5, <2>1, <2>3
  <1> QED BY <1>6, <1>7

\* The edge a proposal states is what equal sizes of its legs earn at least,
\* after costs, however the event resolves when they are sold, and if one of
\* the named outcomes comes true when they are bought.
THEOREM EdgesAreLocked == Spec => []EdgeIsLocked
  <1>1. SearchInv => EdgeIsLocked
    <2> SUFFICES ASSUME SearchInv, NEW i \in DOMAIN proposals, NEW won \in Resolutions,
                        proposals[i].legs[1].side = "sell" \/ Covered(proposals[i], won)
                 PROVE  Profit(proposals[i], won) >= proposals[i].edge
      BY DEF EdgeIsLocked
    <2>1. board \in Boards
      BY DEF SearchInv
    <2>2. PICK p : p = proposals[i]
      OBVIOUS
    <2>3. p \in Found
      BY <2>2, ProposalsFound
    <2> QED BY <2>1, <2>2, <2>3, FoundEarns
  <1> QED BY <1>1, SearchInvariance, PTL

-----------------------------------------------------------------------------
(* What is proposed can be planned. *)

\* The holding time is the default, or the time of one of the legs.
LEMMA HoldingIs ==
  ASSUME NEW default \in Nat, NEW legs, IsFiniteSet(legs), \A r \in legs : r.hours \in Nat
  PROVE  Min({default} \cup {r.hours : r \in legs}) \in {default} \cup {r.hours : r \in legs}
  <1> DEFINE Times(T) == {default} \cup {r.hours : r \in T}
             F == {T \in SUBSET legs : \E m \in Times(T) : \A x \in Times(T) : m <= x}
  <1>1. {} \in F
    <2>1. Times({}) = {default}
      OBVIOUS
    <2> HIDE DEF Times
    <2> QED BY <2>1
  <1>2. ASSUME NEW T \in SUBSET legs, NEW q \in T, T \ {q} \in F PROVE T \in F
    <2>1. Times(T) = Times(T \ {q}) \cup {q.hours}
      OBVIOUS
    <2>2. q.hours \in Nat /\ Times(T) \subseteq Nat
      OBVIOUS
    <2> HIDE DEF Times
    <2>3. PICK m \in Times(T \ {q}) : \A x \in Times(T \ {q}) : m <= x
      BY <1>2
    <2>4. m \in Nat
      BY <2>1, <2>2, <2>3
    <2>5. CASE m <= q.hours
      <3>1. \A x \in Times(T) : m <= x
        BY <2>1, <2>3, <2>5
      <3> QED BY <2>1, <2>3, <3>1
    <2>6. CASE ~(m <= q.hours)
      <3>1. \A x \in Times(T) : q.hours <= x
        <4>1. ASSUME NEW x \in Times(T) PROVE q.hours <= x
          <5>1. x \in Nat /\ (x = q.hours \/ m <= x)
            BY <2>1, <2>2, <2>3, <4>1
          <5> QED BY <2>2, <2>4, <2>6, <5>1
        <4> QED BY <4>1
      <3> QED BY <2>1, <3>1
    <2> QED BY <2>5, <2>6
  <1>3. legs \in F
    <2> HIDE DEF F
    <2> QED BY <1>1, <1>2, SetInduction
  <1>4. \E m \in Times(legs) : \A x \in Times(legs) : m <= x
    BY <1>3
  <1> HIDE DEF Times
  <1>5. Min(Times(legs)) \in Times(legs)
    BY <1>4 DEF Min
  <1> QED BY <1>5 DEF Times

\* A proposal that is found has two legs at least, of one side, a sufficient
\* edge and time, and legs of different markets that are those of its complex.
LEMMA FoundPlannable ==
  ASSUME board \in Boards, NEW p \in Found
  PROVE  /\ Len(p.legs) >= 2
         /\ \A k \in DOMAIN p.legs : p.legs[k].side = p.legs[1].side
         /\ p.edge >= MinEdge /\ p.holding >= MinOf(MinHours, HoldingHours)
         /\ p = ProposalOf(p.complex)
         /\ \A k \in DOMAIN p.legs : RowFor(p.legs[k]) \in Basket(p.complex)
         /\ \A k, l \in DOMAIN p.legs :
              RowFor(p.legs[k]).market = RowFor(p.legs[l]).market => k = l
  <1>1. PICK complex : /\ p = ProposalOf(complex) /\ IsAccepted(Basket(complex))
                       /\ Cardinality(Basket(complex)) >= 2 /\ IsExclusiveBasket(Basket(complex))
    BY FoundIs
  <1>2. PICK legs : legs = Basket(complex)
    OBVIOUS
  <1>3. PICK s \in SetToSeqs(legs) :
          /\ DOMAIN p.legs = DOMAIN s
          /\ \A k \in DOMAIN s : p.legs[k].side = Direction(legs) /\ RowFor(p.legs[k]) = s[k]
    <2>1. Names(p, legs)
      BY <1>1, <1>2, ProposalIs
    <2> QED BY <2>1 DEF Names
  <1>4. /\ IsFiniteSet(legs) /\ \A r \in legs : r.hours \in Nat /\ r.hours >= MinHours
        /\ \A r, q \in legs : r.market = q.market => r = q
    BY <1>1, <1>2, AcceptedRows, BasketRows
  <1>5. /\ Cardinality(legs) \in Nat /\ DOMAIN s = 1 .. Cardinality(legs)
        /\ \A k \in DOMAIN s : s[k] \in legs
        /\ \A k, l \in DOMAIN s : s[k] = s[l] => k = l
    BY <1>3, <1>4, SetToSeqsIs
  <1>6. Len(p.legs) >= 2 /\ 1 \in DOMAIN s
    BY <1>1, <1>2, <1>3, <1>5
  <1>7. /\ p.complex = complex /\ p.edge = BestEdge(legs)
        /\ p.holding = Min({HoldingHours} \cup {r.hours : r \in legs})
    BY <1>1, <1>2, ProposalIs
  <1>8. p.edge >= MinEdge
    BY <1>1, <1>2, <1>7 DEF IsAccepted
  <1>9. p.holding >= MinOf(MinHours, HoldingHours)
    <2>1. HoldingHours \in Nat /\ MinHours \in Nat
      BY SearchAssumption DEF MinHours
    <2>2. p.holding \in {HoldingHours} \cup {r.hours : r \in legs}
      BY <1>4, <1>7, <2>1, HoldingIs
    <2>3. p.holding \in Nat /\ (p.holding = HoldingHours \/ p.holding >= MinHours)
      BY <1>4, <2>1, <2>2
    <2> QED BY <2>1, <2>3 DEF MinOf
  <1>10. ASSUME NEW k \in DOMAIN p.legs, NEW l \in DOMAIN p.legs,
                RowFor(p.legs[k]).market = RowFor(p.legs[l]).market
         PROVE  k = l
    <2>1. s[k] \in legs /\ s[l] \in legs /\ s[k].market = s[l].market
      BY <1>3, <1>5, <1>10
    <2>2. s[k] = s[l]
      BY <1>4, <2>1
    <2> QED BY <1>3, <1>5, <2>2
  <1> QED BY <1>1, <1>2, <1>3, <1>5, <1>6, <1>7, <1>8, <1>9, <1>10

\* What the decision cycle takes for granted of proposals: a basket names each
\* contract and each event once over all proposals, its legs take one side, its
\* edge clears the minimum and nothing resolves before 4 hours; best edge first.
THEOREM BasketsArePlannable == Spec => []BasketsPlannable
  <1>1. ASSUME SearchInv PROVE BasketsPlannable
    <2>1. board \in Boards
      BY <1>1 DEF SearchInv
    <2>2. /\ \A i \in DOMAIN proposals : proposals[i] \in Found
          /\ \A i, j \in DOMAIN proposals : proposals[i] = proposals[j] => i = j
          /\ \A i, j \in DOMAIN proposals : i < j => proposals[i].edge >= proposals[j].edge
      BY <1>1, ProposalsFound
    <2>3. ASSUME NEW i \in DOMAIN proposals, NEW j \in DOMAIN proposals,
                 proposals[i].complex = proposals[j].complex
          PROVE  i = j
      <3>1. /\ proposals[i] = ProposalOf(proposals[i].complex)
            /\ proposals[j] = ProposalOf(proposals[j].complex)
        BY <2>1, <2>2, FoundPlannable
      <3> QED BY <2>2, <2>3, <3>1
    <2>4. ASSUME NEW i \in DOMAIN proposals, NEW j \in DOMAIN proposals,
                 NEW k \in DOMAIN proposals[i].legs, NEW l \in DOMAIN proposals[j].legs,
                 RowFor(proposals[i].legs[k]).market = RowFor(proposals[j].legs[l]).market
          PROVE  i = j /\ k = l
      <3>1. PICK p \in Found, q \in Found : p = proposals[i] /\ q = proposals[j]
        BY <2>2
      <3>2. PICK r, s : r = RowFor(p.legs[k]) /\ s = RowFor(q.legs[l])
        OBVIOUS
      <3>3. r \in Basket(p.complex) /\ s \in Basket(q.complex)
        <4>1. p \in Found /\ q \in Found
          BY <2>2, <3>1
        <4>2. k \in DOMAIN p.legs /\ l \in DOMAIN q.legs
          BY <3>1
        <4> QED BY <2>1, <3>2, <4>1, <4>2, FoundPlannable
      <3>4. /\ r \in board /\ r.outcome = "yes" /\ r.complex = p.complex /\ IsBinary(r.market)
            /\ s \in board /\ s.outcome = "yes" /\ s.complex = q.complex
        BY <2>1, <3>3, BasketRows
      <3>5. r.market = s.market
        BY <2>4, <3>1, <3>2
      <3>6. r = s
        BY <2>1, <3>4, <3>5, OneYes
      <3>7. i = j
        BY <2>3, <3>1, <3>4, <3>6
      <3>8. k = l
        <4>1. p \in Found /\ k \in DOMAIN p.legs /\ l \in DOMAIN p.legs
          BY <2>2, <3>1, <3>7
        <4>2. RowFor(p.legs[k]).market = RowFor(p.legs[l]).market
          BY <2>4, <3>1, <3>7
        <4> QED BY <2>1, <4>1, <4>2, FoundPlannable
      <3> QED BY <3>7, <3>8
    <2>5. ASSUME NEW i \in DOMAIN proposals
          PROVE  /\ Len(proposals[i].legs) >= 2
                 /\ \A k \in DOMAIN proposals[i].legs :
                      proposals[i].legs[k].side = proposals[i].legs[1].side
                 /\ proposals[i].edge >= MinEdge
                 /\ proposals[i].holding >= MinOf(MinHours, HoldingHours)
      <3>1. PICK p : p = proposals[i]
        OBVIOUS
      <3>2. p \in Found
        BY <2>2, <3>1
      <3> QED BY <2>1, <3>1, <3>2, FoundPlannable
    <2> QED BY <2>2, <2>3, <2>4, <2>5 DEF BasketsPlannable
  <1>2. SearchInv => BasketsPlannable
    BY <1>1
  <1> QED BY <1>2, SearchInvariance, PTL
=============================================================================
