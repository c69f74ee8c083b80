-------------------------- MODULE MCDecisionCycle --------------------------
(***************************************************************************)
(* Small instances of DecisionCycle.                                       *)
(***************************************************************************)
EXTENDS DecisionCycle, TLC

Basket(sleeve, complex, contracts, side, hint, edge) ==
  [sleeve |-> sleeve, complex |-> complex, hint |-> hint, edge |-> edge, holding |-> 5,
   legs |-> [k \in DOMAIN contracts |-> [contract |-> contracts[k], side |-> side]]]
State(bid, ask, size) ==
  [bid |-> bid, ask |-> ask, bidSize |-> size, askSize |-> size, hours |-> Null]

BuyBoth == Basket("x", "k", <<"c", "d">>, "buy", 3, 2)
SellBoth == Basket("x", "m", <<"e", "f">>, "sell", 0, 2)
OtherSleeve == Basket("y", "n", <<"g", "h">>, "sell", 0, 2)

SameOrOtherSleeve == {{}, {BuyBoth, SellBoth}, {OtherSleeve}}
CycleSymmetry == Permutations(Cycles)

\* Narrow enough to rest in, and too wide; neither deep enough for a whole slice.
TwoBooks == {State(1, 2, 3), State(0, 2, 3)}

AllSleeves == {"x", "y"}
AllComplexes == {"a", "k", "m", "n"}
AllContracts == {"c", "d", "e", "f", "g", "h"}
=============================================================================
