-------------------------- MODULE MCExecutionWorker --------------------------
(***************************************************************************)
(* Small instances of ExecutionWorker.                                     *)
(***************************************************************************)
EXTENDS WorkerAccount

LegOf(contract, side, limit, size) ==
  [contract |-> contract, side |-> side, limit |-> limit, size |-> size]
QuoteOf(bid, ask, bidSize, askSize) ==
  [bid |-> bid, ask |-> ask, bidSize |-> bidSize, askSize |-> askSize]
Basket(style, legs) == [style |-> style, complex |-> "k", legs |-> legs]

\* Thin and wide, deep and one-sided, and an empty book.
ThinDeepEmpty == {QuoteOf(1, 2, 2, 2), QuoteOf(2, 3, Null, Null), QuoteOf(Null, Null, Null, Null)}
ThinDeep == {QuoteOf(1, 2, 2, 2), QuoteOf(2, 3, Null, Null)}

BuyOne == {Basket("passive_then_cross", <<LegOf("c", "buy", 2, 4)>>)}
BuyOrSellOne == BuyOne \cup {Basket("passive_then_cross", <<LegOf("c", "sell", 2, 4)>>)}
BuyTwo == {Basket("passive_then_cross", <<LegOf("c", "buy", 2, 4), LegOf("d", "buy", 1, 4)>>)}
BuyTwoOrSell == BuyTwo \cup {Basket("cross_only", <<LegOf("c", "sell", 2, 4)>>)}
=============================================================================
