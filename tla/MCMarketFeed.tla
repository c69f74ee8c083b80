---------------------------- MODULE MCMarketFeed ----------------------------
(***************************************************************************)
(* A small instance of MarketFeed: two contracts, of which a window may    *)
(* track both or none, and price changes that name both.              *)
(***************************************************************************)
EXTENDS MarketFeed, TLC

CONSTANTS c, d

TwoContracts == {c, d}
AnyUniverse == {{}, {c, d}}
BooksAndChanges ==
  {[kind |-> "book", assets |-> {c}], [kind |-> "book", assets |-> {d}],
   [kind |-> "price_change", assets |-> {c, d}]}
=============================================================================
