-------------------------------- MODULE Money --------------------------------
(***************************************************************************)
(* Prices, sizes and dollars, as trade-core and the paper broker compute   *)
(* with them.                                                              *)
(*                                                                         *)
(* Prices and sizes are integers on a grid.  A notional (price * size) is  *)
(* an integer too; UnitsPerCent of them make one cent, so that roundUsd    *)
(* really rounds.  Stored dollars are whole cents, as toFixed(2) leaves    *)
(* them.                                                                   *)
(***************************************************************************)
EXTENDS Integers, FiniteSetsExt

CONSTANTS
  Null,          \* a missing price or depth
  UnitsPerCent   \* price-units x size-units in one cent

ASSUME MoneyAssumption ==
  /\ Null \notin Int
  /\ UnitsPerCent \in Nat \ {0}

Sides == {"buy", "sell"}
PriceOrNull == Nat \cup {Null}

\* What market-state publishes of a contract and trading uses.
Quote == [bid : PriceOrNull, ask : PriceOrNull,
          bidSize : PriceOrNull, askSize : PriceOrNull]

\* left ?? right
Coalesce(left, right) == IF left # Null THEN left ELSE right

MinOf(a, b) == IF a <= b THEN a ELSE b
MaxOf(a, b) == IF a >= b THEN a ELSE b
Abs(n) == MaxOf(n, -n)
Sign(n) == IF n > 0 THEN 1 ELSE IF n < 0 THEN -1 ELSE 0

\* Division to the nearest integer, halves away from zero (toFixed).
RoundDiv(n, d) ==
  IF n >= 0 THEN (2 * n + d) \div (2 * d) ELSE -((2 * (-n) + d) \div (2 * d))

RoundUsd(notional) == RoundDiv(notional, UnitsPerCent)

\* The sum of a function's values.  It is always an integer; saying so spares
\* the provers an induction on the domain.
Total(f) == IF SumFunction(f) \in Int THEN SumFunction(f) ELSE 0
=============================================================================
