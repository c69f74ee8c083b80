--------------------------- MODULE MCAccountFeed ---------------------------
(***************************************************************************)
(* A small instance of AccountFeed: two outcomes of one event, which share *)
(* a position row, and a contract of another event.                        *)
(***************************************************************************)
EXTENDS AccountFeed

ThreeContracts == {"yes", "no", "other"}
TwoEvents == {"election", "match"}
EventOfContract == [k \in ThreeContracts |-> IF k = "other" THEN "match" ELSE "election"]
SomePositions == {<<>>, <<"yes", "other">>, <<"yes", "no">>}
=============================================================================
