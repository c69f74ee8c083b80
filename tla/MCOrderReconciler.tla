------------------------- MODULE MCOrderReconciler -------------------------
(***************************************************************************)
(* A small instance of OrderReconciler: two orders of three units.         *)
(***************************************************************************)
EXTENDS OrderReconciler

TwoOrders == {"a", "b"}
OneContract == {"c"}
OnePlan == {"p"}
=============================================================================
