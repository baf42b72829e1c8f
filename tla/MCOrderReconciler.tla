--------------------------- MODULE MCOrderReconciler ---------------------------
(***************************************************************************)
(* An instance of the order reconciler for TLC: two orders of one venue.   *)
(***************************************************************************)
EXTENDS OrderReconciler

MCOrders == {"testnet-1", "testnet-2"}
MCIds == {"1", "2"}
MCIdOf == [o \in MCOrders |-> IF o = "testnet-1" THEN "1" ELSE "2"]
=============================================================================
