-------------------------- MODULE MC_PendingOrders --------------------------
(* Continuations of one order as model values.                             *)
EXTENDS PendingOrders
=============================================================================
