----------------------------- MODULE MCDelivery -----------------------------
(* A subscriber, another entry that Send iterates over, and two callbacks. *)
EXTENDS Delivery
=============================================================================
