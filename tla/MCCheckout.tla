------------------------------ MODULE MCCheckout ------------------------------
(* Instances of Checkout for TLC. *)
EXTENDS Checkout

CONSTANTS c1, c2, k1, k2, i1, r1, r2
=============================================================================
