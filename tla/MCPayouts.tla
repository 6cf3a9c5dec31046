------------------------------- MODULE MCPayouts -------------------------------
(* Instances of Payouts for TLC. *)
EXTENDS Payouts

CONSTANTS u1, u2, k1, r1, r2
=============================================================================
