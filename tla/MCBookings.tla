------------------------------ MODULE MCBookings ------------------------------
(* Instances of Bookings for TLC. *)
EXTENDS Bookings, TLC

CONSTANTS b1, p1, p2, r1, r2, u1

\* A single booking of any kind.
AnyKind == b1 :> Profile

Interchangeable == Permutations(Partners) \cup Permutations(Requests)
=============================================================================
