------------------------------ MODULE MCPartners ------------------------------
(* Instances of Partners for TLC. *)
EXTENDS Partners, TLC

CONSTANTS t1, t2, o1, o2, r1, r2

Symmetry == Permutations({t1, t2}) \cup Permutations({o1, o2}) \cup Permutations({r1, r2})
=============================================================================
