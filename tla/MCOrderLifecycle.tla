--------------------------- MODULE MCOrderLifecycle ---------------------------
(* Instances of OrderLifecycle for TLC. *)
EXTENDS OrderLifecycle, TLC

CONSTANTS o1, o2, p1, p2, r1, r2, s1

Kind(service, method, earns) == [service |-> service, method |-> method, earns |-> earns]
CashGrocery == {Kind("GROCERY", "CASH", TRUE)}
CashAndOnline == CashGrocery \cup {Kind("FOOD", "ONLINE", TRUE)}
PharmacyAndWallet == {Kind("PHARMACY", "ONLINE", FALSE), Kind("FOOD", "WALLET", TRUE)}

Interchangeable ==
  Permutations(Orders) \cup Permutations(Partners) \cup Permutations(Requests)
=============================================================================
