------------------------------ MODULE MCPayments ------------------------------
(* Instances of Payments for TLC. *)
EXTENDS Payments, TLC

CONSTANTS x1, x2, x3, k1, q1, p1, p2, f1, r1, r2, w1, c1, d1

Limits(creates, retries, crashes, failures, expiries, dashboard, declines, updates) ==
  [ creates |-> creates, retries |-> retries, crashes |-> crashes, failures |-> failures,
    expiries |-> expiries, dashboard |-> dashboard, declines |-> declines,
    updates |-> updates ]

Replayed == Limits(2, 1, 1, 1, 1, 0, 1, 1)
Retried == Limits(2, 0, 0, 1, 0, 1, 1, 1)
Crashing == Limits(1, 1, 1, 0, 0, 0, 0, 0)

Interchangeable ==
  Permutations(Requests) \cup Permutations(PaymentIds) \cup Permutations(ProviderOrders)
    \cup Permutations(RefundIds) \cup Permutations(Writers)
=============================================================================
