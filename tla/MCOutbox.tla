------------------------------- MODULE MCOutbox -------------------------------
(* Instances of Outbox for TLC. *)
EXTENDS Outbox, TLC

CONSTANTS w1, w2, s1, s2

Limits(stores, notices, rebuilds, crashes, expiries) ==
  [ edits |-> stores, notices |-> notices, rebuilds |-> rebuilds, crashes |-> crashes,
    expiries |-> expiries ]

\* Two edits of the store; two notices; an edit next to a rebuild; and one
\* event of either kind under a crash and a lock that expires.
Scenarios ==
  { Limits(2, 0, 0, 0, 0), Limits(0, 2, 0, 0, 0), Limits(1, 0, 1, 0, 0),
    Limits(0, 1, 0, 1, 1), Limits(0, 0, 1, 1, 1) }
=============================================================================
