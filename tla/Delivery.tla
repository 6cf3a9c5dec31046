------------------------------- MODULE Delivery -------------------------------
(***************************************************************************)
(* What the outbox promises: an event that was published reaches each of   *)
(* its channels at least once before it is settled, and then stays         *)
(* settled.  Nothing is delivered that was not published.                  *)
(***************************************************************************)
CONSTANTS
  Events,
  Kinds,
  Targets,  \* of each kind, the channels its events are for
  None      \* not published yet

VARIABLES
  published,  \* of each event, its kind, or None
  delivered,  \* pairs of an event and a channel it has reached
  settled     \* events that are done with

Init ==
  /\ published = [e \in Events |-> None]
  /\ delivered = {}
  /\ settled = {}

Publish(e, kind) ==
  /\ published[e] = None
  /\ published' = [published EXCEPT ![e] = kind]
  /\ UNCHANGED <<delivered, settled>>

\* Again and again if need be.
Deliver(e, channel) ==
  /\ published[e] # None
  /\ delivered' = delivered \cup {<<e, channel>>}
  /\ UNCHANGED <<published, settled>>

Settle(e) ==
  /\ published[e] # None
  /\ \A channel \in Targets[published[e]] : <<e, channel>> \in delivered
  /\ settled' = settled \cup {e}
  /\ UNCHANGED <<published, delivered>>

Next ==
  \E e \in Events :
    \/ \E kind \in Kinds : Publish(e, kind)
    \/ published[e] # None /\ \E channel \in Targets[published[e]] : Deliver(e, channel)
    \/ Settle(e)

Spec == Init /\ [][Next]_<<published, delivered, settled>>
=============================================================================
