--------------------------- MODULE StatusMachines ---------------------------
(***************************************************************************)
(* The four status machines that packages/shared exports and that every    *)
(* service checks before it writes a status column.                        *)
(***************************************************************************)
EXTENDS Sequences, Naturals

OrderStatus ==
  {"PLACED", "ACCEPTED", "PREPARING", "READY", "PICKED_UP", "DELIVERED", "CANCELLED"}

RideStatus ==
  {"REQUESTED", "ASSIGNED", "ARRIVED", "IN_RIDE", "COMPLETED", "CANCELLED"}

CourierStatus ==
  {"REQUESTED", "ASSIGNED", "ARRIVED", "IN_TRANSIT", "COMPLETED", "CANCELLED"}

HomeServiceStatus ==
  {"REQUESTED", "ASSIGNED", "ARRIVED", "IN_SERVICE", "COMPLETED", "CANCELLED"}

\* A transition map is a set of pairs <<from, to>>: the arrays of the source
\* are only ever asked whether they include a status.
orderStatusTransitions ==
  { <<"PLACED", "ACCEPTED">>, <<"ACCEPTED", "PREPARING">>,
    <<"PREPARING", "READY">>, <<"READY", "PICKED_UP">>, <<"PICKED_UP", "DELIVERED">> }
  \cup ({"PLACED", "ACCEPTED", "PREPARING", "READY"} \X {"CANCELLED"})

\* The three booking machines differ only in the name of the busy status.
BookingTransitions(busy) ==
  { <<"REQUESTED", "ASSIGNED">>, <<"ASSIGNED", "ARRIVED">>,
    <<"ARRIVED", busy>>, <<busy, "COMPLETED">> }
  \cup ({"REQUESTED", "ASSIGNED", "ARRIVED"} \X {"CANCELLED"})

rideStatusTransitions == BookingTransitions("IN_RIDE")
courierStatusTransitions == BookingTransitions("IN_TRANSIT")
homeServiceStatusTransitions == BookingTransitions("IN_SERVICE")

canTransition(transitions, from, to) == <<from, to>> \in transitions

\* A recorded history that starts at first and takes only allowed steps.
LegalPath(transitions, first, path) ==
  /\ path # <<>>
  /\ path[1] = first
  /\ \A i \in 1 .. Len(path) - 1 : canTransition(transitions, path[i], path[i + 1])

=============================================================================
