------------------------------- MODULE Bookings -------------------------------
(***************************************************************************)
(* Rides, courier jobs and home-service jobs: the handlers of              *)
(* rides.service.ts, which write the three verticals out one by one.  Here *)
(* they share a spine, and a booking's service says where they differ.     *)
(*                                                                         *)
(* As in OrderLifecycle, a handler is a Read step, which copies the row    *)
(* and passes the checks, and a Commit step, which writes what it computed *)
(* from the copy over whatever the row holds by then; only accepting is    *)
(* one guarded UPDATE.  cancelRide reads twice: the fee comes from a read  *)
(* before the transaction, the rest from one inside it.                    *)
(*                                                                         *)
(* Left out: handlers that reject a call for the role, approval, vehicle,  *)
(* category or one-time code, which change nothing; offers to partners;    *)
(* fares other than one amount; the outbox event that goes with each       *)
(* write; the rated flag, which is the customer's review; the cached       *)
(* balance, which nothing here reads, and the ledger rows of the payment   *)
(* webhooks (Payments models both).                                        *)
(***************************************************************************)
EXTENDS StatusMachines, FiniteSets, FiniteSetsExt

CONSTANTS
  Bookings,    \* bookings of one customer, whom another user may have referred
  Partners,    \* approved, online drivers, couriers and professionals
  Requests,    \* API requests that can be in flight together
  Customer,    \* the customer
  NoPartner,   \* driverId, deliveryPartnerId or professionalId is null
  NoBooking,   \* no such row yet
  Idle,        \* no request in the slot
  Profiles,    \* of each booking, the kinds considered
  Fare, Fee,   \* estimatedFare, and 20% of it or 50, whichever is less
  Deposit,     \* the customer's wallet balance at first
  MaxRequests, \* bounds: requests that start in a behaviour,
  MaxOffers    \* ... and payment orders made at the provider

Services == {"RIDE", "COURIER", "HOME_SERVICE"}
Methods == {"WALLET", "CASH", "ONLINE"}
PaymentStatus == {"PENDING", "PAID", "FAILED", "REFUNDED", "CANCELLED"}
BookingStatus == RideStatus \cup CourierStatus \cup HomeServiceStatus
Sides == {"CUSTOMER", "PARTNER"}

\* earns: the loyalty points of the fare do not round to 0.
Profile == [service : Services, method : Methods, earns : BOOLEAN]

ASSUME ProfilesAssumption == Profiles \in [Bookings -> SUBSET Profile]
ASSUME NoPartnerAssumption == NoPartner \notin Partners
ASSUME AmountsAssumption ==
  Fare \in Nat /\ Fee \in Nat /\ Deposit \in Nat /\ 0 < Fee /\ Fee < Fare
ASSUME BoundsAssumption == MaxRequests \in Nat /\ MaxOffers \in Nat

\* finalFare is 0 while it is null.
Row == [ status : BookingStatus, partner : Partners \cup {NoPartner}, pay : PaymentStatus,
         finalFare : {0, Fee, Fare}, profile : Profile ]

\* A request between its reads and its write: the status it will write, or
\* RATE; the row it read; the fee, or who rates and the count read.
Handlers == (BookingStatus \ {"REQUESTED", "ASSIGNED"}) \cup {"RATE"}
InFlight == [ handler : Handlers, inTransaction : BOOLEAN, booking : Bookings, seen : Row,
              fee : {0, Fee}, side : Sides, count : Nat ]

ASSUME NoBookingAssumption == NoBooking \notin Row
ASSUME IdleAssumption == Idle \notin InFlight

VARIABLES
  booking,    \* the Ride, CourierBooking and HomeServiceBooking tables
  request,    \* requests in flight
  ledger,     \* of each booking: DEBITs of the customer, CREDITs of the partner
              \* (both sums) and LOYALTY entries
  referral,   \* the customer's Referral row, if any, and the referrer's PROMOTION entries
  review,     \* Review rows: booking and author's side
  ratings,    \* User.ratingCount
  offered,    \* provider: its orders, of a booking and an amount
  captured,   \* history: bookings of which a payment was captured
  overwrote,  \* history: bookings written from a copy whose status had moved on
  started     \* requests started (bounded by MaxRequests)

money == <<ledger, referral>>
opinions == <<review, ratings>>
online == <<offered, captured>>
database == <<booking, money, opinions, overwrote>>
vars == <<database, request, online, started>>

TypeOK ==
  /\ booking \in [Bookings -> Row \cup {NoBooking}]
  /\ request \in [Requests -> InFlight \cup {Idle}]
  /\ ledger \in [Bookings -> [debit : Nat, credit : Nat, loyalty : Nat]]
  /\ referral \in [exists : BOOLEAN, credited : BOOLEAN, entries : Nat]
  /\ review \subseteq Bookings \X Sides
  /\ ratings \in [Partners \cup {Customer} -> Nat]
  /\ offered \subseteq Bookings \X {Fee, Fare}
  /\ captured \subseteq Bookings
  /\ overwrote \subseteq Bookings
  /\ started \in Nat

Init ==
  /\ booking = [b \in Bookings |-> NoBooking]
  /\ request = [r \in Requests |-> Idle]
  /\ ledger = [b \in Bookings |-> [debit |-> 0, credit |-> 0, loyalty |-> 0]]
  /\ \E exists \in BOOLEAN :
       referral = [exists |-> exists, credited |-> FALSE, entries |-> 0]
  /\ review = {}
  /\ ratings = [u \in Partners \cup {Customer} |-> 0]
  /\ offered = {} /\ captured = {} /\ overwrote = {}
  /\ started = 0

Exists(b) == booking[b] # NoBooking

Busy(service) ==
  CASE service = "RIDE" -> "IN_RIDE"
    [] service = "COURIER" -> "IN_TRANSIT"
    [] service = "HOME_SERVICE" -> "IN_SERVICE"

\* Mutants (named Wrong...) are plausible bugs of the definition that follows;
\* no specification uses them.
WrongTransitionAllowed(row, to) ==
  \/ row.status = to
  \/ canTransition(BookingTransitions(Busy(row.profile.service)), row.status, to)

assertTransitionAllowed(row, to) ==
  canTransition(BookingTransitions(Busy(row.profile.service)), row.status, to)
-----------------------------------------------------------------------------
\* The row that a create handler inserts.
NewBooking(profile) ==
  [ status |-> "REQUESTED", partner |-> NoPartner, pay |-> "PENDING", finalFare |-> 0,
    profile |-> profile ]

Spent == MapThenSumSet(LAMBDA b : ledger[b].debit, Bookings)

\* createRide, createCourier, createHomeService.  A wallet booking needs the
\* balance, of which nothing is set aside.
create(b, profile) ==
  /\ ~Exists(b)
  /\ profile.method = "WALLET" => Spent + Fare <= Deposit
  /\ booking' = [booking EXCEPT ![b] = NewBooking(profile)]
  /\ UNCHANGED <<request, money, opinions, online, overwrote, started>>

\* acceptRide, acceptCourier, acceptHomeService: one guarded updateMany.
accept(b, p) ==
  /\ Exists(b)
  /\ booking[b].status = "REQUESTED"
  /\ booking[b].partner = NoPartner
  /\ booking' = [booking EXCEPT ![b].status = "ASSIGNED", ![b].partner = p]
  /\ UNCHANGED <<request, money, opinions, online, overwrote, started>>
-----------------------------------------------------------------------------
Hold(r, record) ==
  /\ request[r] = Idle
  /\ request' = [request EXCEPT ![r] = record]
  /\ started < MaxRequests /\ started' = started + 1
  /\ UNCHANGED <<database, online>>

Holding(b, handler) ==
  [ handler |-> handler, inTransaction |-> TRUE, booking |-> b, seen |-> booking[b], fee |-> 0,
    side |-> "PARTNER", count |-> 0 ]

Ready(r, handlers) ==
  request[r] # Idle /\ request[r].handler \in handlers /\ request[r].inTransaction

Release(r) == request' = [request EXCEPT ![r] = Idle] /\ UNCHANGED <<online, started>>

\* UPDATE ... WHERE id: nothing asks whether the row is still the one read.
WriteRow(r, row) ==
  LET b == request[r].booking IN
    /\ booking' = [booking EXCEPT ![b] = row]
    /\ overwrote' = IF booking[b].status = request[r].seen.status THEN overwrote
                    ELSE overwrote \cup {b}

\* writeRidePaymentLedger, writeCourierPaymentLedger, writeHomeServicePaymentLedger.
Charge(seen, amount, entries) ==
  [entries EXCEPT
     !.debit = IF seen.profile.method = "WALLET" THEN @ + amount ELSE @,
     !.credit = IF seen.profile.method # "ONLINE" /\ seen.partner # NoPartner
                THEN @ + amount ELSE @]

WrongRetentionLedger(seen, entries) ==
  [entries EXCEPT !.loyalty = IF seen.profile.earns THEN @ + 1 ELSE @]

\* It looks for an earlier entry after the UPDATE took the row lock.
writeRideRetentionLedger(seen, entries) ==
  [entries EXCEPT !.loyalty = IF seen.profile.earns /\ @ = 0 THEN 1 ELSE @]

\* The loser of a race on the unique paymentId rolls back (Rollback).
creditReferralReferrer ==
  IF ~referral.exists \/ referral.credited THEN referral
  ELSE [referral EXCEPT !.credited = TRUE, !.entries = @ + 1]
-----------------------------------------------------------------------------
\* transitionDriverRide, transitionCourier, transitionHomeService.
ReadTransition(r, b, p, target) ==
  /\ Exists(b)
  /\ target \in {"ARRIVED", "COMPLETED", Busy(booking[b].profile.service)}
  /\ booking[b].partner = p
  /\ assertTransitionAllowed(booking[b], target)
  /\ Hold(r, Holding(b, target))

CommitTransition(r) ==
  /\ Ready(r, BookingStatus \ {"COMPLETED", "CANCELLED"})
  /\ WriteRow(r, [booking[request[r].booking] EXCEPT !.status = request[r].handler])
  /\ Release(r)
  /\ UNCHANGED <<money, opinions>>

Settled(seen) == IF seen.profile.method = "ONLINE" THEN seen.pay ELSE "PAID"

WriteCompletion(r, seen) ==
  WriteRow(r, [booking[request[r].booking] EXCEPT
    !.status = "COMPLETED", !.finalFare = Fare, !.pay = Settled(seen)])

\* A ride paid in cash is marked paid and not written to the ledger.
CommitRideCompletion(r) ==
  /\ Ready(r, {"COMPLETED"})
  /\ LET b == request[r].booking
         seen == request[r].seen
         charged == IF seen.profile.method = "WALLET" THEN Charge(seen, Fare, ledger[b])
                    ELSE ledger[b]
     IN  /\ seen.profile.service = "RIDE"
         /\ WriteCompletion(r, seen)
         /\ ledger' = [ledger EXCEPT ![b] = writeRideRetentionLedger(seen, charged)]
  /\ referral' = creditReferralReferrer
  /\ Release(r)
  /\ UNCHANGED opinions

CommitJobCompletion(r) ==
  /\ Ready(r, {"COMPLETED"})
  /\ LET b == request[r].booking
         seen == request[r].seen
     IN  /\ seen.profile.service # "RIDE"
         /\ WriteCompletion(r, seen)
         /\ ledger' = [ledger EXCEPT ![b] = Charge(seen, Fare, @)]
  /\ Release(r)
  /\ UNCHANGED <<referral, opinions>>
-----------------------------------------------------------------------------
WrongCancellationFee(row, isCustomer) == IF isCustomer THEN Fee ELSE 0

calculateCancellationFee(row, isCustomer) ==
  IF isCustomer /\ row.partner # NoPartner /\ row.status \in {"ASSIGNED", "ARRIVED"}
  THEN Fee ELSE 0

\* cancelRide, cancelCourier, cancelHomeService, by the customer, the partner
\* or staff: the read before the transaction, ...
ReadCancel(r, b, isCustomer) ==
  /\ Exists(b)
  /\ assertTransitionAllowed(booking[b], "CANCELLED")
  /\ LET fee == IF booking[b].profile.service = "RIDE"
                THEN calculateCancellationFee(booking[b], isCustomer) ELSE 0
     IN  Hold(r, [Holding(b, "CANCELLED") EXCEPT !.inTransaction = FALSE, !.fee = fee])

WrongReadLatest(r) ==
  /\ request[r] # Idle /\ ~request[r].inTransaction
  /\ request' = [request EXCEPT ![r].inTransaction = TRUE,
                                ![r].seen = booking[request[r].booking]]
  /\ UNCHANGED <<database, online, started>>

\* ... the one inside it, ...
ReadLatest(r) ==
  /\ request[r] # Idle /\ ~request[r].inTransaction
  /\ LET latest == booking[request[r].booking] IN
       /\ assertTransitionAllowed(latest, "CANCELLED")
       /\ request' = [request EXCEPT ![r].inTransaction = TRUE, ![r].seen = latest]
  /\ UNCHANGED <<database, online, started>>

\* ... and the write.  A fee makes a ride paid; without one a paid ride becomes
\* CANCELLED, and a paid job REFUNDED without a ledger row.
CommitRideCancel(r) ==
  /\ Ready(r, {"CANCELLED"})
  /\ LET b == request[r].booking
         seen == request[r].seen
         fee == request[r].fee
     IN  /\ seen.profile.service = "RIDE"
         /\ WriteRow(r, [booking[b] EXCEPT
              !.status = "CANCELLED",
              !.finalFare = IF fee > 0 THEN fee ELSE seen.finalFare,
              !.pay = IF fee > 0 THEN "PAID" ELSE "CANCELLED"])
         /\ ledger' = IF fee > 0 THEN [ledger EXCEPT ![b] = Charge(seen, fee, @)] ELSE ledger
  /\ Release(r)
  /\ UNCHANGED <<referral, opinions>>

CommitJobCancel(r) ==
  /\ Ready(r, {"CANCELLED"})
  /\ LET seen == request[r].seen IN
       /\ seen.profile.service # "RIDE"
       /\ WriteRow(r, [booking[request[r].booking] EXCEPT
            !.status = "CANCELLED",
            !.pay = IF seen.pay = "PAID" THEN "REFUNDED" ELSE "CANCELLED"])
  /\ Release(r)
  /\ UNCHANGED <<money, opinions>>
-----------------------------------------------------------------------------
Target(b, side) == IF side = "CUSTOMER" THEN booking[b].partner ELSE Customer

\* The side has not reviewed the booking: looked up by the handler, and kept by
\* @@unique([authorId, rideId]) and its like.
WrongReviewFree(b, side) == TRUE
ReviewFree(b, side) == <<b, side>> \notin review

\* rateRide, rateCourier, rateHomeService: the earlier review is looked for and
\* the aggregate is read, ...
ReadRating(r, b, side) ==
  /\ Exists(b)
  /\ booking[b].status = "COMPLETED"
  /\ ReviewFree(b, side)
  /\ Hold(r, [Holding(b, "RATE") EXCEPT !.side = side, !.count = ratings[Target(b, side)]])

applyRatingAggregate(u, count) == ratings' = [ratings EXCEPT ![u] = count + 1]

\* ... and both are written; a second review ends the transaction (Rollback).
CommitRating(r) ==
  /\ Ready(r, {"RATE"})
  /\ LET b == request[r].booking
         side == request[r].side
     IN  /\ ReviewFree(b, side)
         /\ applyRatingAggregate(Target(b, side), request[r].count)
         /\ review' = review \cup {<<b, side>>}
  /\ Release(r)
  /\ UNCHANGED <<booking, money, overwrote>>
-----------------------------------------------------------------------------
\* A transaction fails, its process dies, or the second check of a
\* cancellation rejects it: nothing of it is kept.
Rollback(r) ==
  /\ request[r] # Idle
  /\ Release(r)
  /\ UNCHANGED database

Payable(b) == IF booking[b].finalFare # 0 THEN booking[b].finalFare ELSE Fare

\* The customer asks to pay a booking online, whatever its payment method;
\* only a paid one is refused.
createPaymentOrder(b) ==
  /\ Exists(b)
  /\ booking[b].pay # "PAID"
  /\ Cardinality(offered) < MaxOffers
  /\ offered' = offered \cup {<<b, Payable(b)>>}
  /\ UNCHANGED <<database, request, captured, started>>

\* updatePaymentStatus for a webhook about a booking, which asks neither for the
\* method nor for the status: a capture of what is payable by now, a failure of
\* any order, a refund of something captured.
PaymentWebhook(b, pay) ==
  /\ Exists(b)
  /\ booking[b].pay # pay
  /\ CASE pay = "PAID" -> <<b, Payable(b)>> \in offered
       [] pay = "FAILED" -> \E amount \in {Fee, Fare} : <<b, amount>> \in offered
       [] OTHER -> b \in captured
  /\ captured' = IF pay = "PAID" THEN captured \cup {b} ELSE captured
  /\ booking' = [booking EXCEPT ![b].pay = pay]
  /\ UNCHANGED <<request, money, opinions, offered, overwrote, started>>

\* The orders service credits the same referral when it delivers an order of the
\* customer.
deliverOrder ==
  /\ referral' = creditReferralReferrer
  /\ UNCHANGED <<booking, request, ledger, opinions, online, overwrote, started>>

Handle(r) ==
  \/ CommitTransition(r) \/ CommitRideCompletion(r) \/ CommitJobCompletion(r)
  \/ ReadLatest(r) \/ CommitRideCancel(r) \/ CommitJobCancel(r)
  \/ CommitRating(r) \/ Rollback(r)

Next ==
  \/ \E b \in Bookings : \E profile \in Profiles[b] : create(b, profile)
  \/ \E b \in Bookings, p \in Partners : accept(b, p)
  \/ \E r \in Requests, b \in Bookings :
       \/ \E p \in Partners, target \in BookingStatus : ReadTransition(r, b, p, target)
       \/ \E isCustomer \in BOOLEAN : ReadCancel(r, b, isCustomer)
       \/ \E side \in Sides : ReadRating(r, b, side)
  \/ \E r \in Requests : Handle(r)
  \/ \E b \in Bookings : createPaymentOrder(b)
  \/ deliverOrder
  \/ \E b \in Bookings, pay \in {"PAID", "FAILED", "REFUNDED"} : PaymentWebhook(b, pay)

Spec == Init /\ [][Next]_vars
-----------------------------------------------------------------------------
\* Whatever a customer's wallet pays reaches the partner, although the fee of a
\* cancellation is computed from one read and credited from another; a completed
\* wallet booking was debited at least its final fare, whichever of the racing
\* handlers wrote the row last; and one that is marked paid was debited too, or
\* else paid online, which nothing keeps the customer of a wallet booking from.
WalletMoneyArrives ==
  \A b \in Bookings : Exists(b) /\ booking[b].profile.method = "WALLET" =>
    /\ ledger[b].debit = ledger[b].credit
    /\ booking[b].pay = "PAID" /\ b \notin captured =>
         booking[b].finalFare \in 1 .. ledger[b].debit
    /\ booking[b].status = "COMPLETED" => booking[b].finalFare <= ledger[b].debit

\* Two completions that race charge a booking twice.  As long as no handler has
\* written a stale copy over the row, a booking is charged exactly: the fare
\* when it completes (a cash ride is not in the ledger), the fee when it is
\* cancelled with one, else nothing.
Owed(row) ==
  IF row.profile.method = "ONLINE" THEN 0
  ELSE IF row.status = "COMPLETED" /\ ~(row.profile.service = "RIDE" /\ row.profile.method = "CASH")
       THEN Fare
       ELSE IF row.status = "CANCELLED" THEN row.finalFare ELSE 0

ChargedExactly ==
  \A b \in Bookings \ overwrote : Exists(b) => ledger[b].credit = Owed(booking[b])

\* The only way out of the status machine is a stale copy written over the row.
OnlyStaleCopiesLeaveTheMachine ==
  [][\A b \in Bookings : Exists(b) /\ b \notin overwrote' =>
       \/ booking'[b].status = booking[b].status
       \/ canTransition(BookingTransitions(Busy(booking[b].profile.service)),
                        booking[b].status, booking'[b].status)]_vars

\* A completed ride pays loyalty once, if its fare earns any, and leaves the
\* referrer, if there is one, paid once, although completions race and are
\* retried.
RideRewardedOnce ==
  /\ \A b \in Bookings :
       ledger[b].loyalty <= IF Exists(b) /\ booking[b].profile.earns THEN 1 ELSE 0
  /\ referral.entries = IF referral.credited THEN 1 ELSE 0
  /\ \A b \in Bookings :
       Exists(b) /\ booking[b].profile.service = "RIDE" /\ booking[b].status = "COMPLETED"
         => /\ booking[b].profile.earns => ledger[b].loyalty = 1
            /\ referral.exists => referral.credited

\* Concurrent ratings may lose a count, but a rating sent twice, or twice at
\* once, never counts twice.
RatingsNeverDoubled ==
  \A u \in Partners \cup {Customer} :
    ratings[u] <= Cardinality({x \in review : Target(x[1], x[2]) = u})
=============================================================================
