---------------------------- MODULE BookingsProofs ----------------------------
(***************************************************************************)
(* Theorems about Bookings, for any number of bookings, partners and       *)
(* requests.                                                               *)
(***************************************************************************)
EXTENDS Bookings, FiniteSetTheorems, TLAPS

Of(r) == request[r].booking
Seen(r) == request[r].seen

\* A booking that went beyond REQUESTED has a partner, unless it was cancelled.
RowsSound ==
  \A b \in Bookings : Exists(b) =>
    \/ booking[b].status \in {"REQUESTED", "CANCELLED"}
    \/ booking[b].partner # NoPartner

\* What a request has read stays true of the booking, but for its status and
\* what was paid; and the status machine let it go on.
Held(q) ==
  /\ Exists(q.booking) /\ q.seen.profile = booking[q.booking].profile
  /\ q.seen.partner # NoPartner => booking[q.booking].partner = q.seen.partner
  /\ q.handler # "CANCELLED" => q.inTransaction /\ q.fee = 0 /\ q.seen.partner # NoPartner
  /\ q.handler # "RATE" => assertTransitionAllowed(q.seen, q.handler)
  /\ q.fee > 0 => q.seen.partner # NoPartner

RequestsSound == \A r \in Requests : request[r] # Idle => Held(request[r])

Sound == TypeOK /\ RowsSound /\ RequestsSound

\* r writes row over its booking and is done.
Writes(r, row) ==
  /\ request[r] \in InFlight /\ Held(request[r]) /\ request[r].inTransaction
  /\ request[r].handler # "RATE" /\ booking[Of(r)] \in Row
  /\ row \in Row /\ row.status = request[r].handler
  /\ row.partner = booking[Of(r)].partner /\ row.profile = booking[Of(r)].profile
  /\ booking'[Of(r)] = row /\ booking' \in [Bookings -> Row \cup {NoBooking}]
  /\ \A b \in Bookings : b # Of(r) => booking'[b] = booking[b]
  /\ overwrote' = IF booking[Of(r)].status = Seen(r).status THEN overwrote
                  ELSE overwrote \cup {Of(r)}
  /\ request' = [request EXCEPT ![r] = Idle] /\ UNCHANGED <<started, online, opinions>>

LEMMA RequestIsHeld ==
  ASSUME Sound, NEW r \in Requests, request[r] # Idle
  PROVE  /\ TypeOK /\ request[r] \in InFlight /\ Held(request[r]) /\ Of(r) \in Bookings
         /\ Seen(r) \in Row /\ request[r].handler \in Handlers /\ request[r].fee \in {0, Fee}
         /\ request[r].side \in Sides /\ request[r].count \in Nat
         /\ booking[Of(r)] \in Row /\ booking[Of(r)] # NoBooking
BY DEF Sound, TypeOK, RequestsSound, InFlight, Held, Exists, Of, Seen

LEMMA RowIsWritten ==
  ASSUME Sound, NEW r \in Requests, request[r] # Idle, NEW row \in Row,
         request[r].inTransaction, request[r].handler # "RATE",
         row.status = request[r].handler,
         row.partner = booking[Of(r)].partner, row.profile = booking[Of(r)].profile,
         WriteRow(r, row), Release(r), UNCHANGED opinions
  PROVE  Writes(r, row)
<1>1. /\ TypeOK /\ request[r] \in InFlight /\ Held(request[r]) /\ Of(r) \in Bookings
      /\ booking[Of(r)] \in Row
  BY RequestIsHeld
<1>2. /\ booking' = [booking EXCEPT ![Of(r)] = row]
      /\ overwrote' = IF booking[Of(r)].status = Seen(r).status THEN overwrote
                      ELSE overwrote \cup {Of(r)}
  BY DEF WriteRow, Of, Seen
<1>3. /\ booking'[Of(r)] = row /\ booking' \in [Bookings -> Row \cup {NoBooking}]
      /\ \A b \in Bookings : b # Of(r) => booking'[b] = booking[b]
  BY <1>1, <1>2 DEF TypeOK
<1>4. QED
  BY <1>1, <1>2, <1>3 DEF Writes, Release

\* The rows that the five writers write.
LEMMA TransitionWrites ==
  ASSUME Sound, NEW r \in Requests, CommitTransition(r)
  PROVE  /\ \E row \in Row :
              /\ Writes(r, row) /\ row.pay = booking[Of(r)].pay
              /\ row.finalFare = booking[Of(r)].finalFare
         /\ request[r].handler \notin {"COMPLETED", "CANCELLED"} /\ UNCHANGED money
<1> DEFINE row == [booking[Of(r)] EXCEPT !.status = request[r].handler]
<1>1. /\ request[r] # Idle /\ request[r].inTransaction /\ request[r].handler # "RATE"
      /\ request[r].handler \in BookingStatus \ {"COMPLETED", "CANCELLED"}
  BY DEF CommitTransition, Ready, BookingStatus, RideStatus, CourierStatus, HomeServiceStatus
<1>2. booking[Of(r)] \in Row
  BY <1>1, RequestIsHeld
<1>3. /\ row \in Row /\ row.status = request[r].handler /\ row.pay = booking[Of(r)].pay
      /\ row.finalFare = booking[Of(r)].finalFare
      /\ row.partner = booking[Of(r)].partner /\ row.profile = booking[Of(r)].profile
  BY <1>1, <1>2 DEF Row
<1>4. WriteRow(r, row) /\ Release(r) /\ UNCHANGED <<money, opinions>>
  BY DEF CommitTransition, Of
<1> HIDE DEF row
<1>5. Writes(r, row)
  BY <1>1, <1>3, <1>4, RowIsWritten
<1>6. QED
  BY <1>1, <1>3, <1>4, <1>5

LEMMA CompletionWrites ==
  ASSUME Sound, NEW r \in Requests, CommitRideCompletion(r) \/ CommitJobCompletion(r)
  PROVE  /\ \E row \in Row :
              Writes(r, row) /\ row.finalFare = Fare /\ row.pay = Settled(Seen(r))
         /\ request[r].handler = "COMPLETED"
<1> DEFINE row == [booking[Of(r)] EXCEPT
                     !.status = "COMPLETED", !.finalFare = Fare, !.pay = Settled(Seen(r))]
<1>1. request[r] # Idle /\ request[r].inTransaction /\ request[r].handler = "COMPLETED"
  BY DEF CommitRideCompletion, CommitJobCompletion, Ready
<1>2. booking[Of(r)] \in Row /\ Seen(r) \in Row
  BY <1>1, RequestIsHeld
<1>3. Settled(Seen(r)) \in PaymentStatus
  BY <1>2 DEF Settled, Row, PaymentStatus
<1>4. "COMPLETED" \in BookingStatus
  BY DEF BookingStatus, RideStatus
<1>5. /\ row \in Row /\ row.status = "COMPLETED" /\ row.pay = Settled(Seen(r))
      /\ row.finalFare = Fare
      /\ row.partner = booking[Of(r)].partner /\ row.profile = booking[Of(r)].profile
  BY <1>2, <1>3, <1>4 DEF Row
<1>6. WriteRow(r, row) /\ Release(r) /\ UNCHANGED opinions
  BY DEF CommitRideCompletion, CommitJobCompletion, WriteCompletion, Of, Seen
<1> HIDE DEF row
<1>7. Writes(r, row)
  BY <1>1, <1>5, <1>6, RowIsWritten
<1>8. QED
  BY <1>1, <1>5, <1>7

LEMMA RideCancelWrites ==
  ASSUME Sound, NEW r \in Requests, CommitRideCancel(r)
  PROVE  /\ \E row \in Row :
              /\ Writes(r, row)
              /\ row.finalFare = IF request[r].fee > 0 THEN Fee ELSE Seen(r).finalFare
              /\ row.pay = IF request[r].fee > 0 THEN "PAID" ELSE "CANCELLED"
         /\ request[r].handler = "CANCELLED" /\ request[r].fee \in {0, Fee}
<1> DEFINE fee == request[r].fee
           row == [booking[Of(r)] EXCEPT
                     !.status = "CANCELLED",
                     !.finalFare = IF fee > 0 THEN fee ELSE Seen(r).finalFare,
                     !.pay = IF fee > 0 THEN "PAID" ELSE "CANCELLED"]
<1>1. request[r] # Idle /\ request[r].inTransaction /\ request[r].handler = "CANCELLED"
  BY DEF CommitRideCancel, Ready
<1>2. booking[Of(r)] \in Row /\ Seen(r) \in Row /\ fee \in {0, Fee}
  BY <1>1, RequestIsHeld
<1>3. "CANCELLED" \in BookingStatus /\ {"PAID", "CANCELLED"} \subseteq PaymentStatus
  BY DEF BookingStatus, RideStatus, PaymentStatus
<1>4. (IF fee > 0 THEN fee ELSE Seen(r).finalFare) \in {0, Fee, Fare}
  BY <1>2 DEF Row
<1>5. /\ row \in Row /\ row.status = "CANCELLED"
      /\ row.finalFare = IF fee > 0 THEN fee ELSE Seen(r).finalFare
      /\ row.pay = IF fee > 0 THEN "PAID" ELSE "CANCELLED"
      /\ row.partner = booking[Of(r)].partner /\ row.profile = booking[Of(r)].profile
  BY <1>2, <1>3, <1>4 DEF Row
<1>6. WriteRow(r, row) /\ Release(r) /\ UNCHANGED opinions
  BY DEF CommitRideCancel, Of, Seen
<1> HIDE DEF row
<1>7. Writes(r, row)
  BY <1>1, <1>5, <1>6, RowIsWritten
<1>8. fee > 0 => fee = Fee
  BY <1>2, AmountsAssumption
<1>9. QED
  BY <1>1, <1>2, <1>5, <1>7, <1>8

LEMMA JobCancelWrites ==
  ASSUME Sound, NEW r \in Requests, CommitJobCancel(r)
  PROVE  /\ \E row \in Row :
              /\ Writes(r, row) /\ row.finalFare = booking[Of(r)].finalFare
              /\ row.pay # "PAID"
         /\ request[r].handler = "CANCELLED" /\ UNCHANGED money
<1> DEFINE row == [booking[Of(r)] EXCEPT
                     !.status = "CANCELLED",
                     !.pay = IF Seen(r).pay = "PAID" THEN "REFUNDED" ELSE "CANCELLED"]
<1>1. request[r] # Idle /\ request[r].inTransaction /\ request[r].handler = "CANCELLED"
  BY DEF CommitJobCancel, Ready
<1>2. booking[Of(r)] \in Row /\ Seen(r) \in Row
  BY <1>1, RequestIsHeld
<1>3. "CANCELLED" \in BookingStatus /\ {"REFUNDED", "CANCELLED"} \subseteq PaymentStatus
  BY DEF BookingStatus, RideStatus, PaymentStatus
<1>4. /\ row \in Row /\ row.status = "CANCELLED" /\ row.pay # "PAID"
      /\ row.finalFare = booking[Of(r)].finalFare
      /\ row.partner = booking[Of(r)].partner /\ row.profile = booking[Of(r)].profile
  BY <1>2, <1>3 DEF Row
<1>5. WriteRow(r, row) /\ Release(r) /\ UNCHANGED <<money, opinions>>
  BY DEF CommitJobCancel, Of, Seen
<1> HIDE DEF row
<1>6. Writes(r, row)
  BY <1>1, <1>4, <1>5, RowIsWritten
<1>7. QED
  BY <1>1, <1>4, <1>5, <1>6
-----------------------------------------------------------------------------
Writer(r) ==
  \/ CommitTransition(r) \/ CommitRideCompletion(r) \/ CommitJobCompletion(r)
  \/ CommitRideCancel(r) \/ CommitJobCancel(r)

\* Who touches the rows.
LEMMA RowsChange ==
  ASSUME Sound, [Next]_vars
  PROVE  \/ UNCHANGED <<booking, overwrote>>
         \/ \E b \in Bookings : \E profile \in Profiles[b] : create(b, profile)
         \/ \E b \in Bookings, p \in Partners : accept(b, p)
         \/ \E b \in Bookings, pay \in {"PAID", "FAILED", "REFUNDED"} : PaymentWebhook(b, pay)
         \/ \E r \in Requests : Writer(r) /\ \E row \in Row : Writes(r, row)
<1>1. ASSUME NEW r \in Requests, Writer(r) PROVE \E row \in Row : Writes(r, row)
  BY <1>1, TransitionWrites, CompletionWrites, RideCancelWrites, JobCancelWrites DEF Writer
<1>2. QED
  BY <1>1 DEF Writer, Next, Handle, vars, database, Hold, ReadTransition, ReadCancel, ReadLatest,
              ReadRating, CommitRating, Rollback, createPaymentOrder, deliverOrder

LEMMA NewBookingIsRow ==
  ASSUME NEW b \in Bookings, NEW profile \in Profiles[b]
  PROVE  NewBooking(profile) \in Row /\ NewBooking(profile).status = "REQUESTED"
         /\ NewBooking(profile).finalFare = 0 /\ NewBooking(profile).partner = NoPartner
         /\ NewBooking(profile).pay = "PENDING" /\ NewBooking(profile).profile = profile
<1>1. profile \in Profile
  BY ProfilesAssumption
<1>2. "REQUESTED" \in BookingStatus /\ "PENDING" \in PaymentStatus
  BY DEF BookingStatus, RideStatus, PaymentStatus
<1>3. QED
  BY <1>1, <1>2 DEF NewBooking, Row

LEMMA RowsStayTyped ==
  ASSUME Sound, [Next]_vars
  PROVE  booking' \in [Bookings -> Row \cup {NoBooking}] /\ overwrote' \subseteq Bookings
<1>1. booking \in [Bookings -> Row \cup {NoBooking}] /\ overwrote \subseteq Bookings
  BY DEF Sound, TypeOK
<1>2. ASSUME NEW b \in Bookings, NEW profile \in Profiles[b], create(b, profile)
      PROVE  booking' \in [Bookings -> Row \cup {NoBooking}] /\ overwrote' \subseteq Bookings
  BY <1>1, <1>2, NewBookingIsRow DEF create
<1>3. ASSUME NEW b \in Bookings, NEW p \in Partners, accept(b, p)
      PROVE  booking' \in [Bookings -> Row \cup {NoBooking}] /\ overwrote' \subseteq Bookings
  <2>1. booking[b] \in Row /\ "ASSIGNED" \in BookingStatus
    BY <1>1, <1>3 DEF accept, Exists, BookingStatus, RideStatus
  <2>2. [booking[b] EXCEPT !.status = "ASSIGNED", !.partner = p] \in Row
    BY <2>1 DEF Row
  <2>3. booking' = [booking EXCEPT ![b] = [booking[b] EXCEPT !.status = "ASSIGNED", !.partner = p]]
    BY <1>1, <1>3 DEF accept
  <2>4. QED
    BY <1>1, <1>3, <2>2, <2>3 DEF accept
<1>4. ASSUME NEW b \in Bookings, NEW pay \in {"PAID", "FAILED", "REFUNDED"}, PaymentWebhook(b, pay)
      PROVE  booking' \in [Bookings -> Row \cup {NoBooking}] /\ overwrote' \subseteq Bookings
  <2>1. booking[b] \in Row /\ pay \in PaymentStatus
    BY <1>1, <1>4 DEF PaymentWebhook, Exists, PaymentStatus
  <2>2. [booking[b] EXCEPT !.pay = pay] \in Row
    BY <2>1 DEF Row
  <2>3. QED
    BY <1>1, <1>4, <2>2 DEF PaymentWebhook
<1>5. ASSUME NEW r \in Requests, NEW row \in Row, Writes(r, row)
      PROVE  booking' \in [Bookings -> Row \cup {NoBooking}] /\ overwrote' \subseteq Bookings
  BY <1>1, <1>5 DEF Writes, InFlight, Of
<1>6. QED
  BY <1>1, <1>2, <1>3, <1>4, <1>5, RowsChange

\* A row stays, and keeps its profile and its partner.
LEMMA RowsKeep ==
  ASSUME Sound, [Next]_vars, NEW b \in Bookings, Exists(b)
  PROVE  /\ Exists(b)' /\ booking'[b] \in Row /\ booking[b] \in Row
         /\ booking'[b].profile = booking[b].profile
         /\ booking[b].partner # NoPartner => booking'[b].partner = booking[b].partner
<1>1. booking \in [Bookings -> Row \cup {NoBooking}] /\ booking[b] \in Row
  BY DEF Sound, TypeOK, Exists
<1>2. booking' \in [Bookings -> Row \cup {NoBooking}]
  BY RowsStayTyped
<1> DEFINE Keeps == /\ booking'[b] \in Row /\ booking'[b].profile = booking[b].profile
                    /\ booking[b].partner # NoPartner => booking'[b].partner = booking[b].partner
<1>3. ASSUME booking'[b] = booking[b] PROVE Keeps
  BY <1>1, <1>3
<1>4. ASSUME NEW c \in Bookings, NEW profile \in Profiles[c], create(c, profile)
      PROVE  Keeps
  BY <1>1, <1>4 DEF create, Exists
<1>5. ASSUME NEW c \in Bookings, NEW p \in Partners, accept(c, p) PROVE Keeps
  <2>1. CASE b # c
    BY <1>1, <1>3, <1>5, <2>1 DEF accept
  <2>2. CASE b = c
    <3>1. booking[b].partner = NoPartner
          /\ booking'[b] = [booking[b] EXCEPT !.status = "ASSIGNED", !.partner = p]
      BY <1>1, <1>5, <2>2 DEF accept
    <3>2. "ASSIGNED" \in BookingStatus
      BY DEF BookingStatus, RideStatus
    <3>3. QED
      BY <1>1, <3>1, <3>2 DEF Row
  <2>3. QED
    BY <2>1, <2>2
<1>6. ASSUME NEW c \in Bookings, NEW pay \in {"PAID", "FAILED", "REFUNDED"}, PaymentWebhook(c, pay)
      PROVE  Keeps
  <2>1. CASE b # c
    BY <1>1, <1>3, <1>6, <2>1 DEF PaymentWebhook
  <2>2. CASE b = c
    <3>1. booking'[b] = [booking[b] EXCEPT !.pay = pay] /\ pay \in PaymentStatus
      BY <1>1, <1>6, <2>2 DEF PaymentWebhook, PaymentStatus
    <3>2. QED
      BY <1>1, <3>1 DEF Row
  <2>3. QED
    BY <2>1, <2>2
<1>7. ASSUME NEW r \in Requests, NEW row \in Row, Writes(r, row) PROVE Keeps
  BY <1>1, <1>3, <1>7 DEF Writes
<1>8. Keeps
  BY <1>3, <1>4, <1>5, <1>6, <1>7, RowsChange
<1>9. QED
  BY <1>1, <1>8, NoBookingAssumption DEF Exists

LEMMA RowsStaySound == ASSUME Sound, [Next]_vars PROVE RowsSound'
<1> SUFFICES ASSUME NEW b \in Bookings, Exists(b)', booking'[b].status \notin {"REQUESTED", "CANCELLED"}
             PROVE  booking'[b].partner # NoPartner
  BY DEF RowsSound
<1>1. booking \in [Bookings -> Row \cup {NoBooking}]
      /\ (Exists(b) => booking[b].status \in {"REQUESTED", "CANCELLED"} \/ booking[b].partner # NoPartner)
  BY DEF Sound, TypeOK, RowsSound
<1>2. CASE booking'[b] = booking[b]
  BY <1>1, <1>2 DEF Exists
<1>3. ASSUME NEW c \in Bookings, NEW profile \in Profiles[c], create(c, profile)
      PROVE  booking'[b].partner # NoPartner
  <2>1. b # c
    BY <1>1, <1>3, NewBookingIsRow DEF create
  <2>2. QED
    BY <1>1, <1>2, <1>3, <2>1 DEF create
<1>4. ASSUME NEW c \in Bookings, NEW p \in Partners, accept(c, p)
      PROVE  booking'[b].partner # NoPartner
  <2>1. CASE b # c
    BY <1>1, <1>2, <1>4, <2>1 DEF accept
  <2>2. CASE b = c
    <3>1. booking[b] \in Row /\ booking'[b] = [booking[b] EXCEPT !.status = "ASSIGNED", !.partner = p]
      BY <1>1, <1>4, <2>2 DEF accept, Exists
    <3>2. QED
      BY <3>1, NoPartnerAssumption DEF Row
  <2>3. QED
    BY <2>1, <2>2
<1>5. ASSUME NEW c \in Bookings, NEW pay \in {"PAID", "FAILED", "REFUNDED"}, PaymentWebhook(c, pay)
      PROVE  booking'[b].partner # NoPartner
  <2>1. CASE b # c
    BY <1>1, <1>2, <1>5, <2>1 DEF PaymentWebhook
  <2>2. CASE b = c
    <3>1. booking[b] \in Row /\ booking'[b] = [booking[b] EXCEPT !.pay = pay] /\ Exists(b)
      BY <1>1, <1>5, <2>2 DEF PaymentWebhook, Exists
    <3>2. booking'[b].status = booking[b].status /\ booking'[b].partner = booking[b].partner
      BY <3>1 DEF Row
    <3>3. QED
      BY <1>1, <3>1, <3>2
  <2>3. QED
    BY <2>1, <2>2
<1>6. ASSUME NEW r \in Requests, NEW row \in Row, Writes(r, row)
      PROVE  booking'[b].partner # NoPartner
  <2>1. CASE b # Of(r)
    BY <1>2, <1>6, <2>1 DEF Writes
  <2>2. CASE b = Of(r)
    BY <1>6, <2>2 DEF Writes, Held, Of
  <2>3. QED
    BY <2>1, <2>2
<1>7. QED
  BY <1>2, <1>3, <1>4, <1>5, <1>6, RowsChange
-----------------------------------------------------------------------------
\* What a request holds stays true, and what it starts with is.
LEMMA HeldStays ==
  ASSUME Sound, [Next]_vars, NEW q \in InFlight, Held(q)
  PROVE  Held(q)'
<1>1. q.booking \in Bookings /\ Exists(q.booking)
  BY DEF InFlight, Held
<1>2. /\ Exists(q.booking)' /\ booking'[q.booking].profile = booking[q.booking].profile
      /\ booking[q.booking].partner # NoPartner =>
           booking'[q.booking].partner = booking[q.booking].partner
  BY <1>1, RowsKeep
<1>3. QED
  BY <1>1, <1>2 DEF Held

\* A request that takes or changes its slot, beside those that stay.
LEMMA RequestsStaySoundWith ==
  ASSUME Sound, [Next]_vars, NEW r \in Requests, NEW q \in InFlight \cup {Idle},
         request' = [request EXCEPT ![r] = q], q # Idle => Held(q)'
  PROVE  request' \in [Requests -> InFlight \cup {Idle}] /\ RequestsSound'
<1>1. request \in [Requests -> InFlight \cup {Idle}]
  BY DEF Sound, TypeOK
<1>2. request' \in [Requests -> InFlight \cup {Idle}]
  BY <1>1
<1>3. ASSUME NEW s \in Requests, request'[s] # Idle PROVE Held(request[s])'
  <2>1. CASE s = r
    BY <1>1, <1>3, <2>1 DEF Held, Exists
  <2>2. CASE s # r
    <3>1. request'[s] = request[s] /\ request[s] \in InFlight
      BY <1>1, <1>3, <2>2
    <3>2. PICK p \in InFlight : p = request[s]
      BY <3>1
    <3>3. Held(p)
      BY <1>3, <3>1, <3>2 DEF Sound, RequestsSound
    <3>4. Held(p)'
      BY <3>3, HeldStays
    <3>5. QED
      BY <3>1, <3>2, <3>4 DEF Held, Exists
  <2>3. QED
    BY <2>1, <2>2
<1>4. QED
  BY <1>2, <1>3 DEF RequestsSound

\* What a handler keeps of a row it just read.
LEMMA HoldingIsInFlight ==
  ASSUME Sound, NEW b \in Bookings, Exists(b), NEW handler \in Handlers
  PROVE  /\ Holding(b, handler) \in InFlight /\ booking[b] \in Row
         /\ Holding(b, handler).booking = b /\ Holding(b, handler).seen = booking[b]
         /\ Holding(b, handler).handler = handler /\ Holding(b, handler).inTransaction
         /\ Holding(b, handler).fee = 0
<1>1. booking[b] \in Row
  BY DEF Sound, TypeOK, Exists
<1>2. QED
  BY <1>1 DEF Holding, InFlight, Sides

LEMMA StatusesMove ==
  ASSUME NEW row \in Row, NEW target, assertTransitionAllowed(row, target)
  PROVE  /\ row.status \notin {"COMPLETED", "CANCELLED"} /\ target # "REQUESTED"
         /\ target \in BookingStatus
BY DEF assertTransitionAllowed, canTransition, BookingTransitions, Busy, Row, Profile, Services,
       BookingStatus, RideStatus, CourierStatus, HomeServiceStatus

LEMMA ReadersHold ==
  ASSUME Sound, NEW r \in Requests, NEW b \in Bookings,
         \/ \E p \in Partners, target \in BookingStatus : ReadTransition(r, b, p, target)
         \/ \E isCustomer \in BOOLEAN : ReadCancel(r, b, isCustomer)
         \/ \E side \in Sides : ReadRating(r, b, side)
  PROVE  \E q \in InFlight :
           /\ request' = [request EXCEPT ![r] = q] /\ q.booking = b /\ Held(q)
           /\ UNCHANGED database /\ q.seen = booking[b]
           /\ q.handler = "RATE" => q.count = ratings[Target(b, q.side)] /\ Exists(b)
           /\ started' \in Nat
<1>1. TypeOK
  BY DEF Sound
<1>2. ASSUME NEW p \in Partners, NEW target \in BookingStatus, ReadTransition(r, b, p, target)
      PROVE  \E q \in InFlight :
               /\ request' = [request EXCEPT ![r] = q] /\ q.booking = b /\ Held(q)
               /\ UNCHANGED database /\ q.seen = booking[b] /\ q.handler # "RATE"
               /\ started' \in Nat
  <2> DEFINE q == Holding(b, target)
  <2>1. /\ target \in Handlers /\ target # "CANCELLED" /\ target # "RATE"
        /\ Exists(b) /\ booking[b].partner = p
        /\ assertTransitionAllowed(booking[b], target) /\ Hold(r, q)
    <3>1. booking[b] \in Row /\ target \in {"ARRIVED", "COMPLETED", Busy(booking[b].profile.service)}
          /\ Exists(b)
      BY <1>1, <1>2 DEF ReadTransition, TypeOK, Exists
    <3>2. target \in {"ARRIVED", "COMPLETED", "IN_RIDE", "IN_TRANSIT", "IN_SERVICE"}
      BY <3>1 DEF Busy, Row, Profile, Services
    <3>3. QED
      BY <1>2, <3>1, <3>2 DEF ReadTransition, Handlers, BookingStatus, RideStatus
  <2>2. q \in InFlight /\ q.booking = b /\ q.seen = booking[b] /\ q.handler = target /\ q.fee = 0
        /\ q.inTransaction
    BY <2>1, HoldingIsInFlight
  <2> HIDE DEF q
  <2>3. Held(q)
    BY <2>1, <2>2, NoPartnerAssumption DEF Held
  <2>4. request' = [request EXCEPT ![r] = q] /\ UNCHANGED database /\ started' \in Nat
    BY <1>1, <2>1 DEF Hold, TypeOK
  <2>5. QED
    BY <2>1, <2>2, <2>3, <2>4
<1>3. ASSUME NEW isCustomer \in BOOLEAN, ReadCancel(r, b, isCustomer)
      PROVE  \E q \in InFlight :
               /\ request' = [request EXCEPT ![r] = q] /\ q.booking = b /\ Held(q)
               /\ UNCHANGED database /\ q.seen = booking[b] /\ q.handler # "RATE"
               /\ started' \in Nat
  <2> DEFINE fee == IF booking[b].profile.service = "RIDE"
                    THEN calculateCancellationFee(booking[b], isCustomer) ELSE 0
             q == [Holding(b, "CANCELLED") EXCEPT !.inTransaction = FALSE, !.fee = fee]
  <2>1. Exists(b) /\ assertTransitionAllowed(booking[b], "CANCELLED") /\ Hold(r, q)
    BY <1>3 DEF ReadCancel
  <2>2. fee \in {0, Fee} /\ (fee > 0 => booking[b].partner # NoPartner)
    BY AmountsAssumption DEF calculateCancellationFee
  <2> HIDE DEF fee
  <2>3. "CANCELLED" \in Handlers
    BY DEF Handlers, BookingStatus, RideStatus
  <2>4. q \in InFlight /\ q.booking = b /\ q.seen = booking[b] /\ q.handler = "CANCELLED" /\ q.fee = fee
    <3>1. PICK h \in InFlight : /\ h = Holding(b, "CANCELLED") /\ h.booking = b
                               /\ h.seen = booking[b] /\ h.handler = "CANCELLED"
      BY <2>1, <2>3, HoldingIsInFlight
    <3>2. q = [h EXCEPT !.inTransaction = FALSE, !.fee = fee]
      BY <3>1
    <3>3. q \in InFlight
      BY <2>2, <3>2 DEF InFlight
    <3>4. QED
      BY <3>1, <3>2, <3>3 DEF InFlight
  <2> HIDE DEF q
  <2>5. Held(q)
    BY <2>1, <2>2, <2>4 DEF Held
  <2>6. request' = [request EXCEPT ![r] = q] /\ UNCHANGED database /\ started' \in Nat
    BY <1>1, <2>1 DEF Hold, TypeOK
  <2>7. QED
    BY <2>1, <2>4, <2>5, <2>6
<1>4. ASSUME NEW side \in Sides, ReadRating(r, b, side)
      PROVE  \E q \in InFlight :
               /\ request' = [request EXCEPT ![r] = q] /\ q.booking = b /\ Held(q)
               /\ UNCHANGED database /\ q.seen = booking[b]
               /\ q.count = ratings[Target(b, q.side)] /\ Exists(b)
               /\ started' \in Nat
  <2> DEFINE count == ratings[Target(b, side)]
             q == [Holding(b, "RATE") EXCEPT !.side = side, !.count = count]
  <2>1. Exists(b) /\ booking[b].status = "COMPLETED" /\ Hold(r, q)
    BY <1>4 DEF ReadRating
  <2>2. booking[b] \in Row /\ booking[b].partner # NoPartner
    BY <1>1, <2>1 DEF Sound, RowsSound, TypeOK, Exists
  <2>3. Target(b, side) \in Partners \cup {Customer}
    BY <2>2 DEF Target, Row
  <2>4. count \in Nat
    BY <1>1, <2>3 DEF TypeOK
  <2> HIDE DEF count
  <2>5. "RATE" \in Handlers
    BY DEF Handlers
  <2>6. /\ q \in InFlight /\ q.booking = b /\ q.seen = booking[b] /\ q.handler = "RATE" /\ q.fee = 0
        /\ q.inTransaction /\ q.side = side /\ q.count = count
    <3>1. PICK h \in InFlight : /\ h = Holding(b, "RATE") /\ h.booking = b /\ h.fee = 0
                               /\ h.seen = booking[b] /\ h.handler = "RATE" /\ h.inTransaction
      BY <2>1, <2>5, HoldingIsInFlight
    <3>2. q = [h EXCEPT !.side = side, !.count = count]
      BY <3>1
    <3>3. q \in InFlight
      BY <2>4, <3>2 DEF InFlight
    <3>4. QED
      BY <3>1, <3>2, <3>3 DEF InFlight
  <2> HIDE DEF q
  <2>7. Held(q)
    BY <2>1, <2>2, <2>6 DEF Held
  <2>8. request' = [request EXCEPT ![r] = q] /\ UNCHANGED database /\ started' \in Nat
    BY <1>1, <2>1 DEF Hold, TypeOK
  <2>9. QED
    BY <2>1, <2>6, <2>7, <2>8 DEF count
<1>5. QED
  BY <1>2, <1>3, <1>4

LEMMA LatestIsHeld ==
  ASSUME Sound, NEW r \in Requests, ReadLatest(r)
  PROVE  \E q \in InFlight :
           /\ request' = [request EXCEPT ![r] = q] /\ q.booking = Of(r) /\ Held(q)
           /\ q.seen = booking[Of(r)] /\ q.handler = "CANCELLED"
           /\ UNCHANGED <<database, started>>
<1> DEFINE q == [request[r] EXCEPT !.inTransaction = TRUE, !.seen = booking[Of(r)]]
<1>1. /\ request[r] # Idle /\ ~request[r].inTransaction
      /\ assertTransitionAllowed(booking[Of(r)], "CANCELLED")
      /\ request' = [request EXCEPT ![r] = q] /\ UNCHANGED <<database, started>>
  BY DEF ReadLatest, Of
<1>2. /\ request[r] \in InFlight /\ Held(request[r]) /\ Of(r) \in Bookings
      /\ booking[Of(r)] \in Row /\ request[r].handler = "CANCELLED"
  BY <1>1, RequestIsHeld DEF Held
<1>3. /\ q \in InFlight /\ q.booking = Of(r) /\ q.seen = booking[Of(r)]
      /\ q.handler = "CANCELLED" /\ q.fee = request[r].fee
  BY <1>2 DEF InFlight, Of
<1> HIDE DEF q
<1>4. Held(q)
  BY <1>1, <1>2, <1>3 DEF Held, Of
<1>5. QED
  BY <1>1, <1>3, <1>4

\* Who touches the requests.
LEMMA RequestsChange ==
  ASSUME Sound, [Next]_vars
  PROVE  \/ UNCHANGED <<request, started>>
         \/ /\ UNCHANGED database
            /\ \E r \in Requests, b \in Bookings :
                 \/ \E p \in Partners, target \in BookingStatus : ReadTransition(r, b, p, target)
                 \/ \E isCustomer \in BOOLEAN : ReadCancel(r, b, isCustomer)
                 \/ \E side \in Sides : ReadRating(r, b, side)
         \/ UNCHANGED database /\ \E r \in Requests : ReadLatest(r)
         \/ \E r \in Requests : Release(r) /\ request[r] # Idle
BY DEF Next, Handle, vars, create, accept, PaymentWebhook, createPaymentOrder, deliverOrder, Hold,
       ReadTransition, ReadCancel, ReadRating, ReadLatest, CommitTransition, CommitRideCompletion, CommitJobCompletion,
       CommitRideCancel, CommitJobCancel, CommitRating, Rollback, Ready

LEMMA RequestsStaySound ==
  ASSUME Sound, [Next]_vars
  PROVE  request' \in [Requests -> InFlight \cup {Idle}] /\ RequestsSound' /\ started' \in Nat
<1>1. request \in [Requests -> InFlight \cup {Idle}] /\ started \in Nat
  BY DEF Sound, TypeOK
<1>2. CASE UNCHANGED <<request, started>>
  <2>1. ASSUME NEW s \in Requests, request'[s] # Idle PROVE Held(request[s])'
    <3>1. PICK p \in InFlight : p = request[s]
      BY <1>1, <1>2, <2>1
    <3>2. Held(p)
      BY <1>2, <2>1, <3>1 DEF Sound, RequestsSound
    <3>3. Held(p)'
      BY <3>2, HeldStays
    <3>4. QED
      BY <1>2, <3>1, <3>3 DEF Held, Exists
  <2>2. QED
    BY <1>1, <1>2, <2>1 DEF RequestsSound
<1>3. ASSUME NEW r \in Requests, NEW q \in InFlight, request' = [request EXCEPT ![r] = q], Held(q),
             started' \in Nat
      PROVE  request' \in [Requests -> InFlight \cup {Idle}] /\ RequestsSound' /\ started' \in Nat
  BY <1>3, HeldStays, RequestsStaySoundWith
<1>4. ASSUME NEW r \in Requests, Release(r)
      PROVE  request' \in [Requests -> InFlight \cup {Idle}] /\ RequestsSound' /\ started' \in Nat
  BY <1>1, <1>4, RequestsStaySoundWith DEF Release
<1>5. QED
  BY <1>1, <1>2, <1>3, <1>4, RequestsChange, ReadersHold, LatestIsHeld
-----------------------------------------------------------------------------
Entry == [debit : Nat, credit : Nat, loyalty : Nat]
Referral == [exists : BOOLEAN, credited : BOOLEAN, entries : Nat]

LEMMA Charging ==
  ASSUME NEW seen \in Row, NEW amount \in Nat, NEW e \in Entry
  PROVE  /\ Charge(seen, amount, e) \in Entry
         /\ Charge(seen, amount, e).loyalty = e.loyalty
         /\ Charge(seen, amount, e).debit =
              IF seen.profile.method = "WALLET" THEN e.debit + amount ELSE e.debit
         /\ Charge(seen, amount, e).credit =
              IF seen.profile.method # "ONLINE" /\ seen.partner # NoPartner
              THEN e.credit + amount ELSE e.credit
<1>1. PICK d : d = IF seen.profile.method = "WALLET" THEN e.debit + amount ELSE e.debit
  OBVIOUS
<1>2. PICK c : c = IF seen.profile.method # "ONLINE" /\ seen.partner # NoPartner
                   THEN e.credit + amount ELSE e.credit
  OBVIOUS
<1>3. Charge(seen, amount, e) = [e EXCEPT !.debit = d, !.credit = c]
  BY <1>1, <1>2 DEF Charge, Entry
<1>4. d \in Nat /\ c \in Nat
  BY <1>1, <1>2 DEF Entry
<1>5. QED
  BY <1>1, <1>2, <1>3, <1>4 DEF Entry

\* What becomes of the entries of a booking: the fare or the fee, and loyalty.
Charged(r, amount, pays, loyalty) ==
  /\ ledger' \in [Bookings -> Entry]
  /\ \A b \in Bookings : b # Of(r) => ledger'[b] = ledger[b]
  /\ ledger'[Of(r)].debit =
       IF pays /\ Seen(r).profile.method = "WALLET" THEN ledger[Of(r)].debit + amount
       ELSE ledger[Of(r)].debit
  /\ ledger'[Of(r)].credit =
       IF pays /\ Seen(r).profile.method # "ONLINE" /\ Seen(r).partner # NoPartner
       THEN ledger[Of(r)].credit + amount ELSE ledger[Of(r)].credit
  /\ ledger'[Of(r)].loyalty = loyalty

LEMMA RideCompletionPays ==
  ASSUME Sound, NEW r \in Requests, CommitRideCompletion(r)
  PROVE  /\ Charged(r, Fare, Seen(r).profile.method = "WALLET",
                    IF Seen(r).profile.earns /\ ledger[Of(r)].loyalty = 0 THEN 1
                    ELSE ledger[Of(r)].loyalty)
         /\ Seen(r).profile.service = "RIDE" /\ referral' = creditReferralReferrer
<1> DEFINE e == ledger[Of(r)]
           c == IF Seen(r).profile.method = "WALLET" THEN Charge(Seen(r), Fare, e) ELSE e
<1>1. Of(r) \in Bookings /\ Seen(r) \in Row /\ TypeOK
  BY RequestIsHeld DEF CommitRideCompletion, Ready
<1>2. ledger \in [Bookings -> Entry] /\ e \in Entry
  BY <1>1 DEF TypeOK, Entry
<1>3. /\ Seen(r).profile.service = "RIDE" /\ referral' = creditReferralReferrer
      /\ ledger' = [ledger EXCEPT ![Of(r)] = writeRideRetentionLedger(Seen(r), c)]
  BY DEF CommitRideCompletion, Of, Seen
<1>4. /\ c \in Entry /\ c.loyalty = e.loyalty
      /\ c.debit = IF Seen(r).profile.method = "WALLET" THEN e.debit + Fare ELSE e.debit
      /\ c.credit = IF Seen(r).profile.method = "WALLET" /\ Seen(r).partner # NoPartner
                    THEN e.credit + Fare ELSE e.credit
  BY <1>1, <1>2, Charging, AmountsAssumption
<1> HIDE DEF c
<1> DEFINE n == IF Seen(r).profile.earns /\ c.loyalty = 0 THEN 1 ELSE c.loyalty
           w == [c EXCEPT !.loyalty = n]
<1>5. w = writeRideRetentionLedger(Seen(r), c) /\ n \in Nat
  BY <1>4 DEF writeRideRetentionLedger, Entry
<1>6. n = IF Seen(r).profile.earns /\ e.loyalty = 0 THEN 1 ELSE e.loyalty
  BY <1>4
<1> HIDE DEF n, e
<1>7. w \in Entry /\ w.debit = c.debit /\ w.credit = c.credit /\ w.loyalty = n
  BY <1>4, <1>5 DEF Entry
<1> HIDE DEF w
<1>8. /\ ledger'[Of(r)] = w /\ ledger' \in [Bookings -> Entry]
      /\ \A b \in Bookings : b # Of(r) => ledger'[b] = ledger[b]
  BY <1>1, <1>2, <1>3, <1>5, <1>7
<1>9. QED
  BY <1>3, <1>4, <1>6, <1>7, <1>8 DEF Charged, e

LEMMA JobCompletionPays ==
  ASSUME Sound, NEW r \in Requests, CommitJobCompletion(r)
  PROVE  /\ Charged(r, Fare, TRUE, ledger[Of(r)].loyalty)
         /\ Seen(r).profile.service # "RIDE" /\ UNCHANGED referral
<1>1. Of(r) \in Bookings /\ Seen(r) \in Row /\ TypeOK
  BY RequestIsHeld DEF CommitJobCompletion, Ready
<1>2. ledger \in [Bookings -> Entry] /\ ledger[Of(r)] \in Entry
  BY <1>1 DEF TypeOK, Entry
<1>3. /\ Seen(r).profile.service # "RIDE" /\ UNCHANGED referral
      /\ ledger' = [ledger EXCEPT ![Of(r)] = Charge(Seen(r), Fare, ledger[Of(r)])]
  BY <1>2 DEF CommitJobCompletion, Of, Seen
<1>4. Charge(Seen(r), Fare, ledger[Of(r)]) \in Entry
  BY <1>1, <1>2, Charging, AmountsAssumption
<1>5. /\ ledger'[Of(r)] = Charge(Seen(r), Fare, ledger[Of(r)])
      /\ ledger' \in [Bookings -> Entry]
      /\ \A b \in Bookings : b # Of(r) => ledger'[b] = ledger[b]
  BY <1>1, <1>2, <1>3, <1>4
<1>6. QED
  BY <1>1, <1>2, <1>3, <1>5, Charging, AmountsAssumption DEF Charged

LEMMA RideCancelPays ==
  ASSUME Sound, NEW r \in Requests, CommitRideCancel(r)
  PROVE  /\ Charged(r, Fee, request[r].fee > 0, ledger[Of(r)].loyalty)
         /\ Seen(r).profile.service = "RIDE" /\ UNCHANGED referral
<1>1. Of(r) \in Bookings /\ Seen(r) \in Row /\ TypeOK /\ request[r].fee \in {0, Fee}
  BY RequestIsHeld DEF CommitRideCancel, Ready
<1>2. ledger \in [Bookings -> Entry] /\ ledger[Of(r)] \in Entry
  BY <1>1 DEF TypeOK, Entry
<1>3. /\ Seen(r).profile.service = "RIDE" /\ UNCHANGED referral
      /\ ledger' = IF request[r].fee > 0
                   THEN [ledger EXCEPT ![Of(r)] = Charge(Seen(r), request[r].fee, ledger[Of(r)])]
                   ELSE ledger
  BY <1>2 DEF CommitRideCancel, Of, Seen
<1>4. CASE request[r].fee > 0
  <2>1. request[r].fee = Fee
    BY <1>1, <1>4, AmountsAssumption
  <2>2. Charge(Seen(r), Fee, ledger[Of(r)]) \in Entry
    BY <1>1, <1>2, Charging, AmountsAssumption
  <2>3. /\ ledger'[Of(r)] = Charge(Seen(r), Fee, ledger[Of(r)])
        /\ ledger' \in [Bookings -> Entry]
        /\ \A b \in Bookings : b # Of(r) => ledger'[b] = ledger[b]
    BY <1>1, <1>2, <1>3, <1>4, <2>1, <2>2
  <2>4. QED
    BY <1>1, <1>2, <1>3, <1>4, <2>3, Charging, AmountsAssumption DEF Charged
<1>5. CASE ~(request[r].fee > 0)
  BY <1>2, <1>3, <1>5 DEF Charged
<1>6. QED
  BY <1>4, <1>5

\* Nobody else touches the money.
LEMMA MoneyStaysOtherwise ==
  ASSUME Sound, [Next]_vars
  PROVE  \/ UNCHANGED money
         \/ ledger' = ledger /\ referral' = creditReferralReferrer
         \/ \E r \in Requests :
              CommitRideCompletion(r) \/ CommitJobCompletion(r) \/ CommitRideCancel(r)
BY DEF Next, Handle, vars, money, database, create, accept, PaymentWebhook,
       createPaymentOrder, deliverOrder, Hold, ReadTransition, ReadCancel, ReadRating, ReadLatest, CommitTransition, CommitJobCancel, CommitRating, Rollback

LEMMA CreditingReferrer ==
  ASSUME referral \in Referral
  PROVE  /\ creditReferralReferrer \in Referral
         /\ creditReferralReferrer.exists = referral.exists
         /\ creditReferralReferrer.credited <=> referral.exists \/ referral.credited
         /\ creditReferralReferrer.entries =
              IF referral.exists /\ ~referral.credited THEN referral.entries + 1
              ELSE referral.entries
<1>1. CASE ~referral.exists \/ referral.credited
  BY <1>1 DEF creditReferralReferrer, Referral
<1>2. CASE referral.exists /\ ~referral.credited
  <2>1. creditReferralReferrer =
          [referral EXCEPT !.credited = TRUE, !.entries = referral.entries + 1]
    BY <1>2 DEF creditReferralReferrer, Referral
  <2>2. referral.entries + 1 \in Nat
    BY DEF Referral
  <2>3. /\ creditReferralReferrer \in Referral
        /\ creditReferralReferrer.exists = referral.exists
        /\ creditReferralReferrer.credited
        /\ creditReferralReferrer.entries = referral.entries + 1
    BY <2>1, <2>2 DEF Referral
  <2>4. QED
    BY <1>2, <2>3
<1>3. QED
  BY <1>1, <1>2

LEMMA MoneyStaysTyped ==
  ASSUME Sound, [Next]_vars
  PROVE  ledger' \in [Bookings -> Entry] /\ referral' \in Referral
<1>1. ledger \in [Bookings -> Entry] /\ referral \in Referral
  BY DEF Sound, TypeOK, Entry, Referral
<1>2. creditReferralReferrer \in Referral
  BY <1>1, CreditingReferrer
<1>3. QED
  BY <1>1, <1>2, RideCompletionPays, JobCompletionPays, RideCancelPays, MoneyStaysOtherwise
     DEF Charged, money
-----------------------------------------------------------------------------
\* What a review does.
Rates(r, b, side, n) ==
  /\ b = Of(r) /\ side = request[r].side /\ n = request[r].count
  /\ request[r].handler = "RATE" /\ request[r] # Idle
  /\ Exists(b) /\ booking[b].partner # NoPartner
  /\ Target(b, side) \in Partners \cup {Customer}
  /\ <<b, side>> \notin review /\ review' = review \cup {<<b, side>>}
  /\ ratings' = [ratings EXCEPT ![Target(b, side)] = n + 1]
  /\ UNCHANGED <<booking, money, overwrote>>
  /\ request' = [request EXCEPT ![r] = Idle]

LEMMA RatingDoes ==
  ASSUME Sound, NEW r \in Requests, CommitRating(r)
  PROVE  \E b \in Bookings, side \in Sides, n \in Nat : Rates(r, b, side, n)
<1>1. request[r] # Idle /\ request[r].handler = "RATE"
  BY DEF CommitRating, Ready
<1>2. PICK b \in Bookings : b = Of(r)
  BY <1>1, RequestIsHeld
<1>3. PICK side \in Sides : side = request[r].side
  BY <1>1, RequestIsHeld
<1>4. PICK n \in Nat : n = request[r].count
  BY <1>1, RequestIsHeld
<1>5. Exists(b) /\ booking[b].partner # NoPartner /\ booking[b] \in Row
  BY <1>1, <1>2, RequestIsHeld DEF Held, Of, Exists
<1>6. Target(b, side) \in Partners \cup {Customer}
  BY <1>5 DEF Target, Row
<1>7. /\ <<b, side>> \notin review /\ review' = review \cup {<<b, side>>}
      /\ ratings' = [ratings EXCEPT ![Target(b, side)] = n + 1]
      /\ UNCHANGED <<booking, money, overwrote>> /\ request' = [request EXCEPT ![r] = Idle]
  BY <1>2, <1>3, <1>4 DEF CommitRating, ReviewFree, applyRatingAggregate, Release, Of
<1>8. Rates(r, b, side, n)
  BY <1>1, <1>2, <1>3, <1>4, <1>5, <1>6, <1>7 DEF Rates
<1>9. QED
  BY <1>8

LEMMA OpinionsStayOtherwise ==
  ASSUME [Next]_vars, \A r \in Requests : ~CommitRating(r)
  PROVE  UNCHANGED opinions
BY DEF Next, Handle, vars, database, opinions, create, accept, PaymentWebhook,
       createPaymentOrder, deliverOrder, Hold, ReadTransition, ReadCancel, ReadRating, ReadLatest, CommitTransition, CommitRideCompletion,
       CommitJobCompletion, CommitRideCancel, CommitJobCancel, Rollback

LEMMA OpinionsStayTyped ==
  ASSUME Sound, [Next]_vars
  PROVE  review' \subseteq Bookings \X Sides /\ ratings' \in [Partners \cup {Customer} -> Nat]
<1>1. review \subseteq Bookings \X Sides /\ ratings \in [Partners \cup {Customer} -> Nat]
  BY DEF Sound, TypeOK
<1>2. ASSUME NEW r \in Requests, CommitRating(r)
      PROVE  review' \subseteq Bookings \X Sides /\ ratings' \in [Partners \cup {Customer} -> Nat]
  <2>1. PICK b \in Bookings, side \in Sides, n \in Nat : Rates(r, b, side, n)
    BY <1>2, RatingDoes
  <2>2. QED
    BY <1>1, <2>1 DEF Rates
<1>3. QED
  BY <1>1, <1>2, OpinionsStayOtherwise DEF opinions

\* What happens at the provider.
LEMMA OnlineStaysTyped ==
  ASSUME Sound, [Next]_vars
  PROVE  /\ offered' \subseteq Bookings \X {Fee, Fare} /\ captured' \subseteq Bookings
         /\ captured \subseteq captured'
<1>1. TypeOK /\ offered \subseteq Bookings \X {Fee, Fare} /\ captured \subseteq Bookings
  BY DEF Sound, TypeOK
<1>2. CASE UNCHANGED online
  BY <1>1, <1>2 DEF online
<1>3. ASSUME NEW b \in Bookings, createPaymentOrder(b)
      PROVE  offered' \subseteq Bookings \X {Fee, Fare} /\ captured' = captured
  <2>1. booking[b] \in Row
    BY <1>1, <1>3 DEF createPaymentOrder, Exists, TypeOK
  <2>2. Payable(b) \in {Fee, Fare}
    BY <2>1 DEF Payable, Row
  <2>3. QED
    BY <1>1, <1>3, <2>2 DEF createPaymentOrder
<1>4. ASSUME NEW b \in Bookings, NEW pay \in {"PAID", "FAILED", "REFUNDED"}, PaymentWebhook(b, pay)
      PROVE  offered' = offered /\ captured' \subseteq Bookings /\ captured \subseteq captured'
  BY <1>1, <1>4 DEF PaymentWebhook
<1>5. \/ UNCHANGED online \/ \E b \in Bookings : createPaymentOrder(b)
      \/ \E b \in Bookings, pay \in {"PAID", "FAILED", "REFUNDED"} : PaymentWebhook(b, pay)
  BY DEF Next, Handle, vars, create, accept, deliverOrder, Hold, ReadTransition, ReadCancel, ReadRating,
         ReadLatest, CommitTransition, CommitRideCompletion, CommitJobCompletion,
         CommitRideCancel, CommitJobCancel, CommitRating, Rollback, Release, online
<1>6. QED
  BY <1>1, <1>2, <1>3, <1>4, <1>5

LEMMA SoundInductive == Sound /\ [Next]_vars => Sound'
<1> SUFFICES ASSUME Sound, [Next]_vars PROVE Sound'
  OBVIOUS
<1>1. TypeOK'
  BY RowsStayTyped, RequestsStaySound, MoneyStaysTyped, OpinionsStayTyped, OnlineStaysTyped
     DEF TypeOK, Entry, Referral
<1>2. QED
  BY <1>1, RowsStaySound, RequestsStaySound DEF Sound

LEMMA SoundInitially == Init => Sound
BY DEF Init, Sound, TypeOK, RowsSound, RequestsSound, Exists

\* Every reachable state of tables, ledger, reviews and requests is well typed.
THEOREM TypeCorrect == Spec => []TypeOK
<1>1. Sound => TypeOK
  BY DEF Sound
<1>2. QED
  BY SoundInitially, SoundInductive, <1>1, PTL DEF Spec
-----------------------------------------------------------------------------
\* What becomes of a row, whoever writes it.
LEMMA RowIsNew ==
  ASSUME Sound, [Next]_vars, NEW b \in Bookings, Exists(b)'
  PROVE  \/ booking'[b] = booking[b]
         \/ ~Exists(b) /\ booking'[b].status = "REQUESTED" /\ booking'[b].finalFare = 0
                       /\ booking'[b].pay = "PENDING"
         \/ /\ Exists(b) /\ booking[b].status = "REQUESTED" /\ booking'[b].status = "ASSIGNED"
            /\ booking'[b].finalFare = booking[b].finalFare /\ booking'[b].pay = booking[b].pay
         \/ /\ Exists(b) /\ booking'[b].status = booking[b].status
            /\ booking'[b].finalFare = booking[b].finalFare
            /\ booking'[b].pay = "PAID" => b \in captured'
         \/ \E r \in Requests : /\ Writer(r) /\ b = Of(r) /\ Exists(b)
                               /\ \E row \in Row : Writes(r, row)
<1>1. booking \in [Bookings -> Row \cup {NoBooking}]
  BY DEF Sound, TypeOK
<1>2. ASSUME NEW c \in Bookings, NEW profile \in Profiles[c], create(c, profile),
             booking'[b] # booking[b]
      PROVE  /\ ~Exists(b) /\ booking'[b].status = "REQUESTED" /\ booking'[b].finalFare = 0
             /\ booking'[b].pay = "PENDING"
  BY <1>1, <1>2, NewBookingIsRow DEF create
<1>3. ASSUME NEW c \in Bookings, NEW p \in Partners, accept(c, p), booking'[b] # booking[b]
      PROVE  /\ Exists(b) /\ booking[b].status = "REQUESTED" /\ booking'[b].status = "ASSIGNED"
             /\ booking'[b].finalFare = booking[b].finalFare /\ booking'[b].pay = booking[b].pay
  <2>1. b = c /\ Exists(b) /\ booking[b].status = "REQUESTED" /\ booking[b] \in Row
    BY <1>1, <1>3 DEF accept, Exists
  <2>2. booking'[b] = [booking[b] EXCEPT !.status = "ASSIGNED", !.partner = p]
    BY <1>1, <1>3, <2>1 DEF accept
  <2>3. QED
    BY <2>1, <2>2 DEF Row
<1>4. ASSUME NEW c \in Bookings, NEW pay \in {"PAID", "FAILED", "REFUNDED"},
             PaymentWebhook(c, pay), booking'[b] # booking[b]
      PROVE  /\ Exists(b) /\ booking'[b].status = booking[b].status
             /\ booking'[b].finalFare = booking[b].finalFare
             /\ booking'[b].pay = "PAID" => b \in captured'
  <2>1. b = c /\ Exists(b) /\ booking[b] \in Row /\ (pay = "PAID" => b \in captured')
    BY <1>1, <1>4 DEF PaymentWebhook, Exists
  <2>2. booking'[b] = [booking[b] EXCEPT !.pay = pay]
    BY <1>1, <1>4, <2>1 DEF PaymentWebhook
  <2>3. QED
    BY <2>1, <2>2 DEF Row
<1>5. ASSUME NEW r \in Requests, NEW row \in Row, Writes(r, row), booking'[b] # booking[b]
      PROVE  b = Of(r) /\ Exists(b)
  BY <1>5, RequestIsHeld DEF Writes, Held, Of
<1>6. QED
  BY <1>2, <1>3, <1>4, <1>5, RowsChange

\* A ride that is being completed gets its loyalty, and the referrer is paid.
LEMMA CompletedIsRewarded ==
  ASSUME Sound, RideRewardedOnce, [Next]_vars PROVE RideRewardedOnce'
<1> DEFINE Most(b) == IF Exists(b) /\ booking[b].profile.earns THEN 1 ELSE 0
<1>1. /\ \A b \in Bookings : ledger[b].loyalty \in Nat /\ ledger[b].loyalty <= Most(b)
      /\ referral \in Referral
      /\ referral.entries = IF referral.credited THEN 1 ELSE 0
  BY DEF Sound, TypeOK, RideRewardedOnce, Referral
<1>2. ASSUME NEW b \in Bookings
      PROVE  /\ ledger'[b].loyalty \in Nat /\ ledger'[b].loyalty <= Most(b)'
             /\ ledger[b].loyalty = 1 => ledger'[b].loyalty = 1
  <2>1. Most(b) <= Most(b)' /\ Most(b) \in {0, 1} /\ Most(b)' \in {0, 1}
    BY RowsKeep
  <2>2. CASE ledger'[b].loyalty = ledger[b].loyalty
    BY <1>1, <2>1, <2>2
  <2>3. ASSUME NEW r \in Requests, CommitRideCompletion(r), b = Of(r)
        PROVE  ledger'[b].loyalty = IF Most(b) = 1 THEN 1 ELSE ledger[b].loyalty
    <3>1. Exists(b) /\ Seen(r).profile = booking[b].profile
      BY <2>3, RequestIsHeld DEF CommitRideCompletion, Ready, Held, Of, Seen
    <3>2. ledger'[b].loyalty = IF Seen(r).profile.earns /\ ledger[b].loyalty = 0 THEN 1
                               ELSE ledger[b].loyalty
      BY <2>3, RideCompletionPays DEF Charged
    <3>3. Most(b) = IF Seen(r).profile.earns THEN 1 ELSE 0
      BY <3>1
    <3>4. ledger[b].loyalty \in Nat /\ ledger[b].loyalty <= Most(b)
      BY <1>1
    <3>5. QED
      BY <3>2, <3>3, <3>4
  <2>4. \/ ledger'[b].loyalty = ledger[b].loyalty
        \/ \E r \in Requests : CommitRideCompletion(r) /\ b = Of(r)
    BY RideCompletionPays, JobCompletionPays, RideCancelPays, MoneyStaysOtherwise
       DEF Charged, money
  <2>5. ledger[b].loyalty \in Nat /\ ledger[b].loyalty <= Most(b)
    BY <1>1
  <2> HIDE DEF Most
  <2>6. QED
    BY <2>1, <2>2, <2>3, <2>4, <2>5
<1>3. /\ referral'.entries = IF referral'.credited THEN 1 ELSE 0
      /\ referral'.exists = referral.exists
      /\ referral.credited => referral'.credited
  <2>1. referral' = referral \/ referral' = creditReferralReferrer
    BY RideCompletionPays, JobCompletionPays, RideCancelPays, MoneyStaysOtherwise DEF money
  <2>2. CASE referral' = referral
    BY <1>1, <2>2
  <2>3. CASE referral' = creditReferralReferrer
    <3>1. referral.credited \in BOOLEAN /\ referral.exists \in BOOLEAN
      BY <1>1 DEF Referral
    <3>2. QED
      BY <1>1, <2>3, <3>1, CreditingReferrer
  <2>4. QED
    BY <2>1, <2>2, <2>3
<1>4. ASSUME NEW b \in Bookings, Exists(b)', booking'[b].profile.service = "RIDE",
             booking'[b].status = "COMPLETED"
      PROVE  /\ booking'[b].profile.earns => ledger'[b].loyalty = 1
             /\ referral'.exists => referral'.credited
  <2>1. CASE Exists(b) /\ booking[b].status = "COMPLETED"
    <3>1. /\ booking'[b].profile = booking[b].profile
          /\ booking[b].profile.earns => ledger[b].loyalty = 1
          /\ referral.exists => referral.credited
      BY <1>4, <2>1, RowsKeep DEF RideRewardedOnce
    <3>2. QED
      BY <1>2, <1>3, <3>1
  <2>2. CASE ~(Exists(b) /\ booking[b].status = "COMPLETED")
    <3>1. PICK r \in Requests, row \in Row : Writer(r) /\ Writes(r, row) /\ b = Of(r)
      BY <1>4, <2>2, RowIsNew DEF Exists
    <3>2. /\ request[r].handler = "COMPLETED" /\ Seen(r).profile.service = "RIDE"
          /\ Seen(r).profile = booking'[b].profile
      BY <1>4, <3>1 DEF Writes, Held, Of, Seen
    <3>3. CommitRideCompletion(r)
      BY <3>1, <3>2, TransitionWrites, RideCancelWrites, JobCancelWrites, JobCompletionPays
         DEF Writer
    <3>4. ledger'[b].loyalty = IF Seen(r).profile.earns /\ ledger[b].loyalty = 0 THEN 1
                               ELSE ledger[b].loyalty
      BY <3>1, <3>3, RideCompletionPays DEF Charged
    <3>5. ledger[b].loyalty \in {0, 1}
      BY <1>1
    <3>6. referral'.credited <=> referral.exists \/ referral.credited
      BY <1>1, <3>3, RideCompletionPays, CreditingReferrer
    <3>7. QED
      BY <1>3, <3>2, <3>4, <3>5, <3>6
  <2>3. QED
    BY <2>1, <2>2
<1>5. \A b \in Bookings : ledger'[b].loyalty <= Most(b)'
  BY <1>2
<1>6. QED
  BY <1>3, <1>4, <1>5 DEF RideRewardedOnce

\* A completed ride pays loyalty once, if its fare earns any, and leaves the
\* referrer, if there is one, paid once, though completions race and are retried.
THEOREM RewardsCorrect == Spec => []RideRewardedOnce
<1>1. Init => RideRewardedOnce
  BY DEF Init, RideRewardedOnce, Exists
<1>2. QED
  BY SoundInitially, SoundInductive, CompletedIsRewarded, <1>1, PTL DEF Spec
-----------------------------------------------------------------------------
\* The only way out of the status machine is a stale copy written over the row.
LEMMA MachineStep ==
  ASSUME Sound, [Next]_vars, NEW b \in Bookings, Exists(b), b \notin overwrote'
  PROVE  \/ booking'[b].status = booking[b].status
         \/ canTransition(BookingTransitions(Busy(booking[b].profile.service)),
                          booking[b].status, booking'[b].status)
<1>1. Exists(b)'
  BY RowsKeep
<1>2. CASE booking[b].status = "REQUESTED" /\ booking'[b].status = "ASSIGNED"
  BY <1>2 DEF canTransition, BookingTransitions
<1>3. ASSUME NEW r \in Requests, NEW row \in Row, Writes(r, row), b = Of(r)
      PROVE  canTransition(BookingTransitions(Busy(booking[b].profile.service)),
                           booking[b].status, booking'[b].status)
  <2>1. booking[b].status = Seen(r).status /\ Seen(r).profile = booking[b].profile
    BY <1>3 DEF Writes, Held, Of, Seen
  <2>2. booking'[b].status = request[r].handler /\ assertTransitionAllowed(Seen(r), request[r].handler)
    BY <1>3 DEF Writes, Held, Seen
  <2>3. QED
    BY <2>1, <2>2 DEF assertTransitionAllowed
<1>4. QED
  BY <1>1, <1>2, <1>3, RowIsNew

\* Whatever races, only a handler that writes a stale copy over a row takes a
\* booking out of its status machine.
THEOREM MachineIsLeftStale == Spec => OnlyStaleCopiesLeaveTheMachine
<1> DEFINE Step == \A b \in Bookings : Exists(b) /\ b \notin overwrote' =>
                     \/ booking'[b].status = booking[b].status
                     \/ canTransition(BookingTransitions(Busy(booking[b].profile.service)),
                                      booking[b].status, booking'[b].status)
<1>1. Sound /\ [Next]_vars => [Step]_vars
  BY MachineStep
<1>2. QED
  BY SoundInitially, SoundInductive, <1>1, PTL DEF Spec, OnlyStaleCopiesLeaveTheMachine
-----------------------------------------------------------------------------
\* A booking has no entries before it is there.
NothingYet == \A b \in Bookings : ~Exists(b) => ledger[b].debit = 0 /\ ledger[b].credit = 0

LEMMA EntriesStay ==
  ASSUME Sound, [Next]_vars, NEW b \in Bookings,
         \A r \in Requests : Writer(r) => b # Of(r)
  PROVE  ledger'[b] = ledger[b]
BY RideCompletionPays, JobCompletionPays, RideCancelPays, MoneyStaysOtherwise
   DEF Charged, money, Writer

LEMMA NothingStays == ASSUME Sound, NothingYet, [Next]_vars PROVE NothingYet'
<1> SUFFICES ASSUME NEW b \in Bookings, ~Exists(b)'
             PROVE  ledger'[b].debit = 0 /\ ledger'[b].credit = 0
  BY DEF NothingYet
<1>1. ~Exists(b)
  BY RowsKeep
<1>2. \A r \in Requests : Writer(r) => b # Of(r)
  BY <1>1, TransitionWrites, CompletionWrites, RideCancelWrites, JobCancelWrites
     DEF Writer, Writes, Held, Of
<1>3. QED
  BY <1>1, <1>2, EntriesStay DEF NothingYet

\* What a writer leaves a wallet booking with.
LEMMA WalletIsWritten ==
  ASSUME Sound, WalletMoneyArrives, [Next]_vars, NEW r \in Requests, Writer(r),
         NEW b \in Bookings, b = Of(r), booking'[b].profile.method = "WALLET"
  PROVE  /\ ledger'[b].debit = ledger'[b].credit
         /\ booking'[b].pay = "PAID" /\ b \notin captured' =>
              booking'[b].finalFare \in 1 .. ledger'[b].debit
         /\ booking'[b].status = "COMPLETED" => booking'[b].finalFare <= ledger'[b].debit
<1>1. \E row \in Row : Writes(r, row)
  BY TransitionWrites, CompletionWrites, RideCancelWrites, JobCancelWrites DEF Writer
<1>2. /\ Exists(b) /\ booking[b].profile.method = "WALLET" /\ Seen(r).profile.method = "WALLET"
      /\ booking[b] \in Row /\ booking'[b] \in Row
      /\ booking'[b].status = request[r].handler
      /\ request[r].handler # "CANCELLED" => Seen(r).partner # NoPartner
      /\ request[r].fee > 0 => Seen(r).partner # NoPartner
  BY <1>1 DEF Writes, Held, Of, Seen
<1>3. /\ ledger[b].debit \in Nat /\ ledger[b].debit = ledger[b].credit
      /\ booking[b].pay = "PAID" /\ b \notin captured => booking[b].finalFare \in 1 .. ledger[b].debit
      /\ captured \subseteq captured'
      /\ booking[b].status = "COMPLETED" => booking[b].finalFare <= ledger[b].debit
  BY <1>2, OnlineStaysTyped DEF WalletMoneyArrives, Sound, TypeOK
<1>4. CASE CommitTransition(r)
  <2>1. /\ booking'[b].pay = booking[b].pay /\ booking'[b].finalFare = booking[b].finalFare
        /\ booking'[b].status # "COMPLETED" /\ ledger'[b] = ledger[b]
    BY <1>2, <1>4, TransitionWrites DEF Writes, money
  <2>2. QED
    BY <1>3, <2>1
<1>5. ASSUME NEW amount \in {Fee, Fare}, booking'[b].finalFare = amount,
             ledger'[b].debit = ledger[b].debit + amount,
             ledger'[b].credit = ledger[b].credit + amount
      PROVE  ledger'[b].debit = ledger'[b].credit /\ booking'[b].finalFare \in 1 .. ledger'[b].debit
  BY <1>3, <1>5, AmountsAssumption
<1>6. CASE CommitRideCompletion(r)
  <2>1. /\ booking'[b].finalFare = Fare
        /\ ledger'[b].debit = ledger[b].debit + Fare /\ ledger'[b].credit = ledger[b].credit + Fare
    BY <1>2, <1>6, CompletionWrites, RideCompletionPays DEF Writes, Charged
  <2>2. QED
    BY <1>3, <1>5, <2>1, AmountsAssumption
<1>7. CASE CommitJobCompletion(r)
  <2>1. /\ booking'[b].finalFare = Fare
        /\ ledger'[b].debit = ledger[b].debit + Fare /\ ledger'[b].credit = ledger[b].credit + Fare
    BY <1>2, <1>7, CompletionWrites, JobCompletionPays DEF Writes, Charged
  <2>2. QED
    BY <1>3, <1>5, <2>1, AmountsAssumption
<1>8. CASE CommitRideCancel(r)
  <2>1. booking'[b].status # "COMPLETED"
    BY <1>2, <1>8, RideCancelWrites
  <2>2. CASE request[r].fee > 0
    <3>1. /\ booking'[b].finalFare = Fee
          /\ ledger'[b].debit = ledger[b].debit + Fee /\ ledger'[b].credit = ledger[b].credit + Fee
      BY <1>2, <1>8, <2>2, RideCancelWrites, RideCancelPays DEF Writes, Charged
    <3>2. QED
      BY <1>5, <2>1, <3>1
  <2>3. CASE ~(request[r].fee > 0)
    <3>1. booking'[b].pay = "CANCELLED" /\ ledger'[b].debit = ledger[b].debit
          /\ ledger'[b].credit = ledger[b].credit
      BY <1>2, <1>8, <2>3, RideCancelWrites, RideCancelPays DEF Writes, Charged
    <3>2. QED
      BY <1>3, <2>1, <3>1
  <2>4. QED
    BY <2>2, <2>3
<1>9. CASE CommitJobCancel(r)
  <2>1. /\ booking'[b].pay # "PAID" /\ booking'[b].status # "COMPLETED" /\ ledger'[b] = ledger[b]
    BY <1>2, <1>9, JobCancelWrites DEF Writes, money
  <2>2. QED
    BY <1>3, <2>1
<1>10. QED
  BY <1>4, <1>6, <1>7, <1>8, <1>9 DEF Writer

LEMMA WalletInductive ==
  Sound /\ NothingYet /\ WalletMoneyArrives /\ [Next]_vars => WalletMoneyArrives'
<1> SUFFICES ASSUME Sound, NothingYet, WalletMoneyArrives, [Next]_vars,
                    NEW b \in Bookings, Exists(b)', booking'[b].profile.method = "WALLET"
             PROVE  /\ ledger'[b].debit = ledger'[b].credit
                    /\ booking'[b].pay = "PAID" /\ b \notin captured' =>
                         booking'[b].finalFare \in 1 .. ledger'[b].debit
                    /\ booking'[b].status = "COMPLETED" => booking'[b].finalFare <= ledger'[b].debit
  BY DEF WalletMoneyArrives
<1>1. ASSUME NEW r \in Requests, Writer(r), b = Of(r)
      PROVE  /\ ledger'[b].debit = ledger'[b].credit
             /\ booking'[b].pay = "PAID" /\ b \notin captured' =>
                  booking'[b].finalFare \in 1 .. ledger'[b].debit
             /\ booking'[b].status = "COMPLETED" => booking'[b].finalFare <= ledger'[b].debit
  BY <1>1, WalletIsWritten
<1>2. ASSUME \A r \in Requests : Writer(r) => b # Of(r)
      PROVE  /\ ledger'[b].debit = ledger'[b].credit
             /\ booking'[b].pay = "PAID" /\ b \notin captured' =>
                  booking'[b].finalFare \in 1 .. ledger'[b].debit
             /\ booking'[b].status = "COMPLETED" => booking'[b].finalFare <= ledger'[b].debit
  <2>1. /\ ledger'[b] = ledger[b] /\ (Exists(b) => booking'[b].profile = booking[b].profile)
        /\ captured \subseteq captured'
    BY <1>2, EntriesStay, RowsKeep, OnlineStaysTyped
  <2>2. CASE booking'[b] = booking[b]
    BY <2>1, <2>2 DEF WalletMoneyArrives, Exists
  <2>3. CASE ~Exists(b) /\ booking'[b].status = "REQUESTED" /\ booking'[b].pay = "PENDING"
    BY <2>1, <2>3 DEF NothingYet
  <2>4. CASE /\ Exists(b) /\ booking'[b].status = "ASSIGNED"
             /\ booking'[b].finalFare = booking[b].finalFare /\ booking'[b].pay = booking[b].pay
    BY <2>1, <2>4 DEF WalletMoneyArrives
  <2>5. CASE /\ Exists(b) /\ booking'[b].status = booking[b].status
             /\ booking'[b].finalFare = booking[b].finalFare
             /\ booking'[b].pay = "PAID" => b \in captured'
    BY <2>1, <2>5 DEF WalletMoneyArrives
  <2>6. QED
    BY <1>2, <2>2, <2>3, <2>4, <2>5, RowIsNew
<1>3. QED
  BY <1>1, <1>2

\* Whatever a customer's wallet pays for a booking reaches the partner, and a
\* wallet booking that is completed, or marked paid though nothing was captured
\* online, was debited its final fare.
THEOREM WalletCorrect == Spec => []WalletMoneyArrives
<1>1. Init => NothingYet /\ WalletMoneyArrives
  BY DEF Init, NothingYet, WalletMoneyArrives, Exists
<1>2. Sound /\ NothingYet /\ [Next]_vars => NothingYet'
  BY NothingStays
<1>3. QED
  BY SoundInitially, SoundInductive, WalletInductive, <1>1, <1>2, PTL DEF Spec
-----------------------------------------------------------------------------
\* While nothing stale was written over it, a booking that goes on has no final
\* fare, and neither has the copy that a handler will write from.
Unpaid ==
  \A b \in Bookings \ overwrote :
    Exists(b) /\ booking[b].status \notin {"COMPLETED", "CANCELLED"} => booking[b].finalFare = 0

SeenUnpaid ==
  \A r \in Requests :
    request[r] # Idle /\ request[r].handler # "RATE" /\ Of(r) \notin overwrote =>
      Seen(r).finalFare = 0

ChargeInv == NothingYet /\ Unpaid /\ SeenUnpaid /\ ChargedExactly

LEMMA OverwroteGrows == ASSUME Sound, [Next]_vars PROVE overwrote \subseteq overwrote'
BY RowsChange DEF create, accept, PaymentWebhook, Writes

\* A handler that does not write a stale copy writes over an open booking.
LEMMA FreshWriters ==
  ASSUME Sound, ChargeInv, [Next]_vars, NEW r \in Requests, Writer(r),
         NEW b \in Bookings \ overwrote', b = Of(r)
  PROVE  /\ Exists(b) /\ booking[b] \in Row /\ booking'[b] \in Row
         /\ booking[b].finalFare = 0 /\ Seen(r).finalFare = 0
         /\ ledger[b].credit = 0
         /\ booking'[b].status = request[r].handler
         /\ Seen(r).profile = booking'[b].profile
         /\ request[r].handler # "CANCELLED" => Seen(r).partner # NoPartner
         /\ request[r].fee > 0 => Seen(r).partner # NoPartner
<1>1. \E row \in Row : Writes(r, row)
  BY TransitionWrites, CompletionWrites, RideCancelWrites, JobCancelWrites DEF Writer
<1>2. /\ request[r] # Idle /\ request[r].handler # "RATE" /\ Held(request[r])
      /\ Exists(b) /\ booking[b] \in Row /\ Seen(r) \in Row
  BY <1>1, RequestIsHeld, IdleAssumption DEF Writes, Exists
<1>3. b \notin overwrote /\ booking[b].status = Seen(r).status
  BY <1>1 DEF Writes
<1>4. booking[b].status \notin {"COMPLETED", "CANCELLED"}
  BY <1>2, <1>3, StatusesMove DEF Held, Seen
<1>5. booking[b].finalFare = 0 /\ Seen(r).finalFare = 0
  BY <1>2, <1>3, <1>4 DEF ChargeInv, Unpaid, SeenUnpaid
<1>6. ledger[b].credit = 0
  BY <1>2, <1>3, <1>4 DEF ChargeInv, ChargedExactly, Owed
<1>7. QED
  BY <1>1, <1>2, <1>5, <1>6 DEF Writes, Held, Of, Seen

LEMMA UnpaidStays == ASSUME Sound, ChargeInv, [Next]_vars PROVE Unpaid'
<1> SUFFICES ASSUME NEW b \in Bookings \ overwrote', Exists(b)',
                    booking'[b].status \notin {"COMPLETED", "CANCELLED"}
             PROVE  booking'[b].finalFare = 0
  BY DEF Unpaid
<1>1. b \notin overwrote
  BY OverwroteGrows
<1>2. CASE \E r \in Requests : Writer(r) /\ b = Of(r)
  <2>1. PICK r \in Requests : Writer(r) /\ b = Of(r)
    BY <1>2
  <2>2. /\ booking[b].finalFare = 0 /\ booking'[b].status = request[r].handler
    BY <2>1, FreshWriters
  <2>3. CommitTransition(r)
    BY <2>1, <2>2, CompletionWrites, RideCancelWrites, JobCancelWrites DEF Writer
  <2>4. QED
    BY <2>1, <2>2, <2>3, TransitionWrites DEF Writes
<1>3. CASE ~\E r \in Requests : Writer(r) /\ b = Of(r)
  BY <1>1, <1>3, RowIsNew DEF ChargeInv, Unpaid, Exists
<1>4. QED
  BY <1>2, <1>3

LEMMA SeenStaysUnpaid == ASSUME Sound, ChargeInv, [Next]_vars PROVE SeenUnpaid'
<1> SUFFICES ASSUME NEW s \in Requests, request'[s] # Idle, request'[s].handler # "RATE",
                    Of(s)' \notin overwrote'
             PROVE  Seen(s)'.finalFare = 0
  BY DEF SeenUnpaid
<1>1. overwrote \subseteq overwrote' /\ request \in [Requests -> InFlight \cup {Idle}]
  BY OverwroteGrows DEF Sound, TypeOK
<1>2. CASE request'[s] = request[s]
  BY <1>1, <1>2 DEF ChargeInv, SeenUnpaid, Of, Seen
<1>3. ASSUME NEW r \in Requests, NEW q \in InFlight, request' = [request EXCEPT ![r] = q],
             Held(q), q.seen = booking[q.booking], UNCHANGED database
      PROVE  Seen(s)'.finalFare = 0
  <2>1. CASE s # r
    BY <1>1, <1>2, <1>3, <2>1
  <2>2. CASE s = r
    <3>1. request'[s] = q
      BY <1>1, <1>3, <2>2
    <3>2. q.handler # "RATE" /\ q.booking \in Bookings \ overwrote /\ Exists(q.booking) /\ q.seen \in Row
      BY <1>1, <1>3, <3>1 DEF InFlight, Held, Of
    <3>3. q.seen.status \notin {"COMPLETED", "CANCELLED"}
      BY <1>3, <3>2, StatusesMove DEF Held
    <3>4. q.seen.finalFare = 0
      BY <1>3, <3>2, <3>3 DEF ChargeInv, Unpaid
    <3>5. QED
      BY <3>1, <3>4 DEF Seen
  <2>3. QED
    BY <2>1, <2>2
<1>4. ASSUME NEW r \in Requests, Release(r) PROVE Seen(s)'.finalFare = 0
  BY <1>1, <1>2, <1>4 DEF Release
<1>5. QED
  BY <1>2, <1>3, <1>4, RequestsChange, ReadersHold, LatestIsHeld

\* What a fresh writer leaves in the ledger is what its row owes.
LEMMA FreshWritersCharge ==
  ASSUME Sound, ChargeInv, [Next]_vars, NEW r \in Requests, Writer(r),
         NEW b \in Bookings \ overwrote', b = Of(r)
  PROVE  ledger'[b].credit = Owed(booking'[b])
<1>1. PICK method \in Methods : method = booking'[b].profile.method
  BY FreshWriters DEF Row, Profile
<1>2. /\ Exists(b) /\ booking[b] \in Row /\ booking'[b] \in Row
      /\ booking[b].finalFare = 0 /\ Seen(r).finalFare = 0 /\ ledger[b].credit = 0
      /\ booking'[b].status = request[r].handler
      /\ Seen(r).profile = booking'[b].profile /\ Seen(r).profile.method = method
      /\ request[r].handler # "CANCELLED" => Seen(r).partner # NoPartner
      /\ request[r].fee > 0 => Seen(r).partner # NoPartner
  BY <1>1, FreshWriters
<1>3. CASE CommitTransition(r)
  <2>1. ledger'[b].credit = 0 /\ booking'[b].status \notin {"COMPLETED", "CANCELLED"}
    BY <1>2, <1>3, TransitionWrites DEF money
  <2>2. QED
    BY <2>1 DEF Owed
<1>4. CASE CommitRideCompletion(r)
  <2>1. /\ booking'[b].status = "COMPLETED" /\ booking'[b].profile.service = "RIDE"
        /\ ledger'[b].credit = IF method = "WALLET" THEN 0 + Fare ELSE 0
    BY <1>2, <1>4, CompletionWrites, RideCompletionPays DEF Charged
  <2>2. QED
    BY <1>1, <2>1, AmountsAssumption DEF Owed, Methods
<1>5. CASE CommitJobCompletion(r)
  <2>1. /\ booking'[b].status = "COMPLETED" /\ booking'[b].profile.service # "RIDE"
        /\ ledger'[b].credit = IF method # "ONLINE" THEN 0 + Fare ELSE 0
    BY <1>2, <1>5, CompletionWrites, JobCompletionPays DEF Charged
  <2>2. QED
    BY <1>1, <2>1, AmountsAssumption DEF Owed
<1>6. CASE CommitRideCancel(r)
  <2>1. booking'[b].status = "CANCELLED" /\ request[r].fee \in {0, Fee}
    BY <1>2, <1>6, RideCancelWrites
  <2>2. CASE request[r].fee > 0
    <3>1. /\ booking'[b].finalFare = Fee
          /\ ledger'[b].credit = IF method # "ONLINE" THEN 0 + Fee ELSE 0
      BY <1>2, <1>6, <2>2, RideCancelWrites, RideCancelPays DEF Writes, Charged
    <3>2. QED
      BY <1>1, <2>1, <3>1, AmountsAssumption DEF Owed
  <2>3. CASE ~(request[r].fee > 0)
    <3>1. booking'[b].finalFare = 0 /\ ledger'[b].credit = 0
      BY <1>2, <1>6, <2>3, RideCancelWrites, RideCancelPays DEF Writes, Charged
    <3>2. QED
      BY <1>1, <2>1, <3>1 DEF Owed
  <2>4. QED
    BY <2>2, <2>3
<1>7. CASE CommitJobCancel(r)
  <2>1. /\ booking'[b].status = "CANCELLED" /\ booking'[b].finalFare = 0
        /\ ledger'[b].credit = 0
    BY <1>2, <1>7, JobCancelWrites DEF Writes, money
  <2>2. QED
    BY <2>1 DEF Owed
<1>8. QED
  BY <1>3, <1>4, <1>5, <1>6, <1>7 DEF Writer

LEMMA ChargedStaysExact == ASSUME Sound, ChargeInv, [Next]_vars PROVE ChargedExactly'
<1> SUFFICES ASSUME NEW b \in Bookings \ overwrote', Exists(b)'
             PROVE  ledger'[b].credit = Owed(booking'[b])
  BY DEF ChargedExactly, Owed
<1>1. b \notin overwrote
  BY OverwroteGrows
<1>2. CASE \E r \in Requests : Writer(r) /\ b = Of(r)
  BY <1>2, FreshWritersCharge
<1>3. CASE ~\E r \in Requests : Writer(r) /\ b = Of(r)
  <2>1. ledger'[b] = ledger[b] /\ (Exists(b) => booking'[b].profile = booking[b].profile)
    BY <1>3, EntriesStay, RowsKeep
  <2>2. CASE booking'[b] = booking[b]
    BY <1>1, <2>1, <2>2 DEF ChargeInv, ChargedExactly, Exists
  <2>3. CASE ~Exists(b) /\ booking'[b].status = "REQUESTED"
    BY <2>1, <2>3 DEF ChargeInv, NothingYet, Owed
  <2>4. CASE /\ Exists(b) /\ booking[b].status = "REQUESTED" /\ booking'[b].status = "ASSIGNED"
    BY <1>1, <2>1, <2>4 DEF ChargeInv, ChargedExactly, Owed
  <2>5. CASE /\ Exists(b) /\ booking'[b].status = booking[b].status
             /\ booking'[b].finalFare = booking[b].finalFare
    BY <1>1, <2>1, <2>5 DEF ChargeInv, ChargedExactly, Owed
  <2>6. QED
    BY <1>3, <2>2, <2>3, <2>4, <2>5, RowIsNew
<1>4. QED
  BY <1>2, <1>3

\* As long as no handler has written a stale copy over its row, a booking is
\* charged exactly: the fare when it completes, the fee when it is cancelled
\* with one, else nothing.
THEOREM ChargedCorrect == Spec => []ChargedExactly
<1>1. Init => ChargeInv
  BY DEF Init, ChargeInv, NothingYet, Unpaid, SeenUnpaid, ChargedExactly, Exists
<1>2. Sound /\ ChargeInv /\ [Next]_vars => ChargeInv'
  BY NothingStays, UnpaidStays, SeenStaysUnpaid, ChargedStaysExact DEF ChargeInv
<1>3. ChargeInv => ChargedExactly
  BY DEF ChargeInv
<1>4. QED
  BY SoundInitially, SoundInductive, <1>1, <1>2, <1>3, PTL DEF Spec
-----------------------------------------------------------------------------
ReviewsOf(u) == {x \in review : Target(x[1], x[2]) = u}

\* A rating in flight read a count that the reviews account for.
RatingInv ==
  /\ IsFiniteSet(review)
  /\ \A x \in review : Exists(x[1]) /\ booking[x[1]].partner # NoPartner
  /\ \A r \in Requests : request[r] # Idle /\ request[r].handler = "RATE" =>
       request[r].count <= Cardinality(ReviewsOf(Target(Of(r), request[r].side)))
  /\ \A u \in Partners \cup {Customer} : ratings[u] <= Cardinality(ReviewsOf(u))

\* Who is reviewed stays.
LEMMA TargetStays ==
  ASSUME Sound, [Next]_vars, NEW b \in Bookings, NEW side, Exists(b),
         booking[b].partner # NoPartner
  PROVE  /\ Target(b, side)' = Target(b, side) /\ Exists(b)' /\ booking'[b].partner # NoPartner
         /\ Target(b, side) \in Partners \cup {Customer}
<1>1. booking[b] \in Row /\ booking'[b].partner = booking[b].partner /\ Exists(b)'
  BY RowsKeep
<1>2. QED
  BY <1>1 DEF Target, Row

LEMMA ReviewsGrow ==
  ASSUME Sound, RatingInv, [Next]_vars
  PROVE  /\ IsFiniteSet(review)' /\ review \subseteq review'
         /\ \A x \in review' : Exists(x[1])' /\ booking'[x[1]].partner # NoPartner
<1>1. review \subseteq Bookings \X Sides /\ IsFiniteSet(review)
  BY DEF Sound, TypeOK, RatingInv
<1>2. \A x \in review : Exists(x[1])' /\ booking'[x[1]].partner # NoPartner
  BY <1>1, TargetStays DEF RatingInv
<1>3. ASSUME NEW r \in Requests, CommitRating(r)
      PROVE  /\ IsFiniteSet(review)' /\ review \subseteq review'
             /\ \A x \in review' : Exists(x[1])' /\ booking'[x[1]].partner # NoPartner
  <2>1. PICK b \in Bookings, side \in Sides, n \in Nat : Rates(r, b, side, n)
    BY <1>3, RatingDoes
  <2>2. review' = review \cup {<<b, side>>} /\ Exists(b)' /\ booking'[b].partner # NoPartner
    BY <2>1, TargetStays DEF Rates
  <2>3. IsFiniteSet(review')
    BY <1>1, <2>2, FS_AddElement
  <2>4. QED
    BY <1>2, <2>2, <2>3
<1>4. CASE UNCHANGED opinions
  BY <1>1, <1>2, <1>4 DEF opinions
<1>5. QED
  BY <1>3, <1>4, OpinionsStayOtherwise

LEMMA ReviewsOfGrow ==
  ASSUME Sound, RatingInv, [Next]_vars, NEW u
  PROVE  /\ ReviewsOf(u) \subseteq ReviewsOf(u)'
         /\ IsFiniteSet(ReviewsOf(u)) /\ Cardinality(ReviewsOf(u)) \in Nat
         /\ IsFiniteSet(ReviewsOf(u)') /\ Cardinality(ReviewsOf(u)') \in Nat
         /\ Cardinality(ReviewsOf(u)) <= Cardinality(ReviewsOf(u)')
<1>1. review \subseteq Bookings \X Sides /\ IsFiniteSet(review) /\ IsFiniteSet(review')
      /\ review \subseteq review'
  BY ReviewsGrow DEF Sound, TypeOK, RatingInv
<1>2. \A x \in review : Target(x[1], x[2])' = Target(x[1], x[2])
  BY <1>1, TargetStays DEF RatingInv
<1>3. ReviewsOf(u) \subseteq ReviewsOf(u)'
  BY <1>1, <1>2 DEF ReviewsOf
<1>4. ReviewsOf(u) \in SUBSET review /\ ReviewsOf(u)' \in SUBSET review'
  BY DEF ReviewsOf
<1>5. IsFiniteSet(ReviewsOf(u)) /\ IsFiniteSet(ReviewsOf(u)')
  BY <1>1, <1>4, FS_Subset
<1>6. QED
  BY <1>3, <1>5, FS_Subset, FS_CardinalityType

LEMMA CountsStay ==
  ASSUME Sound, RatingInv, [Next]_vars,
         NEW s \in Requests, request'[s] # Idle, request'[s].handler = "RATE"
  PROVE  request'[s].count <= Cardinality(ReviewsOf(Target(Of(s), request[s].side))')
<1>1. request \in [Requests -> InFlight \cup {Idle}]
  BY DEF Sound, TypeOK
<1>2. ASSUME NEW b \in Bookings, NEW side, NEW n \in Nat, Exists(b), booking[b].partner # NoPartner,
             n <= Cardinality(ReviewsOf(Target(b, side)))
      PROVE  n <= Cardinality(ReviewsOf(Target(b, side))')
  <2>1. PICK u : u = Target(b, side)
    OBVIOUS
  <2>2. Target(b, side)' = u
    BY <1>2, <2>1, TargetStays
  <2>3. /\ Cardinality(ReviewsOf(u)) \in Nat /\ Cardinality(ReviewsOf(u)') \in Nat
        /\ Cardinality(ReviewsOf(u)) <= Cardinality(ReviewsOf(u)')
    BY ReviewsOfGrow
  <2>4. n <= Cardinality(ReviewsOf(u)')
    BY <1>2, <2>1, <2>3
  <2>5. ReviewsOf(Target(b, side))' = ReviewsOf(u)'
    BY <2>2 DEF ReviewsOf
  <2>6. QED
    BY <2>4, <2>5
<1>3. ASSUME request'[s] = request[s]
      PROVE  request'[s].count <= Cardinality(ReviewsOf(Target(Of(s), request[s].side))')
  <2>1. /\ Of(s) \in Bookings /\ request[s].count \in Nat /\ Exists(Of(s))
        /\ booking[Of(s)].partner # NoPartner
        /\ request[s].count <= Cardinality(ReviewsOf(Target(Of(s), request[s].side)))
    BY <1>3, RequestIsHeld DEF Held, Of, Exists, RatingInv
  <2>2. PICK b \in Bookings : b = Of(s)
    BY <2>1
  <2>3. PICK side : side = request[s].side
    OBVIOUS
  <2>4. PICK n \in Nat : n = request[s].count
    BY <2>1
  <2>5. n <= Cardinality(ReviewsOf(Target(b, side))')
    BY <1>2, <2>1, <2>2, <2>3, <2>4
  <2>6. Of(s)' = b /\ request'[s].side = side /\ request'[s].count = n
    BY <1>3, <2>2, <2>3, <2>4 DEF Of
  <2>7. ReviewsOf(Target(Of(s), request[s].side))' = ReviewsOf(Target(b, side))'
    BY <2>6 DEF ReviewsOf, Target
  <2>8. QED
    BY <2>5, <2>6, <2>7
<1>4. ASSUME NEW r \in Requests, NEW q \in InFlight, request' = [request EXCEPT ![r] = q], Held(q),
             q.handler = "RATE" => q.count = ratings[Target(q.booking, q.side)],
             UNCHANGED database
      PROVE  request'[s].count <= Cardinality(ReviewsOf(Target(Of(s), request[s].side))')
  <2>1. CASE s # r
    BY <1>1, <1>3, <1>4, <2>1
  <2>2. CASE s = r
    <3>1. request'[s] = q /\ q.handler = "RATE"
      BY <1>1, <1>4, <2>2
    <3>2. /\ q.booking \in Bookings /\ Exists(q.booking) /\ booking[q.booking].partner # NoPartner
          /\ q.count \in Nat
      BY <1>4, <3>1 DEF Held, InFlight
    <3>3. Target(q.booking, q.side) \in Partners \cup {Customer}
      BY <3>2, TargetStays
    <3>4. q.count <= Cardinality(ReviewsOf(Target(q.booking, q.side)))
      BY <1>4, <3>1, <3>3 DEF RatingInv
    <3>5. q.count <= Cardinality(ReviewsOf(Target(q.booking, q.side))')
      BY <1>2, <3>2, <3>4
    <3>6. ReviewsOf(Target(Of(s), request[s].side))' = ReviewsOf(Target(q.booking, q.side))'
      BY <3>1 DEF ReviewsOf, Target, Of
    <3>7. QED
      BY <3>1, <3>5, <3>6
  <2>3. QED
    BY <2>1, <2>2
<1>5. ASSUME NEW r \in Requests, Release(r)
      PROVE  request'[s].count <= Cardinality(ReviewsOf(Target(Of(s), request[s].side))')
  BY <1>1, <1>3, <1>5 DEF Release
<1>6. QED
  BY <1>3, <1>4, <1>5, RequestsChange, ReadersHold, LatestIsHeld

LEMMA RatingsStay ==
  ASSUME Sound, RatingInv, [Next]_vars, NEW u \in Partners \cup {Customer}
  PROVE  ratings'[u] <= Cardinality(ReviewsOf(u)')
<1>1. ratings \in [Partners \cup {Customer} -> Nat]
  BY DEF Sound, TypeOK
<1>2. /\ Cardinality(ReviewsOf(u)) \in Nat /\ Cardinality(ReviewsOf(u)') \in Nat
      /\ Cardinality(ReviewsOf(u)) <= Cardinality(ReviewsOf(u)') /\ IsFiniteSet(ReviewsOf(u))
      /\ ratings[u] <= Cardinality(ReviewsOf(u))
  BY ReviewsOfGrow DEF RatingInv
<1>3. ASSUME ratings'[u] = ratings[u] PROVE ratings'[u] <= Cardinality(ReviewsOf(u)')
  BY <1>1, <1>2, <1>3
<1>4. ASSUME NEW r \in Requests, CommitRating(r) PROVE ratings'[u] <= Cardinality(ReviewsOf(u)')
  <2>1. PICK b \in Bookings, side \in Sides, n \in Nat : Rates(r, b, side, n)
    BY <1>4, RatingDoes
  <2>2. ratings' = [ratings EXCEPT ![Target(b, side)] = n + 1]
    BY <2>1 DEF Rates
  <2>3. CASE Target(b, side) # u
    BY <1>1, <1>3, <2>2, <2>3
  <2>4. CASE Target(b, side) = u
    <3>1. ratings'[u] = n + 1
      BY <1>1, <2>2, <2>4
    <3>2. n <= Cardinality(ReviewsOf(u))
      BY <2>1, <2>4 DEF Rates, RatingInv
    <3>3. <<b, side>> \notin ReviewsOf(u) /\ <<b, side>> \in ReviewsOf(u)'
          /\ ReviewsOf(u) \subseteq ReviewsOf(u)'
      <4>1. Target(b, side)' = u
        BY <2>1, <2>4 DEF Rates, Target
      <4>2. <<b, side>> \notin review /\ <<b, side>> \in review'
        BY <2>1 DEF Rates
      <4>3. QED
        BY <4>1, <4>2, ReviewsOfGrow DEF ReviewsOf
    <3>4. /\ Cardinality(ReviewsOf(u) \cup {<<b, side>>}) = Cardinality(ReviewsOf(u)) + 1
          /\ ReviewsOf(u) \cup {<<b, side>>} \in SUBSET (ReviewsOf(u)')
      BY <1>2, <3>3, FS_AddElement
    <3>5. IsFiniteSet(ReviewsOf(u)')
      BY ReviewsOfGrow
    <3>6. Cardinality(ReviewsOf(u) \cup {<<b, side>>}) <= Cardinality(ReviewsOf(u)')
      BY <3>4, <3>5, FS_Subset
    <3>7. QED
      BY <1>2, <3>1, <3>2, <3>4, <3>6
  <2>5. QED
    BY <2>3, <2>4
<1>5. QED
  BY <1>3, <1>4, OpinionsStayOtherwise DEF opinions

\* A rating sent twice, or twice at once, never counts twice, though concurrent
\* ratings may lose a count.
THEOREM RatingsCorrect == Spec => []RatingsNeverDoubled
<1>1. Init => RatingInv
  <2> SUFFICES ASSUME Init PROVE RatingInv
    OBVIOUS
  <2>1. \A u : ReviewsOf(u) = {}
    BY DEF Init, ReviewsOf
  <2>2. review = {} /\ IsFiniteSet(review)
    BY FS_EmptySet DEF Init
  <2>3. \A r \in Requests : request[r] = Idle
    BY DEF Init
  <2>4. \A u \in Partners \cup {Customer} : ratings[u] = 0 /\ Cardinality(ReviewsOf(u)) = 0
    <3>1. \A u \in Partners \cup {Customer} : ratings[u] = 0
      BY DEF Init
    <3>2. \A u : Cardinality(ReviewsOf(u)) = 0
      BY <2>1, FS_EmptySet
    <3>3. QED
      BY <3>1, <3>2
  <2>5. \A u \in Partners \cup {Customer} : ratings[u] <= Cardinality(ReviewsOf(u))
    BY <2>4
  <2>6. QED
    BY <2>2, <2>3, <2>5 DEF RatingInv
<1>2. Sound /\ RatingInv /\ [Next]_vars => RatingInv'
  BY ReviewsGrow, CountsStay, RatingsStay DEF RatingInv
<1>3. RatingInv => RatingsNeverDoubled
  BY DEF RatingInv, RatingsNeverDoubled, ReviewsOf
<1>4. QED
  BY SoundInitially, SoundInductive, <1>1, <1>2, <1>3, PTL DEF Spec
=============================================================================
