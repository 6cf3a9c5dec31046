---------------------------- MODULE OrderLifecycle ----------------------------
(***************************************************************************)
(* The life of marketplace orders after checkout: the handlers of          *)
(* orders.service.ts that change an order row, run by concurrent API       *)
(* requests, together with the payment webhooks that write the same row.   *)
(*                                                                         *)
(* Every handler runs at PostgreSQL's READ COMMITTED.  It is split where   *)
(* the database splits it: a Read step takes a copy of the row and passes  *)
(* the checks of the handler, a Commit step writes the columns the handler *)
(* writes, computed from the copy, whatever the row holds by then.  An     *)
(* UPDATE with a WHERE on the old value is one step, because PostgreSQL    *)
(* re-evaluates the condition under the row lock.                          *)
(*                                                                         *)
(* Requests that a handler rejects (wrong role, wrong handoff code, store  *)
(* or partner not approved) change nothing and are left out.  Two checks   *)
(* of the same condition, before and inside the transaction, are one Read. *)
(***************************************************************************)
EXTENDS StatusMachines, FiniteSets

CONSTANTS
  Orders,       \* orders of one customer, whom another user may have referred
  Partners,     \* approved, online delivery partners
  Items,        \* lines of each order
  Requests,     \* API requests that can be in flight together
  Schedulers,   \* maintenance timers, one for each running API process
  NoPartner,    \* deliveryPartnerId is null
  Idle,         \* no request in the slot
  Profiles,     \* kinds of order considered
  MaxRequests,  \* bounds: API requests that start in a behaviour,
  MaxOffers     \* ... and payment orders made for an order at the provider

Slots == Requests \cup Schedulers

Services == {"FOOD", "GROCERY", "PHARMACY"}
Methods == {"WALLET", "CASH", "ONLINE"}
PaymentStatus == {"PENDING", "PAID", "FAILED", "REFUNDED", "CANCELLED"}
PrescriptionStatus == {"NONE", "UPLOADED", "VERIFIED", "REJECTED"}
SubstitutionStatus == {"NONE", "PROPOSED", "APPROVED", "REJECTED"}

\* earns: the loyalty points of the total do not round to 0.
Profile == [service : Services, method : Methods, earns : BOOLEAN]

ASSUME ProfilesAssumption == Profiles \subseteq Profile
ASSUME NoPartnerAssumption == NoPartner \notin Partners
ASSUME SlotsAssumption == Requests \cap Schedulers = {}
ASSUME BoundsAssumption == MaxRequests \in Nat /\ MaxOffers \in Nat

Row == [ status : OrderStatus, timeline : Seq(OrderStatus), pay : PaymentStatus,
         prescription : PrescriptionStatus, items : [Items -> SubstitutionStatus],
         partner : Partners \cup {NoPartner}, profile : Profiles ]

\* A request between its read and its write: the handler, the order, the row
\* it read, and the items or prescription verdict it will store.
Handlers == { "ACCEPTED", "PREPARING", "READY", "PICKED_UP", "DELIVERED",
              "CANCEL", "AUTO_CANCEL", "PRESCRIPTION", "ITEMS" }
InFlight == [ handler : Handlers, order : Orders, seen : Row,
              items : [Items -> SubstitutionStatus], verdict : PrescriptionStatus ]

Entries == [ captured : Nat, providerRefund : Nat, cancelRefund : Nat,
             storeDebit : Nat, loyalty : Nat ]

VARIABLES
  order,      \* the Order table
  request,    \* requests in flight
  ledger,     \* LedgerEntry rows of each order, counted by what they record
  referral,   \* the customer's Referral row, if any, and the referrer's PROMOTION entries
  restocked,  \* how often the stock of an order's lines was given back
  announced,  \* statuses an outbox event was written for
  verified,   \* history: orders whose prescription a pharmacist verified
  offers,     \* provider: how many payment orders it has for an order
  started     \* how many requests started (bounded by MaxRequests)

vars == <<order, request, ledger, referral, restocked, announced, verified, offers, started>>
-----------------------------------------------------------------------------
TypeOK ==
  /\ order \in [Orders -> Row]
  /\ request \in [Slots -> InFlight \cup {Idle}]
  /\ ledger \in [Orders -> Entries]
  /\ referral \in [exists : BOOLEAN, credited : BOOLEAN, entries : Nat]
  /\ restocked \in [Orders -> Nat]
  /\ announced \in [Orders -> SUBSET OrderStatus]
  /\ verified \subseteq Orders
  /\ offers \in [Orders -> Nat]
  /\ started \in Nat

\* The row checkout() inserts.
NewOrder(profile) ==
  [ status |-> "PLACED", timeline |-> <<"PLACED">>,
    pay |-> IF profile.method = "WALLET" THEN "PAID" ELSE "PENDING",
    prescription |-> IF profile.service = "PHARMACY" THEN "UPLOADED" ELSE "NONE",
    items |-> [i \in Items |-> "NONE"], partner |-> NoPartner, profile |-> profile ]

Init ==
  /\ order \in [Orders -> {NewOrder(p) : p \in Profiles}]
  /\ request = [r \in Slots |-> Idle]
  /\ ledger = [o \in Orders |-> [captured |-> 0, providerRefund |-> 0, cancelRefund |-> 0,
                                 storeDebit |-> 0, loyalty |-> 0]]
  /\ \E exists \in BOOLEAN :
       referral = [exists |-> exists, credited |-> FALSE, entries |-> 0]
  /\ restocked = [o \in Orders |-> 0]
  /\ announced = [o \in Orders |-> {}]
  /\ verified = {}
  /\ offers = [o \in Orders |-> 0]
  /\ started = 0

\* The database rows; a step that only reads leaves them unchanged.
database == <<order, ledger, referral, restocked, announced, verified>>

assertTransitionAllowed(from, to) == canTransition(orderStatusTransitions, from, to)

assertNoPendingSubstitutions(row) == \A i \in Items : row.items[i] # "PROPOSED"

\* Mutants (named Wrong...) are plausible bugs of the definition that follows;
\* no specification uses them.
WrongPrescriptionVerified(row) ==
  row.profile.service = "PHARMACY" => row.prescription # "REJECTED"

assertPrescriptionVerifiedForAcceptance(row) ==
  row.profile.service = "PHARMACY" => row.prescription = "VERIFIED"

\* Handler h in slot r has read order o and will store these values.
Hold(r, h, o, items, verdict) ==
  /\ request[r] = Idle
  /\ request' = [request EXCEPT ![r] =
       [handler |-> h, order |-> o, seen |-> order[o], items |-> items, verdict |-> verdict]]
  /\ UNCHANGED <<database, offers>>

HoldRow(r, h, o) == Hold(r, h, o, order[o].items, order[o].prescription)

CountRequest == started < MaxRequests /\ started' = started + 1

Release(r) == request' = [request EXCEPT ![r] = Idle] /\ UNCHANGED <<offers, started>>

\* UPDATE "Order" SET status, timeline, paymentStatus and its outbox event.
\* The timeline is the one that was read, with the new status appended.
appendTimeline(seen, status) == Append(seen.timeline, status)

WrongWriteFreshTimeline(o, seen, status, pay) ==
  /\ order' = [order EXCEPT ![o].status = status,
                            ![o].timeline = Append(@, status),
                            ![o].pay = pay]
  /\ announced' = [announced EXCEPT ![o] = @ \cup {status}]

WrongWriteSilentCancel(o, seen, status, pay) ==
  /\ order' = [order EXCEPT ![o].status = status,
                            ![o].timeline = appendTimeline(seen, status),
                            ![o].pay = pay]
  /\ announced' = [announced EXCEPT ![o] = @ \cup ({status} \ {"CANCELLED"})]

WriteStatus(o, seen, status, pay) ==
  /\ order' = [order EXCEPT ![o].status = status,
                            ![o].timeline = appendTimeline(seen, status),
                            ![o].pay = pay]
  /\ announced' = [announced EXCEPT ![o] = @ \cup {status}]
-----------------------------------------------------------------------------
\* The store's handlers: transitionStoreOrder.
ReadStoreTransition(r, o, target) ==
  /\ target \in {"ACCEPTED", "PREPARING", "READY"}
  /\ assertTransitionAllowed(order[o].status, target)
  /\ target = "ACCEPTED" => assertPrescriptionVerifiedForAcceptance(order[o])
  /\ target = "READY" => assertNoPendingSubstitutions(order[o])
  /\ HoldRow(r, target, o)
  /\ CountRequest

CommitStoreTransition(r) ==
  /\ request[r] # Idle
  /\ request[r].handler \in {"ACCEPTED", "PREPARING", "READY"}
  /\ LET o == request[r].order IN
       WriteStatus(o, request[r].seen, request[r].handler, order[o].pay)
  /\ Release(r)
  /\ UNCHANGED <<ledger, referral, restocked, verified>>

WrongAcceptDeliveryOrder(o, p) ==
  /\ order[o].status = "READY"
  /\ order' = [order EXCEPT ![o].partner = p]
  /\ UNCHANGED <<request, ledger, referral, restocked, announced, verified, offers, started>>

\* acceptDeliveryOrder: one guarded updateMany.
acceptDeliveryOrder(o, p) ==
  /\ order[o].status = "READY"
  /\ order[o].partner = NoPartner
  /\ order' = [order EXCEPT ![o].partner = p]
  /\ UNCHANGED <<request, ledger, referral, restocked, announced, verified, offers, started>>

WrongReadDeliveryTransition(r, o, p, target) ==
  /\ target \in {"PICKED_UP", "DELIVERED"}
  /\ assertTransitionAllowed(order[o].status, target)
  /\ target = "PICKED_UP" => assertNoPendingSubstitutions(order[o])
  /\ HoldRow(r, target, o)
  /\ CountRequest

\* The delivery partner's handlers: transitionDeliveryOrder.
ReadDeliveryTransition(r, o, p, target) ==
  /\ target \in {"PICKED_UP", "DELIVERED"}
  /\ order[o].partner = p
  /\ assertTransitionAllowed(order[o].status, target)
  /\ target = "PICKED_UP" => assertNoPendingSubstitutions(order[o])
  /\ HoldRow(r, target, o)
  /\ CountRequest

\* Both ledger writes look for an earlier entry after the UPDATE took the row
\* lock; the loser of a race on the unique paymentId rolls back (Rollback).
WrongRetentionLedger(o) ==
  ledger' = [ledger EXCEPT ![o].loyalty = IF order[o].profile.earns THEN @ + 1 ELSE @]

writeOrderRetentionLedger(o) ==
  ledger' = [ledger EXCEPT ![o].loyalty = IF order[o].profile.earns /\ @ = 0 THEN 1 ELSE @]

creditReferralReferrer ==
  referral' = IF ~referral.exists \/ referral.credited THEN referral
              ELSE [referral EXCEPT !.credited = TRUE, !.entries = @ + 1]

CommitPickup(r) ==
  /\ request[r] # Idle
  /\ request[r].handler = "PICKED_UP"
  /\ LET o == request[r].order IN
       WriteStatus(o, request[r].seen, "PICKED_UP", order[o].pay)
  /\ Release(r)
  /\ UNCHANGED <<ledger, referral, restocked, verified>>

CommitDelivery(r) ==
  /\ request[r] # Idle
  /\ request[r].handler = "DELIVERED"
  /\ LET o == request[r].order IN
       /\ WriteStatus(o, request[r].seen, "DELIVERED", order[o].pay)
       /\ writeOrderRetentionLedger(o)
       /\ creditReferralReferrer
  /\ Release(r)
  /\ UNCHANGED <<restocked, verified>>
-----------------------------------------------------------------------------
\* cancelOrder, by the customer, the store, the partner or staff.
ReadCancel(r, o) ==
  /\ assertTransitionAllowed(order[o].status, "CANCELLED")
  /\ HoldRow(r, "CANCEL", o)
  /\ CountRequest

WrongRefundWalletOnly(o, seen) ==
  ledger' = IF seen.pay # "PAID" \/ seen.profile.method # "WALLET" THEN ledger
            ELSE [ledger EXCEPT ![o].cancelRefund = @ + 1, ![o].storeDebit = @ + 1]

\* The refund depends on the payment status that was read.
refundOrderIfNeeded(o, seen) ==
  ledger' = IF seen.pay # "PAID" THEN ledger
            ELSE [ledger EXCEPT ![o].cancelRefund = @ + 1,
                    ![o].storeDebit = IF seen.profile.method = "WALLET" THEN @ + 1 ELSE @]

restoreOrderStock(o) == restocked' = [restocked EXCEPT ![o] = @ + 1]

CommitCancel(r) ==
  /\ request[r] # Idle
  /\ request[r].handler = "CANCEL"
  /\ LET o == request[r].order
         seen == request[r].seen IN
       /\ restoreOrderStock(o)
       /\ refundOrderIfNeeded(o, seen)
       /\ WriteStatus(o, seen, "CANCELLED",
                      IF seen.pay = "PAID" THEN "REFUNDED" ELSE "CANCELLED")
  /\ Release(r)
  /\ UNCHANGED <<referral, verified>>

WrongReadAutoCancel(r, o) ==
  /\ order[o].status = "PLACED"
  /\ order[o].pay = "PENDING"
  /\ order[o].profile.method = "ONLINE"
  /\ HoldRow(r, "AUTO_CANCEL", o)
  /\ UNCHANGED started

\* autoCancelStaleOrders and cancelStaleOrder, run by the scheduler's timer.
ReadAutoCancel(r, o) ==
  /\ order[o].status = "PLACED"
  /\ order[o].pay = "PENDING"
  /\ HoldRow(r, "AUTO_CANCEL", o)
  /\ UNCHANGED started

WrongCommitAutoCancel(r) ==
  /\ request[r] # Idle
  /\ request[r].handler = "AUTO_CANCEL"
  /\ WriteStatus(request[r].order, request[r].seen, "CANCELLED", "CANCELLED")
  /\ Release(r)
  /\ UNCHANGED <<ledger, referral, restocked, verified>>

CommitAutoCancel(r) ==
  /\ request[r] # Idle
  /\ request[r].handler = "AUTO_CANCEL"
  /\ LET o == request[r].order IN
       /\ restoreOrderStock(o)
       /\ WriteStatus(o, request[r].seen, "CANCELLED", "CANCELLED")
  /\ Release(r)
  /\ UNCHANGED <<ledger, referral, verified>>
-----------------------------------------------------------------------------
\* verifyPrescription: any status of the order, read and written without a
\* transaction; the verdict replaces the prescription in the address column.
ReadPrescription(r, o, verdict) ==
  /\ order[o].profile.service = "PHARMACY"
  /\ verdict \in {"VERIFIED", "REJECTED"}
  /\ Hold(r, "PRESCRIPTION", o, order[o].items, verdict)
  /\ CountRequest

CommitPrescription(r) ==
  /\ request[r] # Idle
  /\ request[r].handler = "PRESCRIPTION"
  /\ LET o == request[r].order IN
       /\ order' = [order EXCEPT ![o].prescription = request[r].verdict]
       /\ verified' = IF request[r].verdict = "VERIFIED" THEN verified \cup {o} ELSE verified
  /\ Release(r)
  /\ UNCHANGED <<ledger, referral, restocked, announced>>

SubstitutionsOpen(row) ==
  /\ row.profile.service \in {"GROCERY", "PHARMACY"}
  /\ row.status \notin {"PICKED_UP", "DELIVERED", "CANCELLED"}

\* proposeSubstitutions: a new proposal overwrites the line's earlier one.
ReadProposal(r, o, lines) ==
  /\ SubstitutionsOpen(order[o])
  /\ Hold(r, "ITEMS", o,
          [i \in Items |-> IF i \in lines THEN "PROPOSED" ELSE order[o].items[i]],
          order[o].prescription)
  /\ CountRequest

\* decideSubstitutions: every decided line must have a pending proposal.
ReadDecision(r, o, lines, decision) ==
  /\ SubstitutionsOpen(order[o])
  /\ decision \in {"APPROVED", "REJECTED"}
  /\ \A i \in lines : order[o].items[i] = "PROPOSED"
  /\ Hold(r, "ITEMS", o,
          [i \in Items |-> IF i \in lines THEN decision ELSE order[o].items[i]],
          order[o].prescription)
  /\ CountRequest

CommitItems(r) ==
  /\ request[r] # Idle
  /\ request[r].handler = "ITEMS"
  /\ order' = [order EXCEPT ![request[r].order].items = request[r].items]
  /\ Release(r)
  /\ UNCHANGED <<ledger, referral, restocked, announced, verified>>
-----------------------------------------------------------------------------
\* The customer asks to pay an order online, whatever its payment method; only a
\* paid one is refused, which an order paid from the wallet is until a refund.
createPaymentOrder(o) ==
  /\ order[o].pay # "PAID"
  /\ offers[o] < MaxOffers
  /\ offers' = [offers EXCEPT ![o] = @ + 1]
  /\ UNCHANGED <<database, request, started>>

\* The payment webhooks write paymentStatus unconditionally.  A capture that is
\* found again by its payment id does nothing, but every offer can be paid.
markPaymentCaptured(o) ==
  /\ ledger[o].captured < offers[o]
  /\ order' = [order EXCEPT ![o].pay = "PAID"]
  /\ ledger' = [ledger EXCEPT ![o].captured = @ + 1]
  /\ UNCHANGED <<request, referral, restocked, announced, verified, offers, started>>

markPaymentFailed(o) ==
  /\ offers[o] > 0
  /\ order[o].pay # "FAILED"
  /\ order' = [order EXCEPT ![o].pay = "FAILED"]
  /\ UNCHANGED <<request, ledger, referral, restocked, announced, verified, offers, started>>

\* recordRefund of the provider's refund of a captured payment: found again by
\* its refund id, it does nothing.
recordRefund(o) ==
  /\ ledger[o].providerRefund < ledger[o].captured
  /\ order' = [order EXCEPT ![o].pay = "REFUNDED"]
  /\ ledger' = [ledger EXCEPT ![o].providerRefund = @ + 1]
  /\ UNCHANGED <<request, referral, restocked, announced, verified, offers, started>>

\* A transaction that fails, or an API process that dies, leaves no trace.
Rollback(r) ==
  /\ request[r] # Idle
  /\ Release(r)
  /\ UNCHANGED database
-----------------------------------------------------------------------------
Read(r) ==
  \E o \in Orders :
    \/ \E target \in {"ACCEPTED", "PREPARING", "READY"} : ReadStoreTransition(r, o, target)
    \/ \E p \in Partners, target \in {"PICKED_UP", "DELIVERED"} :
         ReadDeliveryTransition(r, o, p, target)
    \/ ReadCancel(r, o)
    \/ \E verdict \in {"VERIFIED", "REJECTED"} : ReadPrescription(r, o, verdict)
    \/ \E lines \in (SUBSET Items) \ {{}} : ReadProposal(r, o, lines)
    \/ \E lines \in (SUBSET Items) \ {{}}, decision \in {"APPROVED", "REJECTED"} :
         ReadDecision(r, o, lines, decision)

Commit(r) ==
  \/ CommitStoreTransition(r)
  \/ CommitPickup(r)
  \/ CommitDelivery(r)
  \/ CommitCancel(r)
  \/ CommitPrescription(r)
  \/ CommitItems(r)

Next ==
  \/ \E r \in Requests : Read(r) \/ Commit(r)
  \/ \E s \in Schedulers : CommitAutoCancel(s) \/ \E o \in Orders : ReadAutoCancel(s, o)
  \/ \E r \in Slots : Rollback(r)
  \/ \E o \in Orders, p \in Partners : acceptDeliveryOrder(o, p)
  \/ \E o \in Orders :
       \/ createPaymentOrder(o)
       \/ markPaymentCaptured(o) \/ markPaymentFailed(o) \/ recordRefund(o)

Spec == Init /\ [][Next]_vars

\* The timer fires again and again, and a transaction that is retried on every
\* tick does not fail on every tick.
FairSpec ==
  /\ Spec
  /\ \A s \in Schedulers :
       /\ \A o \in Orders : SF_vars(ReadAutoCancel(s, o))
       /\ SF_vars(CommitAutoCancel(s))
-----------------------------------------------------------------------------
Recorded(o) == {order[o].timeline[i] : i \in 1 .. Len(order[o].timeline)}

\* Whatever the interleaving, the timeline stored with an order tells a story
\* the status machine allows, from PLACED to the status in the same row:
\* status and timeline are written together from one read (even when the row
\* they overwrite had already moved on).
TimelineLegal ==
  \A o \in Orders :
    /\ LegalPath(orderStatusTransitions, "PLACED", order[o].timeline)
    /\ order[o].timeline[Len(order[o].timeline)] = order[o].status

\* No order is recorded as picked up before some partner owns it, although
\* pickup writes the row without re-checking the partner it read.
HandoffHasPartner ==
  \A o \in Orders : "PICKED_UP" \in Recorded(o) => order[o].partner # NoPartner

\* A delivery job is never taken over: stale writers of the row leave the
\* partner column alone and acceptDeliveryOrder is guarded.
PartnerIsFinal ==
  [][\A o \in Orders : order[o].partner # NoPartner => order'[o].partner = order[o].partner]_vars

\* No pharmacy order is recorded as accepted unless a pharmacist had verified
\* its prescription at some time (the verdict may have changed since).
AcceptedWasVerified ==
  \A o \in Orders :
    order[o].profile.service = "PHARMACY" /\ "ACCEPTED" \in Recorded(o) => o \in verified

\* Racing cancellations and late writers may give stock back too often, but a
\* cancelled order never keeps the stock it took.
CancelledGoodsReturned ==
  \A o \in Orders : order[o].status = "CANCELLED" => restocked[o] >= 1

\* A row that says REFUNDED has a REFUND entry behind it, whichever of cancel,
\* capture, failure and provider refund wrote the column last.
RefundedIsBacked ==
  \A o \in Orders :
    order[o].pay = "REFUNDED" => ledger[o].cancelRefund + ledger[o].providerRefund >= 1

\* Every delivery is rewarded exactly once: loyalty points once per order whose
\* total earns any, the referrer once per referred customer, although deliveries
\* of the same order or of two orders of the customer can run together and can be
\* retried.
DeliveryRewardedOnce ==
  /\ \A o \in Orders : ledger[o].loyalty <= IF order[o].profile.earns THEN 1 ELSE 0
  /\ referral.entries = IF referral.credited THEN 1 ELSE 0
  /\ \A o \in Orders :
       "DELIVERED" \in Recorded(o) =>
         /\ order[o].profile.earns => ledger[o].loyalty = 1
         /\ referral.exists => referral.credited

\* Every status a timeline records was announced through the outbox.
TimelineAnnounced ==
  \A o \in Orders : Recorded(o) \ {"PLACED"} \subseteq announced[o]

\* What assertTransitionAllowed promises: the status column only ever moves
\* along the status machine.
StatusFollowsMachine ==
  [][\A o \in Orders :
       order'[o].status # order[o].status =>
         canTransition(orderStatusTransitions, order[o].status, order'[o].status)]_vars

\* What assertNoPendingSubstitutions promises, "Customer must approve or reject
\* proposed substitutions before this handoff": a picked up order has no
\* undecided substitution.
HandoffHasNoPendingSubstitution ==
  \A o \in Orders :
    order[o].status \in {"PICKED_UP", "DELIVERED"} =>
      \A i \in Items : order[o].items[i] # "PROPOSED"

\* An unpaid order that no store accepts does not stay open for ever.
StaleOrderSettles ==
  \A o \in Orders :
    LET stale == order[o].status = "PLACED" /\ order[o].pay = "PENDING" IN stale ~> ~stale
=============================================================================
