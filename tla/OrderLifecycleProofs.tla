------------------------ MODULE OrderLifecycleProofs ------------------------
(***************************************************************************)
(* Theorems about OrderLifecycle, for every set of orders, partners, items *)
(* and concurrent requests.                                                *)
(***************************************************************************)
EXTENDS OrderLifecycle, TLAPS, SequenceTheorems

StoreTargets == {"ACCEPTED", "PREPARING", "READY"}
DeliveryTargets == {"PICKED_UP", "DELIVERED"}

\* The status a handler in flight will store, if it stores one.
Target(handler) == IF handler \in {"CANCEL", "AUTO_CANCEL"} THEN "CANCELLED" ELSE handler
WritesStatus(handler) == handler \notin {"PRESCRIPTION", "ITEMS"}

\* A row whose timeline is legal and ends in its status.
LegalRow(row) ==
  /\ LegalPath(orderStatusTransitions, "PLACED", row.timeline)
  /\ row.timeline[Len(row.timeline)] = row.status

\* A request in flight has read a legal row and may extend that row.
InFlightLegal ==
  \A r \in Slots : request[r] # Idle =>
    /\ LegalRow(request[r].seen)
    /\ WritesStatus(request[r].handler) =>
         canTransition(orderStatusTransitions, request[r].seen.status, Target(request[r].handler))

TimelineInv == TimelineLegal /\ InFlightLegal

-----------------------------------------------------------------------------
\* Appending an allowed status to a legal history keeps it legal.
LEMMA AppendLegal ==
  ASSUME NEW T, NEW first, NEW path \in Seq(OrderStatus), NEW s \in OrderStatus,
         LegalPath(T, first, path), canTransition(T, path[Len(path)], s)
  PROVE  /\ LegalPath(T, first, Append(path, s))
         /\ Append(path, s)[Len(Append(path, s))] = s
<1>1. Append(path, s) \in Seq(OrderStatus) /\ Len(Append(path, s)) = Len(path) + 1
  OBVIOUS
<1>2. Len(path) \in Nat /\ Len(path) >= 1
  BY DEF LegalPath
<1>3. \A i \in 1 .. Len(path) : Append(path, s)[i] = path[i]
  OBVIOUS
<1>4. Append(path, s)[Len(path) + 1] = s
  OBVIOUS
<1>5. ASSUME NEW i \in 1 .. Len(Append(path, s)) - 1
      PROVE  canTransition(T, Append(path, s)[i], Append(path, s)[i + 1])
  <2>1. CASE i = Len(path)
    BY <2>1, <1>2, <1>3, <1>4
  <2>2. CASE i # Len(path)
    <3>1. i \in 1 .. Len(path) - 1 /\ i + 1 \in 1 .. Len(path)
      BY <2>2, <1>1, <1>2
    <3>2. QED
      BY <3>1, <1>3 DEF LegalPath
  <2>3. QED
    BY <2>1, <2>2
<1>6. Append(path, s)[1] = first /\ Append(path, s) # <<>>
  BY <1>1, <1>2, <1>3 DEF LegalPath
<1>7. QED
  BY <1>1, <1>4, <1>5, <1>6 DEF LegalPath

\* What WriteStatus does to a well-typed table.
LEMMA WriteStatusEffect ==
  ASSUME order \in [Orders -> Row], announced \in [Orders -> SUBSET OrderStatus],
         NEW o \in Orders, NEW seen \in Row, NEW status \in OrderStatus,
         NEW pay \in PaymentStatus, WriteStatus(o, seen, status, pay)
  PROVE  /\ order' \in [Orders -> Row]
         /\ announced' \in [Orders -> SUBSET OrderStatus]
         /\ order'[o].status = status
         /\ order'[o].timeline = Append(seen.timeline, status)
         /\ order'[o].partner = order[o].partner
         /\ order'[o].profile = order[o].profile
         /\ order'[o].prescription = order[o].prescription
         /\ order'[o].items = order[o].items
         /\ order'[o].pay = pay
         /\ \A q \in Orders : q # o => order'[q] = order[q]
<1>1. Append(seen.timeline, status) \in Seq(OrderStatus)
  BY DEF Row
<1>2. order' = [order EXCEPT ![o] = [order[o] EXCEPT !.status = status,
                   !.timeline = Append(seen.timeline, status), !.pay = pay]]
  BY DEF WriteStatus, appendTimeline
<1>3. order[o] \in Row
  OBVIOUS
<1>4. [order[o] EXCEPT !.status = status, !.timeline = Append(seen.timeline, status),
                       !.pay = pay] \in Row
  BY <1>1, <1>3 DEF Row
<1>5. announced' \in [Orders -> SUBSET OrderStatus]
  BY DEF WriteStatus
<1>6. QED
  BY <1>2, <1>3, <1>4, <1>5 DEF Row

-----------------------------------------------------------------------------
\* A request that a handler holds is well typed and carries the row it read.
LEMMA HoldEffect ==
  ASSUME TypeOK, NEW r \in Slots, NEW h \in Handlers, NEW o \in Orders,
         NEW items \in [Items -> SubstitutionStatus], NEW verdict \in PrescriptionStatus,
         Hold(r, h, o, items, verdict)
  PROVE  /\ request' \in [Slots -> InFlight \cup {Idle}]
         /\ request'[r].handler = h /\ request'[r].order = o /\ request'[r].seen = order[o]
         /\ \A q \in Slots : q # r => request'[q] = request[q]
<1>1. [handler |-> h, order |-> o, seen |-> order[o], items |-> items, verdict |-> verdict]
        \in InFlight
  BY DEF TypeOK, InFlight
<1>2. QED
  BY <1>1 DEF Hold, TypeOK

\* Its special case for the handlers that only write the status.
LEMMA HoldRowEffect ==
  ASSUME TypeOK, NEW r \in Slots, NEW h \in Handlers, NEW o \in Orders, HoldRow(r, h, o)
  PROVE  /\ request' \in [Slots -> InFlight \cup {Idle}]
         /\ request'[r].handler = h /\ request'[r].order = o /\ request'[r].seen = order[o]
         /\ \A q \in Slots : q # r => request'[q] = request[q]
<1>1. /\ order[o].items \in [Items -> SubstitutionStatus]
      /\ order[o].prescription \in PrescriptionStatus
  BY DEF TypeOK, Row
<1>2. QED
  BY <1>1, HoldEffect DEF HoldRow

\* Releasing a slot keeps the type of the slots.
LEMMA ReleaseEffect ==
  ASSUME TypeOK, NEW r \in Slots, Release(r)
  PROVE  /\ request' \in [Slots -> InFlight \cup {Idle}]
         /\ started' \in Nat
         /\ offers' \in [Orders -> Nat]
         /\ request'[r] = Idle
         /\ \A q \in Slots : q # r => request'[q] = request[q]
BY DEF TypeOK, Release

\* What a slot in use holds.
LEMMA HeldType ==
  ASSUME TypeOK, NEW r \in Slots, request[r] # Idle
  PROVE  /\ request[r].handler \in Handlers
         /\ request[r].order \in Orders
         /\ request[r].seen \in Row
         /\ request[r].items \in [Items -> SubstitutionStatus]
         /\ request[r].verdict \in PrescriptionStatus
BY DEF TypeOK, InFlight

\* Every step that reads keeps the types: the database is unchanged.
LEMMA ReadKeepsTypes ==
  ASSUME TypeOK, NEW r \in Slots, Read(r) \/ \E o \in Orders : ReadAutoCancel(r, o)
  PROVE  TypeOK'
<1>1. ASSUME NEW o \in Orders, NEW h \in Handlers, HoldRow(r, h, o),
             CountRequest \/ UNCHANGED started
      PROVE  TypeOK'
  <2>1. request' \in [Slots -> InFlight \cup {Idle}]
    BY <1>1, HoldRowEffect
  <2>2. QED
    BY <1>1, <2>1 DEF TypeOK, HoldRow, Hold, CountRequest, database
<1>2. ASSUME NEW o \in Orders, NEW h \in Handlers, NEW items \in [Items -> SubstitutionStatus],
             NEW verdict \in PrescriptionStatus, Hold(r, h, o, items, verdict), CountRequest
      PROVE  TypeOK'
  <2>1. request' \in [Slots -> InFlight \cup {Idle}]
    BY <1>2, HoldEffect
  <2>2. QED
    BY <1>2, <2>1 DEF TypeOK, Hold, CountRequest, database
<1>3. ASSUME NEW o \in Orders
      PROVE  /\ order[o].items \in [Items -> SubstitutionStatus]
             /\ order[o].prescription \in PrescriptionStatus
  BY DEF TypeOK, Row
<1>4. ASSUME NEW o \in Orders, NEW target \in StoreTargets, ReadStoreTransition(r, o, target)
      PROVE  TypeOK'
  BY <1>1, <1>4 DEF ReadStoreTransition, StoreTargets, Handlers
<1>5. ASSUME NEW o \in Orders, NEW p \in Partners, NEW target \in DeliveryTargets,
             ReadDeliveryTransition(r, o, p, target)
      PROVE  TypeOK'
  BY <1>1, <1>5 DEF ReadDeliveryTransition, DeliveryTargets, Handlers
<1>6. ASSUME NEW o \in Orders, ReadCancel(r, o)
      PROVE  TypeOK'
  BY <1>1, <1>6 DEF ReadCancel, Handlers
<1>7. ASSUME NEW o \in Orders, ReadAutoCancel(r, o)
      PROVE  TypeOK'
  BY <1>1, <1>7 DEF ReadAutoCancel, Handlers
<1>8. ASSUME NEW o \in Orders, NEW verdict \in {"VERIFIED", "REJECTED"},
             ReadPrescription(r, o, verdict)
      PROVE  TypeOK'
  BY <1>2, <1>3, <1>8 DEF ReadPrescription, Handlers, PrescriptionStatus
<1>9. ASSUME NEW o \in Orders, NEW lines \in (SUBSET Items) \ {{}}, ReadProposal(r, o, lines)
      PROVE  TypeOK'
  <2>1. [i \in Items |-> IF i \in lines THEN "PROPOSED" ELSE order[o].items[i]]
          \in [Items -> SubstitutionStatus]
    BY <1>3 DEF SubstitutionStatus
  <2>2. QED
    BY <1>2, <1>3, <1>9, <2>1 DEF ReadProposal, Handlers
<1>10. ASSUME NEW o \in Orders, NEW lines \in (SUBSET Items) \ {{}},
              NEW decision \in {"APPROVED", "REJECTED"}, ReadDecision(r, o, lines, decision)
       PROVE  TypeOK'
  <2>1. [i \in Items |-> IF i \in lines THEN decision ELSE order[o].items[i]]
          \in [Items -> SubstitutionStatus]
    BY <1>3 DEF SubstitutionStatus
  <2>2. QED
    BY <1>2, <1>3, <1>10, <2>1 DEF ReadDecision, Handlers
<1>11. QED
  BY <1>4, <1>5, <1>6, <1>7, <1>8, <1>9, <1>10 DEF Read, StoreTargets, DeliveryTargets

Referral == [exists : BOOLEAN, credited : BOOLEAN, entries : Nat]

\* The referrer is paid, unless there is none or it happened before.
LEMMA CreditingReferrer ==
  ASSUME referral \in Referral, creditReferralReferrer
  PROVE  /\ referral' \in Referral /\ referral'.exists = referral.exists
         /\ referral'.exists => referral'.credited
         /\ \/ referral' = referral
            \/ /\ ~referral.credited /\ referral'.credited
               /\ referral'.entries = referral.entries + 1
<1>1. CASE ~referral.exists \/ referral.credited
  BY <1>1 DEF creditReferralReferrer
<1>2. CASE referral.exists /\ ~referral.credited
  <2>1. referral' = [referral EXCEPT !.credited = TRUE, !.entries = referral.entries + 1]
    BY <1>2 DEF creditReferralReferrer, Referral
  <2>2. referral.entries + 1 \in Nat
    BY DEF Referral
  <2>3. /\ referral' \in Referral /\ referral'.exists = referral.exists
        /\ referral'.credited /\ referral'.entries = referral.entries + 1
    BY <2>1, <2>2 DEF Referral
  <2>4. QED
    BY <1>2, <2>3
<1>3. QED
  BY <1>1, <1>2

\* Every step that commits keeps the types.
LEMMA CommitKeepsTypes ==
  ASSUME TypeOK, NEW r \in Slots, Commit(r) \/ CommitAutoCancel(r)
  PROVE  TypeOK'
<1> DEFINE o == request[r].order
           seen == request[r].seen
<1>1. /\ request[r] # Idle
      /\ request[r].handler \in Handlers /\ o \in Orders /\ seen \in Row
      /\ request[r].items \in [Items -> SubstitutionStatus]
      /\ request[r].verdict \in PrescriptionStatus
  BY HeldType DEF Commit, CommitStoreTransition, CommitPickup, CommitDelivery, CommitCancel,
     CommitAutoCancel, CommitPrescription, CommitItems
<1>2. /\ request' \in [Slots -> InFlight \cup {Idle}] /\ started' \in Nat
      /\ offers' \in [Orders -> Nat]
  BY ReleaseEffect DEF Commit, CommitStoreTransition, CommitPickup, CommitDelivery,
     CommitCancel, CommitAutoCancel, CommitPrescription, CommitItems
<1>3. order[o] \in Row /\ order[o].pay \in PaymentStatus
  BY <1>1 DEF TypeOK, Row
<1>4. ASSUME NEW status \in OrderStatus, NEW pay \in PaymentStatus,
             WriteStatus(o, seen, status, pay)
      PROVE  order' \in [Orders -> Row] /\ announced' \in [Orders -> SUBSET OrderStatus]
  BY <1>1, <1>4, WriteStatusEffect DEF TypeOK
<1>5. CASE CommitStoreTransition(r)
  <2>1. request[r].handler \in OrderStatus
    BY <1>5 DEF CommitStoreTransition, OrderStatus
  <2>2. WriteStatus(o, seen, request[r].handler, order[o].pay)
    BY <1>5 DEF CommitStoreTransition
  <2>3. order' \in [Orders -> Row] /\ announced' \in [Orders -> SUBSET OrderStatus]
    BY <2>1, <2>2, <1>3, <1>4
  <2>4. QED
    BY <1>2, <1>5, <2>3 DEF CommitStoreTransition, TypeOK
<1>6. CASE CommitPickup(r)
  <2>1. WriteStatus(o, seen, "PICKED_UP", order[o].pay)
    BY <1>6 DEF CommitPickup
  <2>2. order' \in [Orders -> Row] /\ announced' \in [Orders -> SUBSET OrderStatus]
    BY <2>1, <1>3, <1>4 DEF OrderStatus
  <2>3. QED
    BY <1>2, <1>6, <2>2 DEF CommitPickup, TypeOK
<1>7. CASE CommitDelivery(r)
  <2>1. /\ WriteStatus(o, seen, "DELIVERED", order[o].pay)
        /\ writeOrderRetentionLedger(o) /\ creditReferralReferrer
    BY <1>7 DEF CommitDelivery
  <2>2. order' \in [Orders -> Row] /\ announced' \in [Orders -> SUBSET OrderStatus]
    BY <2>1, <1>3, <1>4 DEF OrderStatus
  <2>3. ledger' \in [Orders -> Entries]
    BY <1>1, <2>1 DEF writeOrderRetentionLedger, TypeOK, Entries
  <2>4. referral' \in Referral
    BY <2>1, CreditingReferrer DEF TypeOK, Referral
  <2>5. QED
    BY <1>2, <1>7, <2>2, <2>3, <2>4 DEF CommitDelivery, TypeOK, Referral
<1>8. CASE CommitCancel(r)
  <2>1. /\ restoreOrderStock(o) /\ refundOrderIfNeeded(o, seen)
        /\ WriteStatus(o, seen, "CANCELLED",
                       IF seen.pay = "PAID" THEN "REFUNDED" ELSE "CANCELLED")
    BY <1>8 DEF CommitCancel
  <2>2. (IF seen.pay = "PAID" THEN "REFUNDED" ELSE "CANCELLED") \in PaymentStatus
    BY DEF PaymentStatus
  <2>3. order' \in [Orders -> Row] /\ announced' \in [Orders -> SUBSET OrderStatus]
    BY <2>1, <2>2, <1>4 DEF OrderStatus
  <2>4. ledger' \in [Orders -> Entries]
    <3> DEFINE debit == IF seen.profile.method = "WALLET" THEN ledger[o].storeDebit + 1
                        ELSE ledger[o].storeDebit
               entry == [ledger[o] EXCEPT !.cancelRefund = ledger[o].cancelRefund + 1,
                                          !.storeDebit = debit]
    <3>1. ledger[o] \in Entries /\ ledger[o].cancelRefund + 1 \in Nat /\ debit \in Nat
      BY <1>1 DEF TypeOK, Entries
    <3>2. \A n, d \in Nat :
            [ledger[o] EXCEPT !.cancelRefund = n, !.storeDebit = d] \in Entries
      BY <3>1, Zenon DEF Entries
    <3>3. entry \in Entries
      <4> HIDE DEF debit
      <4> QED
        BY <3>1, <3>2
    <3>4. ledger' = ledger \/ ledger' = [ledger EXCEPT ![o] = entry]
      BY <2>1 DEF refundOrderIfNeeded
    <3>5. QED
      <4> HIDE DEF entry
      <4> QED
        BY <1>1, <3>3, <3>4 DEF TypeOK
  <2>5. restocked' \in [Orders -> Nat]
    BY <1>1, <2>1 DEF restoreOrderStock, TypeOK
  <2>6. QED
    BY <1>2, <1>8, <2>3, <2>4, <2>5 DEF CommitCancel, TypeOK
<1>9. CASE CommitAutoCancel(r)
  <2>1. restoreOrderStock(o) /\ WriteStatus(o, seen, "CANCELLED", "CANCELLED")
    BY <1>9 DEF CommitAutoCancel
  <2>2. order' \in [Orders -> Row] /\ announced' \in [Orders -> SUBSET OrderStatus]
    BY <2>1, <1>4 DEF OrderStatus, PaymentStatus
  <2>3. restocked' \in [Orders -> Nat]
    BY <1>1, <2>1 DEF restoreOrderStock, TypeOK
  <2>4. QED
    BY <1>2, <1>9, <2>2, <2>3 DEF CommitAutoCancel, TypeOK
<1>10. CASE CommitPrescription(r)
  <2>1. [order[o] EXCEPT !.prescription = request[r].verdict] \in Row
    BY <1>1, <1>3 DEF Row
  <2>2. order' = [order EXCEPT ![o] = [order[o] EXCEPT !.prescription = request[r].verdict]]
    BY <1>10 DEF CommitPrescription
  <2>3. order' \in [Orders -> Row] /\ verified' \subseteq Orders
    BY <1>1, <1>10, <2>1, <2>2 DEF CommitPrescription, TypeOK
  <2>4. QED
    BY <1>2, <1>10, <2>3 DEF CommitPrescription, TypeOK
<1>11. CASE CommitItems(r)
  <2>1. [order[o] EXCEPT !.items = request[r].items] \in Row
    BY <1>1, <1>3 DEF Row
  <2>2. order' = [order EXCEPT ![o] = [order[o] EXCEPT !.items = request[r].items]]
    BY <1>11 DEF CommitItems
  <2>3. order' \in [Orders -> Row]
    BY <1>1, <2>1, <2>2 DEF TypeOK
  <2>4. QED
    BY <1>2, <1>11, <2>3 DEF CommitItems, TypeOK
<1>12. QED
  BY <1>5, <1>6, <1>7, <1>8, <1>9, <1>10, <1>11 DEF Commit

\* The writes of the payment webhooks and of acceptDeliveryOrder touch one
\* column each: status, timeline and profile of every row stay.
LEMMA ColumnWriteEffect ==
  ASSUME TypeOK, NEW o \in Orders,
         NEW pay \in PaymentStatus, NEW p \in Partners \cup {NoPartner},
         \/ order' = [order EXCEPT ![o].pay = pay]
         \/ order' = [order EXCEPT ![o].partner = p]
  PROVE  /\ order' \in [Orders -> Row]
         /\ \A q \in Orders : /\ order'[q].status = order[q].status
                              /\ order'[q].timeline = order[q].timeline
                              /\ order'[q].profile = order[q].profile
                              /\ order'[q].prescription = order[q].prescription
                              /\ order'[q].items = order[q].items
<1>1. order[o] \in Row
  BY DEF TypeOK
<1>2. /\ [order[o] EXCEPT !.pay = pay] \in Row
      /\ [order[o] EXCEPT !.partner = p] \in Row
  BY <1>1 DEF Row
<1>3. CASE order' = [order EXCEPT ![o].pay = pay]
  <2>1. order' = [order EXCEPT ![o] = [order[o] EXCEPT !.pay = pay]]
    BY <1>3
  <2>2. QED
    BY <1>1, <1>2, <2>1 DEF TypeOK, Row
<1>4. CASE order' = [order EXCEPT ![o].partner = p]
  <2>1. order' = [order EXCEPT ![o] = [order[o] EXCEPT !.partner = p]]
    BY <1>4
  <2>2. QED
    BY <1>1, <1>2, <2>1 DEF TypeOK, Row
<1>5. QED
  BY <1>3, <1>4

LEMMA DirectWriteKeepsTypes ==
  ASSUME TypeOK, NEW o \in Orders,
         \/ \E p \in Partners : acceptDeliveryOrder(o, p)
         \/ markPaymentCaptured(o)
         \/ createPaymentOrder(o)
         \/ markPaymentFailed(o)
         \/ recordRefund(o)
  PROVE  TypeOK'
<1>1. CASE createPaymentOrder(o)
  BY <1>1 DEF createPaymentOrder, database, TypeOK
<1>2. CASE ~createPaymentOrder(o)
  <2>1. order' \in [Orders -> Row]
    BY <1>2, ColumnWriteEffect DEF acceptDeliveryOrder, markPaymentCaptured, markPaymentFailed,
       recordRefund, PaymentStatus
  <2>2. ledger' \in [Orders -> Entries]
    BY <1>2 DEF acceptDeliveryOrder, markPaymentCaptured, markPaymentFailed, recordRefund,
       TypeOK, Entries
  <2>3. QED
    BY <1>2, <2>1, <2>2 DEF acceptDeliveryOrder, markPaymentCaptured, markPaymentFailed,
       recordRefund, TypeOK
<1>3. QED
  BY <1>1, <1>2

LEMMA InitHasTypes == Init => TypeOK
<1> SUFFICES ASSUME Init PROVE TypeOK
  OBVIOUS
<1>1. \A p \in Profiles : NewOrder(p) \in Row
  <2>1. <<"PLACED">> \in Seq(OrderStatus)
    BY DEF OrderStatus
  <2>2. QED
    BY <2>1, ProfilesAssumption
    DEF NewOrder, Row, OrderStatus, PaymentStatus, PrescriptionStatus, SubstitutionStatus
<1>2. order \in [Orders -> Row]
  BY <1>1 DEF Init
<1>3. QED
  BY <1>2 DEF Init, TypeOK, Entries

\* Every reachable state is well typed.
THEOREM TypeCorrect == Spec => []TypeOK
<1>1. Init => TypeOK
  BY InitHasTypes
<1>2. TypeOK /\ [Next]_vars => TypeOK'
  <2> SUFFICES ASSUME TypeOK, [Next]_vars PROVE TypeOK'
    OBVIOUS
  <2>1. ASSUME NEW r \in Requests, Read(r) PROVE TypeOK'
    BY <2>1, ReadKeepsTypes DEF Slots
  <2>2. ASSUME NEW r \in Requests, Commit(r) PROVE TypeOK'
    BY <2>2, CommitKeepsTypes DEF Slots
  <2>3. ASSUME NEW s \in Schedulers, NEW o \in Orders, ReadAutoCancel(s, o) PROVE TypeOK'
    BY <2>3, ReadKeepsTypes DEF Slots
  <2>4. ASSUME NEW s \in Schedulers, CommitAutoCancel(s) PROVE TypeOK'
    BY <2>4, CommitKeepsTypes DEF Slots
  <2>5. ASSUME NEW r \in Slots, Rollback(r) PROVE TypeOK'
    BY <2>5, ReleaseEffect DEF Rollback, database, TypeOK
  <2>6. ASSUME NEW o \in Orders,
               \/ \E p \in Partners : acceptDeliveryOrder(o, p)
               \/ createPaymentOrder(o)
               \/ markPaymentCaptured(o) \/ markPaymentFailed(o) \/ recordRefund(o)
        PROVE  TypeOK'
    BY <2>6, DirectWriteKeepsTypes
  <2>7. CASE UNCHANGED vars
    BY <2>7 DEF vars, TypeOK
  <2>8. QED
    BY <2>1, <2>2, <2>3, <2>4, <2>5, <2>6, <2>7 DEF Next
<1>3. QED
  BY <1>1, <1>2, PTL DEF Spec

-----------------------------------------------------------------------------
\* A row read into a slot is legal and its handler may extend it.
LEMMA ReadKeepsTimelines ==
  ASSUME TypeOK, TimelineInv, NEW r \in Slots, Read(r) \/ \E o \in Orders : ReadAutoCancel(r, o)
  PROVE  TimelineInv'
<1>1. ASSUME NEW o \in Orders, NEW h \in Handlers, NEW items \in [Items -> SubstitutionStatus],
             NEW verdict \in PrescriptionStatus, Hold(r, h, o, items, verdict),
             WritesStatus(h) => assertTransitionAllowed(order[o].status, Target(h))
      PROVE  TimelineInv'
  <2>1. order' = order
    BY <1>1 DEF Hold, database
  <2>2. TimelineLegal'
    BY <2>1 DEF TimelineInv, TimelineLegal, LegalPath
  <2>3. /\ request'[r].handler = h /\ request'[r].seen = order[o]
        /\ \A q \in Slots : q # r => request'[q] = request[q]
    BY <1>1, HoldEffect
  <2>4. LegalRow(order[o])
    BY DEF TimelineInv, TimelineLegal, LegalRow
  <2>5. InFlightLegal'
    BY <1>1, <2>3, <2>4 DEF TimelineInv, InFlightLegal, assertTransitionAllowed
  <2>6. QED
    BY <2>2, <2>5 DEF TimelineInv
<1>2. ASSUME NEW o \in Orders, NEW h \in Handlers, HoldRow(r, h, o),
             assertTransitionAllowed(order[o].status, Target(h))
      PROVE  TimelineInv'
  <2>1. /\ order[o].items \in [Items -> SubstitutionStatus]
        /\ order[o].prescription \in PrescriptionStatus
    BY DEF TypeOK, Row
  <2>2. QED
    BY <1>1, <1>2, <2>1 DEF HoldRow
<1>3. ASSUME NEW o \in Orders
      PROVE  /\ order[o].items \in [Items -> SubstitutionStatus]
             /\ order[o].prescription \in PrescriptionStatus
  BY DEF TypeOK, Row
<1>4. ASSUME NEW o \in Orders, NEW target \in StoreTargets, ReadStoreTransition(r, o, target)
      PROVE  TimelineInv'
  BY <1>2, <1>4 DEF ReadStoreTransition, StoreTargets, Handlers, Target
<1>5. ASSUME NEW o \in Orders, NEW p \in Partners, NEW target \in DeliveryTargets,
             ReadDeliveryTransition(r, o, p, target)
      PROVE  TimelineInv'
  BY <1>2, <1>5 DEF ReadDeliveryTransition, DeliveryTargets, Handlers, Target
<1>6. ASSUME NEW o \in Orders, ReadCancel(r, o)
      PROVE  TimelineInv'
  BY <1>2, <1>6 DEF ReadCancel, Handlers, Target
<1>7. ASSUME NEW o \in Orders, ReadAutoCancel(r, o)
      PROVE  TimelineInv'
  <2>1. assertTransitionAllowed(order[o].status, "CANCELLED")
    BY <1>7 DEF ReadAutoCancel, assertTransitionAllowed, canTransition, orderStatusTransitions
  <2>2. QED
    BY <1>2, <1>7, <2>1 DEF ReadAutoCancel, Handlers, Target
<1>8. ASSUME NEW o \in Orders, NEW verdict \in {"VERIFIED", "REJECTED"},
             ReadPrescription(r, o, verdict)
      PROVE  TimelineInv'
  BY <1>1, <1>3, <1>8 DEF ReadPrescription, Handlers, PrescriptionStatus, WritesStatus
<1>9. ASSUME NEW o \in Orders, NEW lines \in (SUBSET Items) \ {{}}, ReadProposal(r, o, lines)
      PROVE  TimelineInv'
  <2>1. [i \in Items |-> IF i \in lines THEN "PROPOSED" ELSE order[o].items[i]]
          \in [Items -> SubstitutionStatus]
    BY <1>3 DEF SubstitutionStatus
  <2>2. QED
    BY <1>1, <1>3, <1>9, <2>1 DEF ReadProposal, Handlers, WritesStatus
<1>10. ASSUME NEW o \in Orders, NEW lines \in (SUBSET Items) \ {{}},
              NEW decision \in {"APPROVED", "REJECTED"}, ReadDecision(r, o, lines, decision)
       PROVE  TimelineInv'
  <2>1. [i \in Items |-> IF i \in lines THEN decision ELSE order[o].items[i]]
          \in [Items -> SubstitutionStatus]
    BY <1>3 DEF SubstitutionStatus
  <2>2. QED
    BY <1>1, <1>3, <1>10, <2>1 DEF ReadDecision, Handlers, WritesStatus
<1>11. QED
  BY <1>4, <1>5, <1>6, <1>7, <1>8, <1>9, <1>10 DEF Read, StoreTargets, DeliveryTargets

\* What a slot writes extends the legal row it read, whatever the row it
\* overwrites; the other slots keep what they hold.
LEMMA CommitKeepsTimelines ==
  ASSUME TypeOK, TimelineInv, NEW r \in Slots, Commit(r) \/ CommitAutoCancel(r)
  PROVE  TimelineInv'
<1> DEFINE o == request[r].order
           seen == request[r].seen
<1>1. /\ request[r] # Idle
      /\ request[r].handler \in Handlers /\ o \in Orders /\ seen \in Row
  BY HeldType DEF Commit, CommitStoreTransition, CommitPickup, CommitDelivery, CommitCancel,
     CommitAutoCancel, CommitPrescription, CommitItems
<1>2. InFlightLegal'
  <2>1. request'[r] = Idle /\ \A q \in Slots : q # r => request'[q] = request[q]
    BY ReleaseEffect DEF Commit, CommitStoreTransition, CommitPickup, CommitDelivery,
       CommitCancel, CommitAutoCancel, CommitPrescription, CommitItems
  <2>2. QED
    BY <2>1 DEF TimelineInv, InFlightLegal
<1>3. ASSUME NEW status \in OrderStatus, NEW pay \in PaymentStatus,
             WriteStatus(o, seen, status, pay),
             canTransition(orderStatusTransitions, seen.status, status)
      PROVE  TimelineLegal'
  <2>1. LegalRow(seen) /\ seen.timeline \in Seq(OrderStatus)
    BY <1>1 DEF TimelineInv, InFlightLegal, Row
  <2>2. /\ LegalPath(orderStatusTransitions, "PLACED", Append(seen.timeline, status))
        /\ Append(seen.timeline, status)[Len(Append(seen.timeline, status))] = status
    BY <1>3, <2>1, AppendLegal DEF LegalRow
  <2>3. /\ order'[o].status = status /\ order'[o].timeline = Append(seen.timeline, status)
        /\ \A q \in Orders : q # o => order'[q] = order[q]
    BY <1>1, <1>3, WriteStatusEffect DEF TypeOK
  <2>4. QED
    BY <2>2, <2>3 DEF TimelineInv, TimelineLegal
<1>4. order[o].pay \in PaymentStatus
  BY <1>1 DEF TypeOK, Row
<1>5. WritesStatus(request[r].handler) =>
        canTransition(orderStatusTransitions, seen.status, Target(request[r].handler))
  BY <1>1 DEF TimelineInv, InFlightLegal
<1>6. CASE CommitStoreTransition(r)
  <2>1. /\ request[r].handler \in OrderStatus
        /\ WriteStatus(o, seen, request[r].handler, order[o].pay)
    BY <1>6 DEF CommitStoreTransition, OrderStatus
  <2>2. canTransition(orderStatusTransitions, seen.status, request[r].handler)
    BY <1>5, <1>6 DEF CommitStoreTransition, WritesStatus, Target
  <2>3. QED
    BY <1>2, <1>3, <1>4, <2>1, <2>2 DEF TimelineInv
<1>7. CASE CommitPickup(r)
  <2>1. canTransition(orderStatusTransitions, seen.status, "PICKED_UP")
    BY <1>5, <1>7 DEF CommitPickup, WritesStatus, Target
  <2>2. QED
    BY <1>2, <1>3, <1>4, <1>7, <2>1 DEF CommitPickup, TimelineInv, OrderStatus
<1>8. CASE CommitDelivery(r)
  <2>1. canTransition(orderStatusTransitions, seen.status, "DELIVERED")
    BY <1>5, <1>8 DEF CommitDelivery, WritesStatus, Target
  <2>2. QED
    BY <1>2, <1>3, <1>4, <1>8, <2>1 DEF CommitDelivery, TimelineInv, OrderStatus
<1>9. CASE CommitCancel(r)
  <2>1. canTransition(orderStatusTransitions, seen.status, "CANCELLED")
    BY <1>5, <1>9 DEF CommitCancel, WritesStatus, Target
  <2>2. (IF seen.pay = "PAID" THEN "REFUNDED" ELSE "CANCELLED") \in PaymentStatus
    BY DEF PaymentStatus
  <2>3. QED
    BY <1>2, <1>3, <1>9, <2>1, <2>2 DEF CommitCancel, TimelineInv, OrderStatus
<1>10. CASE CommitAutoCancel(r)
  <2>1. canTransition(orderStatusTransitions, seen.status, "CANCELLED")
    BY <1>5, <1>10 DEF CommitAutoCancel, WritesStatus, Target
  <2>2. QED
    BY <1>2, <1>3, <1>10, <2>1 DEF CommitAutoCancel, TimelineInv, OrderStatus, PaymentStatus
<1>11. CASE CommitPrescription(r) \/ CommitItems(r)
  <2>1. \A q \in Orders : /\ order'[q].status = order[q].status
                          /\ order'[q].timeline = order[q].timeline
    <3>1. order[o] \in Row
      BY <1>1 DEF TypeOK
    <3>2. CASE CommitPrescription(r)
      <4>1. order' = [order EXCEPT ![o] = [order[o] EXCEPT !.prescription = request[r].verdict]]
        BY <3>2 DEF CommitPrescription
      <4>2. QED
        BY <1>1, <3>1, <4>1 DEF TypeOK, Row
    <3>3. CASE CommitItems(r)
      <4>1. order' = [order EXCEPT ![o] = [order[o] EXCEPT !.items = request[r].items]]
        BY <3>3 DEF CommitItems
      <4>2. QED
        BY <1>1, <3>1, <4>1 DEF TypeOK, Row
    <3>4. QED
      BY <1>11, <3>2, <3>3
  <2>2. QED
    BY <1>2, <2>1 DEF TimelineInv, TimelineLegal
<1>12. QED
  BY <1>6, <1>7, <1>8, <1>9, <1>10, <1>11 DEF Commit

\* Every order's timeline is a legal history that ends in its status, in every
\* interleaving: the race on the status column never mixes two histories.
THEOREM TimelinesAreLegal == Spec => []TimelineLegal
<1>1. Init => TimelineInv
  <2> SUFFICES ASSUME Init PROVE TimelineInv
    OBVIOUS
  <2>1. \A p \in Profiles : LegalRow(NewOrder(p))
    BY DEF LegalRow, LegalPath, NewOrder
  <2>2. \A o \in Orders : LegalRow(order[o])
    BY <2>1 DEF Init
  <2>3. \A r \in Slots : request[r] = Idle
    BY DEF Init
  <2>4. QED
    BY <2>2, <2>3 DEF TimelineInv, TimelineLegal, InFlightLegal, LegalRow
<1>2. TypeOK /\ TimelineInv /\ [Next]_vars => TimelineInv'
  <2> SUFFICES ASSUME TypeOK, TimelineInv, [Next]_vars PROVE TimelineInv'
    OBVIOUS
  <2>1. ASSUME NEW r \in Requests, Read(r) PROVE TimelineInv'
    BY <2>1, ReadKeepsTimelines DEF Slots
  <2>2. ASSUME NEW r \in Requests, Commit(r) PROVE TimelineInv'
    BY <2>2, CommitKeepsTimelines DEF Slots
  <2>3. ASSUME NEW s \in Schedulers, NEW o \in Orders, ReadAutoCancel(s, o) PROVE TimelineInv'
    BY <2>3, ReadKeepsTimelines DEF Slots
  <2>4. ASSUME NEW s \in Schedulers, CommitAutoCancel(s) PROVE TimelineInv'
    BY <2>4, CommitKeepsTimelines DEF Slots
  <2>5. ASSUME NEW r \in Slots, Rollback(r) PROVE TimelineInv'
    <3>1. /\ order' = order /\ request'[r] = Idle
          /\ \A q \in Slots : q # r => request'[q] = request[q]
      BY <2>5, ReleaseEffect DEF Rollback, database
    <3>2. QED
      BY <3>1 DEF TimelineInv, TimelineLegal, InFlightLegal
  <2>6. ASSUME NEW o \in Orders,
               \/ \E p \in Partners : acceptDeliveryOrder(o, p)
               \/ createPaymentOrder(o)
               \/ markPaymentCaptured(o) \/ markPaymentFailed(o) \/ recordRefund(o)
        PROVE  TimelineInv'
    <3>1. \A q \in Orders : /\ order'[q].status = order[q].status
                            /\ order'[q].timeline = order[q].timeline
      BY <2>6, ColumnWriteEffect DEF acceptDeliveryOrder, markPaymentCaptured,
         markPaymentFailed, recordRefund, PaymentStatus, createPaymentOrder, database
    <3>2. request' = request
      BY <2>6 DEF acceptDeliveryOrder, markPaymentCaptured, markPaymentFailed, recordRefund,
         createPaymentOrder
    <3>3. QED
      BY <3>1, <3>2 DEF TimelineInv, TimelineLegal, InFlightLegal
  <2>7. CASE UNCHANGED vars
    BY <2>7 DEF vars, TimelineInv, TimelineLegal, InFlightLegal
  <2>8. QED
    BY <2>1, <2>2, <2>3, <2>4, <2>5, <2>6, <2>7 DEF Next
<1>3. TimelineInv => TimelineLegal
  BY DEF TimelineInv
<1>4. QED
  BY <1>1, <1>2, <1>3, TypeCorrect, PTL DEF Spec

-----------------------------------------------------------------------------
(***************************************************************************)
(* What an order's record says is backed by facts: announcements, partner, *)
(* verification, rewards, stock and refunds.  The facts only grow, so what *)
(* a request read about an order before the others wrote is still backed   *)
(* when the request writes it back.                                        *)
(***************************************************************************)

\* What must be true of order o for status s to stand in its timeline.
Backed(o, s) ==
  /\ s # "PLACED" => s \in announced[o]
  /\ s = "PICKED_UP" => order[o].partner # NoPartner
  /\ s = "ACCEPTED" /\ order[o].profile.service = "PHARMACY" => o \in verified
  /\ s = "DELIVERED" => /\ order[o].profile.earns => ledger[o].loyalty >= 1
                        /\ referral.exists => referral.credited

AllBacked(o, timeline) == \A i \in 1 .. Len(timeline) : Backed(o, timeline[i])

\* Every row, and every row a request holds, is backed; a request that will
\* write PICKED_UP or ACCEPTED has what that status needs.
RecordsBacked == \A o \in Orders : AllBacked(o, order[o].timeline)

InFlightBacked ==
  \A r \in Slots : request[r] # Idle =>
    LET o == request[r].order IN
      /\ AllBacked(o, request[r].seen.timeline)
      /\ request[r].handler = "PICKED_UP" => order[o].partner # NoPartner
      /\ request[r].handler = "ACCEPTED" /\ order[o].profile.service = "PHARMACY"
           => o \in verified

VerdictsBacked == \A o \in Orders : order[o].prescription = "VERIFIED" => o \in verified

RewardsCounted ==
  /\ \A o \in Orders : ledger[o].loyalty <= IF order[o].profile.earns THEN 1 ELSE 0
  /\ referral.entries = IF referral.credited THEN 1 ELSE 0

FactsInv ==
  /\ RecordsBacked
  /\ InFlightBacked
  /\ VerdictsBacked
  /\ RewardsCounted
  /\ CancelledGoodsReturned
  /\ RefundedIsBacked

-----------------------------------------------------------------------------
(* What any step does to the tables. *)

\* No step takes a fact back.
FactsGrow ==
  /\ \A o \in Orders :
       /\ order'[o].profile = order[o].profile
       /\ order[o].partner # NoPartner => order'[o].partner = order[o].partner
       /\ announced[o] \subseteq announced'[o]
       /\ restocked'[o] >= restocked[o]
       /\ ledger'[o].cancelRefund >= ledger[o].cancelRefund
       /\ ledger'[o].providerRefund >= ledger[o].providerRefund
       /\ ledger[o].loyalty # 0 => ledger'[o].loyalty = ledger[o].loyalty
       /\ \/ ledger'[o].loyalty = ledger[o].loyalty
          \/ ledger'[o].loyalty = 1 /\ order[o].profile.earns
  /\ verified \subseteq verified'
  /\ referral'.exists = referral.exists
  /\ \/ referral' = referral
     \/ ~referral.credited /\ referral'.credited /\ referral'.entries = referral.entries + 1

\* The record of an order is left alone or rewritten by one request, which
\* adds what the status it writes needs.
RecordStep(o) ==
  \/ order'[o].status = order[o].status /\ order'[o].timeline = order[o].timeline
  \/ \E r \in Slots :
       /\ request[r] # Idle /\ request[r].order = o /\ WritesStatus(request[r].handler)
       /\ LET s == Target(request[r].handler) IN
            /\ order'[o].status = s
            /\ order'[o].timeline = Append(request[r].seen.timeline, s)
            /\ s \in announced'[o]
            /\ s = "DELIVERED" => /\ order[o].profile.earns => ledger'[o].loyalty >= 1
                                  /\ referral'.exists => referral'.credited
            /\ s = "CANCELLED" => restocked'[o] >= 1

PayStep(o) ==
  order'[o].pay = "REFUNDED" =>
    order[o].pay = "REFUNDED" \/ ledger'[o].cancelRefund + ledger'[o].providerRefund >= 1

VerdictStep(o) ==
  order'[o].prescription = "VERIFIED" => order[o].prescription = "VERIFIED" \/ o \in verified'

TableStep == FactsGrow /\ \A o \in Orders : RecordStep(o) /\ PayStep(o) /\ VerdictStep(o)

\* A slot is freed, kept, or filled by a handler that passed its checks.
SlotStep ==
  \A r \in Slots :
    \/ request'[r] = Idle
    \/ request'[r] = request[r]
    \/ \E o \in Orders :
         /\ request'[r].order = o /\ request'[r].seen = order[o]
         /\ request'[r].handler = "PICKED_UP" => order[o].partner # NoPartner
         /\ request'[r].handler = "ACCEPTED" =>
              assertPrescriptionVerifiedForAcceptance(order[o])

-----------------------------------------------------------------------------
\* A step that leaves the database alone.
LEMMA NoTableStep ==
  ASSUME TypeOK, UNCHANGED database
  PROVE  TableStep
<1>1. \A o \in Orders : ledger[o].loyalty \in Nat /\ ledger[o].cancelRefund \in Nat
                        /\ ledger[o].providerRefund \in Nat /\ restocked[o] \in Nat
  BY DEF TypeOK, Entries
<1>2. QED
  BY <1>1 DEF database, TableStep, FactsGrow, RecordStep, PayStep, VerdictStep

\* The handlers that write a status: what they share beside the status itself.
LEMMA StatusCommitEffect ==
  ASSUME TypeOK, NEW r \in Slots, request[r] # Idle, WritesStatus(request[r].handler),
         NEW o \in Orders, o = request[r].order, NEW s \in OrderStatus,
         s = Target(request[r].handler), NEW pay \in PaymentStatus,
         WriteStatus(o, request[r].seen, s, pay),
         pay = order[o].pay \/ pay # "REFUNDED" \/
           ledger'[o].cancelRefund + ledger'[o].providerRefund >= 1,
         s = "DELIVERED" => /\ order[o].profile.earns => ledger'[o].loyalty >= 1
                            /\ referral'.exists => referral'.credited,
         s = "CANCELLED" => restocked'[o] >= 1
  PROVE  /\ \A q \in Orders : RecordStep(q) /\ PayStep(q)
         /\ verified' = verified => \A q \in Orders : VerdictStep(q)
         /\ \A q \in Orders :
              /\ order'[q].profile = order[q].profile
              /\ order'[q].partner = order[q].partner
              /\ announced[q] \subseteq announced'[q]
<1>1. /\ request[r].seen \in Row
      /\ order \in [Orders -> Row] /\ announced \in [Orders -> SUBSET OrderStatus]
  BY HeldType DEF TypeOK
<1>2. /\ order'[o].status = s
      /\ order'[o].timeline = Append(request[r].seen.timeline, s)
      /\ order'[o].partner = order[o].partner
      /\ order'[o].profile = order[o].profile
      /\ order'[o].prescription = order[o].prescription
      /\ order'[o].pay = pay
      /\ \A q \in Orders : q # o => order'[q] = order[q]
  BY <1>1, WriteStatusEffect
<1>3. announced' = [announced EXCEPT ![o] = announced[o] \cup {s}]
  BY DEF WriteStatus
<1>4. s \in announced'[o] /\ \A q \in Orders : announced[q] \subseteq announced'[q]
  BY <1>3 DEF TypeOK
<1>5. \A q \in Orders : RecordStep(q)
  BY <1>2, <1>4 DEF RecordStep
<1>6. \A q \in Orders : PayStep(q)
  BY <1>2 DEF PayStep
<1>7. verified' = verified => \A q \in Orders : VerdictStep(q)
  BY <1>2 DEF VerdictStep
<1>8. QED
  BY <1>2, <1>4, <1>5, <1>6, <1>7

\* Each handler's commit.
LEMMA CommitEffect ==
  ASSUME TypeOK, NEW r \in Slots, Commit(r) \/ CommitAutoCancel(r)
  PROVE  TableStep
<1> DEFINE o == request[r].order
           seen == request[r].seen
<1>1. /\ request[r] # Idle
      /\ request[r].handler \in Handlers /\ o \in Orders /\ seen \in Row
  BY HeldType DEF Commit, CommitStoreTransition, CommitPickup, CommitDelivery, CommitCancel,
     CommitAutoCancel, CommitPrescription, CommitItems
<1>2. order[o] \in Row /\ order[o].pay \in PaymentStatus
  BY <1>1 DEF TypeOK, Row
<1>3. \A q \in Orders :
        /\ ledger[q].loyalty \in Nat /\ ledger[q].cancelRefund \in Nat
        /\ ledger[q].providerRefund \in Nat /\ restocked[q] \in Nat
  BY DEF TypeOK, Entries
<1>4. CASE CommitStoreTransition(r)
  <2>1. /\ WriteStatus(o, seen, request[r].handler, order[o].pay)
        /\ request[r].handler \in StoreTargets
        /\ UNCHANGED <<ledger, referral, restocked, verified>>
    BY <1>4 DEF CommitStoreTransition, StoreTargets
  <2>2. /\ request[r].handler \in OrderStatus \ {"DELIVERED", "CANCELLED"}
        /\ WritesStatus(request[r].handler)
        /\ request[r].handler = Target(request[r].handler)
    BY <2>1 DEF StoreTargets, OrderStatus, WritesStatus, Target
  <2>3. QED
    BY <1>1, <1>2, <1>3, <2>1, <2>2, StatusCommitEffect DEF TableStep, FactsGrow
<1>5. CASE CommitPickup(r)
  <2>1. /\ WriteStatus(o, seen, "PICKED_UP", order[o].pay)
        /\ request[r].handler = "PICKED_UP"
        /\ UNCHANGED <<ledger, referral, restocked, verified>>
    BY <1>5 DEF CommitPickup
  <2>2. /\ "PICKED_UP" \in OrderStatus /\ WritesStatus("PICKED_UP")
        /\ "PICKED_UP" = Target("PICKED_UP")
    BY DEF OrderStatus, WritesStatus, Target
  <2>3. QED
    BY <1>1, <1>2, <1>3, <2>1, <2>2, StatusCommitEffect DEF TableStep, FactsGrow
<1>6. CASE CommitDelivery(r)
  <2>1. /\ WriteStatus(o, seen, "DELIVERED", order[o].pay)
        /\ request[r].handler = "DELIVERED"
        /\ writeOrderRetentionLedger(o) /\ creditReferralReferrer
        /\ UNCHANGED <<restocked, verified>>
    BY <1>6 DEF CommitDelivery
  <2>2. /\ "DELIVERED" \in OrderStatus /\ WritesStatus("DELIVERED")
        /\ "DELIVERED" = Target("DELIVERED")
    BY DEF OrderStatus, WritesStatus, Target
  <2>3. /\ ledger'[o].loyalty = IF order[o].profile.earns /\ ledger[o].loyalty = 0 THEN 1
                                ELSE ledger[o].loyalty
        /\ ledger'[o].cancelRefund = ledger[o].cancelRefund
        /\ ledger'[o].providerRefund = ledger[o].providerRefund
        /\ \A q \in Orders : q # o => ledger'[q] = ledger[q]
    BY <1>1, <2>1 DEF writeOrderRetentionLedger, TypeOK, Entries
  <2>4. /\ referral'.exists => referral'.credited
        /\ referral'.exists = referral.exists
        /\ \/ referral' = referral
           \/ ~referral.credited /\ referral'.credited /\ referral'.entries = referral.entries + 1
    BY <2>1, CreditingReferrer DEF TypeOK, Referral
  <2>5. order[o].profile.earns => ledger'[o].loyalty >= 1
    BY <1>1, <1>3, <2>3
  <2>6. /\ \A q \in Orders : RecordStep(q) /\ PayStep(q) /\ VerdictStep(q)
        /\ \A q \in Orders :
              /\ order'[q].profile = order[q].profile
              /\ order'[q].partner = order[q].partner
              /\ announced[q] \subseteq announced'[q]
    BY <1>1, <1>2, <2>1, <2>2, <2>4, <2>5, StatusCommitEffect
  <2>7. QED
    BY <1>3, <2>1, <2>3, <2>4, <2>6 DEF TableStep, FactsGrow
<1>7. CASE CommitCancel(r)
  <2> DEFINE pay == IF seen.pay = "PAID" THEN "REFUNDED" ELSE "CANCELLED"
  <2>1. /\ WriteStatus(o, seen, "CANCELLED", pay)
        /\ request[r].handler = "CANCEL"
        /\ restoreOrderStock(o) /\ refundOrderIfNeeded(o, seen)
        /\ UNCHANGED <<referral, verified>>
    BY <1>7 DEF CommitCancel
  <2>2. /\ "CANCELLED" \in OrderStatus /\ WritesStatus("CANCEL")
        /\ "CANCELLED" = Target("CANCEL") /\ pay \in PaymentStatus
    BY DEF OrderStatus, WritesStatus, Target, PaymentStatus
  <2>3. /\ ledger'[o].loyalty = ledger[o].loyalty
        /\ ledger'[o].providerRefund = ledger[o].providerRefund
        /\ ledger'[o].cancelRefund = IF seen.pay = "PAID" THEN ledger[o].cancelRefund + 1
                                     ELSE ledger[o].cancelRefund
        /\ \A q \in Orders : q # o => ledger'[q] = ledger[q]
    BY <1>1, <2>1 DEF refundOrderIfNeeded, TypeOK, Entries
  <2>4. restocked'[o] = restocked[o] + 1 /\ \A q \in Orders : q # o => restocked'[q] = restocked[q]
    BY <1>1, <2>1 DEF restoreOrderStock, TypeOK
  <2>5. pay # "REFUNDED" \/ ledger'[o].cancelRefund + ledger'[o].providerRefund >= 1
    BY <1>1, <1>3, <2>3
  <2>6. restocked'[o] >= 1
    BY <1>1, <1>3, <2>4
  <2>7. /\ \A q \in Orders : RecordStep(q) /\ PayStep(q) /\ VerdictStep(q)
        /\ \A q \in Orders :
              /\ order'[q].profile = order[q].profile
              /\ order'[q].partner = order[q].partner
              /\ announced[q] \subseteq announced'[q]
    <3> HIDE DEF pay
    <3> QED
      BY <1>1, <1>2, <2>1, <2>2, <2>5, <2>6, StatusCommitEffect
  <2>8. QED
    BY <1>3, <2>1, <2>3, <2>4, <2>7 DEF TableStep, FactsGrow
<1>8. CASE CommitAutoCancel(r)
  <2>1. /\ WriteStatus(o, seen, "CANCELLED", "CANCELLED")
        /\ request[r].handler = "AUTO_CANCEL"
        /\ restoreOrderStock(o)
        /\ UNCHANGED <<ledger, referral, verified>>
    BY <1>8 DEF CommitAutoCancel
  <2>2. /\ "CANCELLED" \in OrderStatus /\ WritesStatus("AUTO_CANCEL")
        /\ "CANCELLED" = Target("AUTO_CANCEL") /\ "CANCELLED" \in PaymentStatus
    BY DEF OrderStatus, WritesStatus, Target, PaymentStatus
  <2>3. restocked'[o] = restocked[o] + 1 /\ \A q \in Orders : q # o => restocked'[q] = restocked[q]
    BY <1>1, <2>1 DEF restoreOrderStock, TypeOK
  <2>4. restocked'[o] >= 1
    BY <1>1, <1>3, <2>3
  <2>5. QED
    BY <1>1, <1>2, <1>3, <2>1, <2>2, <2>3, <2>4, StatusCommitEffect DEF TableStep, FactsGrow
<1>9. CASE CommitPrescription(r)
  <2>1. order' = [order EXCEPT ![o] = [order[o] EXCEPT !.prescription = request[r].verdict]]
    BY <1>9 DEF CommitPrescription
  <2>2. /\ verified \subseteq verified'
        /\ request[r].verdict = "VERIFIED" => o \in verified'
        /\ UNCHANGED <<ledger, referral, restocked, announced>>
    BY <1>9 DEF CommitPrescription
  <2>3. \A q \in Orders :
          /\ order'[q].status = order[q].status /\ order'[q].timeline = order[q].timeline
          /\ order'[q].pay = order[q].pay /\ order'[q].partner = order[q].partner
          /\ order'[q].profile = order[q].profile
          /\ \/ order'[q].prescription = order[q].prescription
             \/ q = o /\ order'[q].prescription = request[r].verdict
    BY <1>1, <1>2, <2>1 DEF TypeOK, Row
  <2>4. QED
    BY <1>3, <2>2, <2>3 DEF TableStep, FactsGrow, RecordStep, PayStep, VerdictStep
<1>10. CASE CommitItems(r)
  <2>1. order' = [order EXCEPT ![o] = [order[o] EXCEPT !.items = request[r].items]]
    BY <1>10 DEF CommitItems
  <2>2. UNCHANGED <<ledger, referral, restocked, announced, verified>>
    BY <1>10 DEF CommitItems
  <2>3. \A q \in Orders :
          /\ order'[q].status = order[q].status /\ order'[q].timeline = order[q].timeline
          /\ order'[q].pay = order[q].pay /\ order'[q].partner = order[q].partner
          /\ order'[q].profile = order[q].profile
          /\ order'[q].prescription = order[q].prescription
    BY <1>1, <1>2, <2>1 DEF TypeOK, Row
  <2>4. QED
    BY <1>3, <2>2, <2>3 DEF TableStep, FactsGrow, RecordStep, PayStep, VerdictStep
<1>11. QED
  BY <1>4, <1>5, <1>6, <1>7, <1>8, <1>9, <1>10 DEF Commit

\* The one-step writes: a partner accepts, a webhook arrives.
LEMMA DirectWriteEffect ==
  ASSUME TypeOK, NEW o \in Orders,
         \/ \E p \in Partners : acceptDeliveryOrder(o, p)
         \/ markPaymentCaptured(o) \/ markPaymentFailed(o) \/ recordRefund(o)
  PROVE  TableStep
<1>1. \A q \in Orders :
        /\ ledger[q].loyalty \in Nat /\ ledger[q].cancelRefund \in Nat
        /\ ledger[q].providerRefund \in Nat /\ restocked[q] \in Nat
        /\ order[q] \in Row /\ ledger[q] \in Entries
  BY DEF TypeOK, Entries
<1>2. \A q \in Orders :
        /\ order'[q].status = order[q].status /\ order'[q].timeline = order[q].timeline
        /\ order'[q].profile = order[q].profile
        /\ order'[q].prescription = order[q].prescription
  BY ColumnWriteEffect DEF acceptDeliveryOrder, markPaymentCaptured, markPaymentFailed,
     recordRefund, PaymentStatus
<1>3. UNCHANGED <<restocked, announced, verified, referral>>
  BY DEF acceptDeliveryOrder, markPaymentCaptured, markPaymentFailed, recordRefund
<1>4. \A q \in Orders : order[q].partner # NoPartner => order'[q].partner = order[q].partner
  <2>1. ASSUME NEW p \in Partners, acceptDeliveryOrder(o, p)
        PROVE  \A q \in Orders : order[q].partner # NoPartner => order'[q].partner = order[q].partner
    BY <2>1, <1>1 DEF acceptDeliveryOrder, TypeOK
  <2>2. ASSUME NEW pay, order' = [order EXCEPT ![o].pay = pay]
        PROVE  \A q \in Orders : order[q].partner # NoPartner => order'[q].partner = order[q].partner
    BY <2>2, <1>1 DEF TypeOK, Row
  <2>3. QED
    BY <2>1, <2>2 DEF markPaymentCaptured, markPaymentFailed, recordRefund
<1>5. \A q \in Orders :
        /\ ledger'[q].loyalty = ledger[q].loyalty
        /\ ledger'[q].cancelRefund = ledger[q].cancelRefund
        /\ ledger'[q].providerRefund >= ledger[q].providerRefund
  BY <1>1 DEF acceptDeliveryOrder, markPaymentCaptured, markPaymentFailed, recordRefund,
     TypeOK, Entries
<1>6. \A q \in Orders : PayStep(q)
  <2>1. CASE \E p \in Partners : acceptDeliveryOrder(o, p)
    <3>1. \A q \in Orders : order'[q].pay = order[q].pay
      BY <2>1, <1>1 DEF acceptDeliveryOrder, TypeOK, Row
    <3>2. QED
      BY <3>1 DEF PayStep
  <2>2. CASE markPaymentCaptured(o) \/ markPaymentFailed(o)
    <3>1. PICK pay \in {"PAID", "FAILED"} : order' = [order EXCEPT ![o].pay = pay]
      BY <2>2 DEF markPaymentCaptured, markPaymentFailed
    <3>2. \A q \in Orders : order'[q].pay \in {order[q].pay, pay}
      BY <3>1, <1>1 DEF TypeOK, Row
    <3>3. QED
      BY <3>1, <3>2 DEF PayStep
  <2>3. CASE recordRefund(o)
    <3>1. ledger'[o].providerRefund >= 1 /\ ledger'[o].providerRefund \in Nat
          /\ ledger'[o].cancelRefund \in Nat
      BY <2>3, <1>1, <1>5 DEF recordRefund, TypeOK, Entries
    <3>2. \A q \in Orders : q # o => order'[q].pay = order[q].pay
      BY <2>3, <1>1 DEF recordRefund, TypeOK
    <3>3. QED
      BY <3>1, <3>2 DEF PayStep
  <2>4. QED
    BY <2>1, <2>2, <2>3
<1>7. QED
  BY <1>1, <1>2, <1>3, <1>4, <1>5, <1>6 DEF TableStep, FactsGrow, RecordStep, VerdictStep

\* A handler that reads leaves the tables alone and fills its slot.
LEMMA ReadEffect ==
  ASSUME TypeOK, NEW r \in Slots, Read(r) \/ \E o \in Orders : ReadAutoCancel(r, o)
  PROVE  UNCHANGED database /\ SlotStep
<1>1. ASSUME NEW o \in Orders, NEW h, NEW items, NEW verdict, Hold(r, h, o, items, verdict),
             h = "PICKED_UP" => order[o].partner # NoPartner,
             h = "ACCEPTED" => assertPrescriptionVerifiedForAcceptance(order[o])
      PROVE  UNCHANGED database /\ SlotStep
  BY <1>1 DEF Hold, SlotStep, TypeOK
<1>2. ASSUME NEW o \in Orders, NEW target \in StoreTargets, ReadStoreTransition(r, o, target)
      PROVE  UNCHANGED database /\ SlotStep
  BY <1>1, <1>2 DEF ReadStoreTransition, StoreTargets, HoldRow
<1>3. ASSUME NEW o \in Orders, NEW p \in Partners, NEW target \in DeliveryTargets,
             ReadDeliveryTransition(r, o, p, target)
      PROVE  UNCHANGED database /\ SlotStep
  BY <1>1, <1>3, NoPartnerAssumption DEF ReadDeliveryTransition, DeliveryTargets, HoldRow
<1>4. ASSUME NEW o \in Orders, ReadCancel(r, o) \/ ReadAutoCancel(r, o)
      PROVE  UNCHANGED database /\ SlotStep
  BY <1>1, <1>4 DEF ReadCancel, ReadAutoCancel, HoldRow
<1>5. ASSUME NEW o \in Orders, NEW verdict, ReadPrescription(r, o, verdict)
      PROVE  UNCHANGED database /\ SlotStep
  BY <1>1, <1>5 DEF ReadPrescription
<1>6. ASSUME NEW o \in Orders, NEW lines, ReadProposal(r, o, lines)
      PROVE  UNCHANGED database /\ SlotStep
  BY <1>1, <1>6 DEF ReadProposal
<1>7. ASSUME NEW o \in Orders, NEW lines, NEW decision, ReadDecision(r, o, lines, decision)
      PROVE  UNCHANGED database /\ SlotStep
  BY <1>1, <1>7 DEF ReadDecision
<1>8. QED
  BY <1>2, <1>3, <1>4, <1>5, <1>6, <1>7 DEF Read, StoreTargets, DeliveryTargets

\* Every step of the system is one of these.
LEMMA StepEffect ==
  ASSUME TypeOK, [Next]_vars
  PROVE  TableStep /\ SlotStep
<1>1. ASSUME NEW r \in Slots, Read(r) \/ \E o \in Orders : ReadAutoCancel(r, o)
      PROVE  TableStep /\ SlotStep
  BY <1>1, ReadEffect, NoTableStep
<1>2. ASSUME NEW r \in Slots, Commit(r) \/ CommitAutoCancel(r)
      PROVE  TableStep /\ SlotStep
  <2>1. Release(r)
    BY <1>2 DEF Commit, CommitStoreTransition, CommitPickup, CommitDelivery, CommitCancel,
       CommitAutoCancel, CommitPrescription, CommitItems
  <2>2. SlotStep
    BY <2>1, ReleaseEffect DEF SlotStep
  <2>3. QED
    BY <1>2, <2>2, CommitEffect
<1>3. ASSUME NEW r \in Slots, Rollback(r)
      PROVE  TableStep /\ SlotStep
  BY <1>3, NoTableStep, ReleaseEffect DEF Rollback, SlotStep
<1>4. ASSUME NEW o \in Orders,
             \/ \E p \in Partners : acceptDeliveryOrder(o, p)
             \/ createPaymentOrder(o)
             \/ markPaymentCaptured(o) \/ markPaymentFailed(o) \/ recordRefund(o)
      PROVE  TableStep /\ SlotStep
  <2>1. request' = request
    BY <1>4 DEF acceptDeliveryOrder, markPaymentCaptured, markPaymentFailed, recordRefund,
       createPaymentOrder
  <2>2. createPaymentOrder(o) => TableStep
    BY NoTableStep DEF createPaymentOrder
  <2>3. QED
    BY <1>4, <2>1, <2>2, DirectWriteEffect DEF SlotStep
<1>5. CASE UNCHANGED vars
  BY <1>5, NoTableStep DEF vars, database, SlotStep
<1>6. QED
  BY <1>1, <1>2, <1>3, <1>4, <1>5 DEF Next, Slots

-----------------------------------------------------------------------------
\* Backed, for a status that is known before the step, in the state after it.
BackedAfter(o, s) ==
  /\ s # "PLACED" => s \in announced'[o]
  /\ s = "PICKED_UP" => order'[o].partner # NoPartner
  /\ s = "ACCEPTED" /\ order'[o].profile.service = "PHARMACY" => o \in verified'
  /\ s = "DELIVERED" => /\ order'[o].profile.earns => ledger'[o].loyalty >= 1
                        /\ referral'.exists => referral'.credited

AllBackedAfter(o, timeline) == \A i \in 1 .. Len(timeline) : BackedAfter(o, timeline[i])

\* A timeline that is backed stays backed.
LEMMA BackedStays ==
  ASSUME TypeOK, TypeOK', FactsGrow, NEW o \in Orders, NEW timeline, AllBacked(o, timeline)
  PROVE  AllBackedAfter(o, timeline)
<1>1. ledger[o].loyalty \in Nat /\ ledger'[o].loyalty \in Nat
  BY DEF TypeOK, Entries
<1>2. referral.credited => referral'.credited
  BY DEF FactsGrow
<1>3. ASSUME NEW s, Backed(o, s) PROVE BackedAfter(o, s)
  BY <1>1, <1>2, <1>3 DEF FactsGrow, Backed, BackedAfter
<1>4. QED
  BY <1>3 DEF AllBacked, AllBackedAfter

\* So does one that is extended by a backed status.
LEMMA BackedAppend ==
  ASSUME NEW o, NEW timeline \in Seq(OrderStatus), NEW s \in OrderStatus,
         AllBackedAfter(o, timeline), BackedAfter(o, s)
  PROVE  AllBackedAfter(o, Append(timeline, s))
<1>1. /\ Len(Append(timeline, s)) = Len(timeline) + 1
      /\ Append(timeline, s)[Len(timeline) + 1] = s
      /\ Len(timeline) \in Nat /\ \A i \in 1 .. Len(timeline) : Append(timeline, s)[i] = timeline[i]
  OBVIOUS
<1>2. ASSUME NEW i \in 1 .. Len(timeline) + 1 PROVE BackedAfter(o, Append(timeline, s)[i])
  <2>1. CASE i = Len(timeline) + 1
    BY <1>1, <2>1
  <2>2. CASE i \in 1 .. Len(timeline)
    BY <1>1, <2>2 DEF AllBackedAfter
  <2>3. QED
    BY <1>1, <2>1, <2>2
<1>3. QED
  BY <1>1, <1>2 DEF AllBackedAfter

\* The rows stay backed: an untouched one because facts stay, a rewritten one
\* because what the request read is backed and what it adds is.
LEMMA RecordsStayBacked ==
  ASSUME TypeOK, TypeOK', FactsInv, TableStep
  PROVE  RecordsBacked'
<1> SUFFICES ASSUME NEW o \in Orders PROVE AllBackedAfter(o, order'[o].timeline)
  BY DEF RecordsBacked, AllBacked, AllBackedAfter, Backed, BackedAfter
<1>1. CASE order'[o].timeline = order[o].timeline
  <2>1. AllBacked(o, order[o].timeline)
    BY DEF FactsInv, RecordsBacked
  <2>2. QED
    BY <1>1, <2>1, BackedStays DEF TableStep
<1>2. ASSUME NEW r \in Slots, request[r] # Idle, request[r].order = o,
             WritesStatus(request[r].handler),
             order'[o].timeline = Append(request[r].seen.timeline, Target(request[r].handler)),
             Target(request[r].handler) \in announced'[o],
             Target(request[r].handler) = "DELIVERED" =>
               /\ order[o].profile.earns => ledger'[o].loyalty >= 1
               /\ referral'.exists => referral'.credited
      PROVE  AllBackedAfter(o, order'[o].timeline)
  <2>1. /\ request[r].seen.timeline \in Seq(OrderStatus)
        /\ Target(request[r].handler) \in OrderStatus
    BY <1>2, HeldType DEF Row, Target, WritesStatus, Handlers, OrderStatus
  <2>2. BackedAfter(o, Target(request[r].handler))
    BY <1>2 DEF BackedAfter, FactsInv, InFlightBacked, TableStep, FactsGrow, Target
  <2>3. AllBacked(o, request[r].seen.timeline)
    BY <1>2 DEF FactsInv, InFlightBacked
  <2>4. AllBackedAfter(o, request[r].seen.timeline)
    BY <2>3, BackedStays DEF TableStep
  <2>5. QED
    BY <1>2, <2>1, <2>2, <2>4, BackedAppend
<1>3. QED
  BY <1>1, <1>2 DEF TableStep, RecordStep

\* The copies in flight stay backed.
LEMMA InFlightStaysBacked ==
  ASSUME TypeOK, TypeOK', FactsInv, TableStep, SlotStep
  PROVE  InFlightBacked'
<1> DEFINE Kept(r, o) ==
      /\ AllBackedAfter(o, request'[r].seen.timeline)
      /\ request'[r].handler = "PICKED_UP" => order'[o].partner # NoPartner
      /\ request'[r].handler = "ACCEPTED" /\ order'[o].profile.service = "PHARMACY"
           => o \in verified'
<1>1. ASSUME NEW r \in Slots, request[r] # Idle, request'[r] = request[r]
      PROVE  Kept(r, request'[r].order)
  <2>1. request[r].order \in Orders
    BY <1>1, HeldType
  <2>2. AllBacked(request[r].order, request[r].seen.timeline)
    BY <1>1 DEF FactsInv, InFlightBacked
  <2>3. AllBackedAfter(request[r].order, request[r].seen.timeline)
    BY <2>1, <2>2, BackedStays DEF TableStep
  <2>4. QED
    BY <1>1, <2>1, <2>3 DEF FactsInv, InFlightBacked, TableStep, FactsGrow
<1>2. ASSUME NEW r \in Slots, NEW o \in Orders,
             request'[r].order = o, request'[r].seen = order[o],
             request'[r].handler = "PICKED_UP" => order[o].partner # NoPartner,
             request'[r].handler = "ACCEPTED" =>
               assertPrescriptionVerifiedForAcceptance(order[o])
      PROVE  Kept(r, request'[r].order)
  <2>1. AllBacked(o, order[o].timeline)
    BY DEF FactsInv, RecordsBacked
  <2>2. AllBackedAfter(o, order[o].timeline)
    BY <2>1, BackedStays DEF TableStep
  <2>3. QED
    BY <1>2, <2>2 DEF FactsInv, VerdictsBacked, TableStep, FactsGrow,
       assertPrescriptionVerifiedForAcceptance
<1>3. ASSUME NEW r \in Slots, request'[r] # Idle PROVE Kept(r, request'[r].order)
  <2> HIDE DEF Kept
  <2> QED
    BY <1>1, <1>2, <1>3 DEF SlotStep
<1>4. QED
  BY <1>3 DEF InFlightBacked, AllBacked, AllBackedAfter, Backed, BackedAfter

\* Counters, stock and refunds.
LEMMA CountsStayBacked ==
  ASSUME TypeOK, TypeOK', FactsInv, TableStep
  PROVE  /\ VerdictsBacked' /\ RewardsCounted'
         /\ CancelledGoodsReturned' /\ RefundedIsBacked'
<1>1. VerdictsBacked'
  BY DEF FactsInv, VerdictsBacked, TableStep, VerdictStep, FactsGrow
<1>2. RewardsCounted'
  <2>1. referral'.entries = IF referral'.credited THEN 1 ELSE 0
    BY DEF FactsInv, RewardsCounted, TableStep, FactsGrow, TypeOK
  <2>2. QED
    BY <2>1 DEF FactsInv, RewardsCounted, TableStep, FactsGrow
<1>3. CancelledGoodsReturned'
  <2>1. \A o \in Orders : restocked[o] \in Nat /\ restocked'[o] \in Nat
    BY DEF TypeOK
  <2>2. QED
    BY <2>1 DEF FactsInv, CancelledGoodsReturned, TableStep, FactsGrow, RecordStep
<1>4. RefundedIsBacked'
  <2>1. \A o \in Orders :
          /\ ledger[o].cancelRefund \in Nat /\ ledger[o].providerRefund \in Nat
          /\ ledger'[o].cancelRefund \in Nat /\ ledger'[o].providerRefund \in Nat
    BY DEF TypeOK, Entries
  <2>2. QED
    BY <2>1 DEF FactsInv, RefundedIsBacked, TableStep, FactsGrow, PayStep
<1>5. QED
  BY <1>1, <1>2, <1>3, <1>4

LEMMA InitHasFacts == Init => FactsInv
<1> SUFFICES ASSUME Init PROVE FactsInv
  OBVIOUS
<1>1. /\ \A o \in Orders : \E p \in Profiles : order[o] = NewOrder(p)
      /\ \A p : /\ NewOrder(p).timeline = <<"PLACED">> /\ NewOrder(p).status = "PLACED"
               /\ NewOrder(p).pay # "REFUNDED" /\ NewOrder(p).prescription # "VERIFIED"
  <2>1. \A o \in Orders : \E p \in Profiles : order[o] = NewOrder(p)
    BY DEF Init
  <2>2. ASSUME NEW p
        PROVE  /\ NewOrder(p).timeline = <<"PLACED">> /\ NewOrder(p).status = "PLACED"
               /\ NewOrder(p).pay # "REFUNDED" /\ NewOrder(p).prescription # "VERIFIED"
    BY DEF NewOrder
  <2>3. QED
    BY <2>1, <2>2
<1>2. \A o \in Orders : /\ order[o].timeline = <<"PLACED">> /\ order[o].status = "PLACED"
                        /\ order[o].pay # "REFUNDED" /\ order[o].prescription # "VERIFIED"
  BY <1>1
<1>3. RecordsBacked
  BY <1>2 DEF RecordsBacked, AllBacked, Backed
<1>4. InFlightBacked
  BY DEF InFlightBacked, Init
<1>5. VerdictsBacked /\ RewardsCounted /\ CancelledGoodsReturned /\ RefundedIsBacked
  BY <1>2 DEF VerdictsBacked, RewardsCounted, CancelledGoodsReturned, RefundedIsBacked, Init
<1>6. QED
  BY <1>3, <1>4, <1>5 DEF FactsInv

\* The inductive invariant.
THEOREM FactsAreKept == Spec => []FactsInv
<1>1. TypeOK /\ TypeOK' /\ FactsInv /\ [Next]_vars => FactsInv'
  BY StepEffect, RecordsStayBacked, InFlightStaysBacked, CountsStayBacked DEF FactsInv
<1>2. QED
  BY <1>1, InitHasFacts, TypeCorrect, PTL DEF Spec

-----------------------------------------------------------------------------
\* A status in the timeline, as the properties name it.
LEMMA RecordedIsBacked ==
  ASSUME FactsInv, NEW o \in Orders, NEW s \in Recorded(o)
  PROVE  Backed(o, s)
BY DEF FactsInv, RecordsBacked, AllBacked, Recorded

\* A pickup that is on record had a partner, however stale its writer was.
THEOREM PickupsHavePartners == Spec => []HandoffHasPartner
<1>1. FactsInv => HandoffHasPartner
  BY RecordedIsBacked DEF HandoffHasPartner, Backed
<1>2. QED
  BY <1>1, FactsAreKept, PTL

\* No step of any request, timer or webhook takes an order from its partner.
THEOREM PartnersAreFinal == Spec => PartnerIsFinal
<1>1. TypeOK /\ [Next]_vars =>
        [\A o \in Orders : order[o].partner # NoPartner => order'[o].partner = order[o].partner]_vars
  BY StepEffect DEF TableStep, FactsGrow
<1>2. QED
  BY <1>1, TypeCorrect, PTL DEF Spec, PartnerIsFinal

\* A pharmacy order on record as accepted had its prescription verified.
THEOREM AcceptedWereVerified == Spec => []AcceptedWasVerified
<1>1. FactsInv => AcceptedWasVerified
  BY RecordedIsBacked DEF AcceptedWasVerified, Backed
<1>2. QED
  BY <1>1, FactsAreKept, PTL

\* Every recorded status went out through the outbox.
THEOREM TimelinesAreAnnounced == Spec => []TimelineAnnounced
<1>1. FactsInv => TimelineAnnounced
  BY RecordedIsBacked DEF TimelineAnnounced, Backed
<1>2. QED
  BY <1>1, FactsAreKept, PTL

\* A delivery pays loyalty, if its total earns any, and the referrer, if there is
\* one, once, raced or retried.
THEOREM DeliveriesRewardedOnce == Spec => []DeliveryRewardedOnce
<1>1. TypeOK /\ FactsInv => DeliveryRewardedOnce
  <2> SUFFICES ASSUME TypeOK, FactsInv PROVE DeliveryRewardedOnce
    OBVIOUS
  <2>1. RewardsCounted /\ \A o \in Orders : ledger[o].loyalty \in Nat
    BY DEF FactsInv, TypeOK, Entries
  <2>2. \A o \in Orders : "DELIVERED" \in Recorded(o) =>
          /\ order[o].profile.earns => ledger[o].loyalty >= 1
          /\ referral.exists => referral.credited
    BY RecordedIsBacked DEF Backed
  <2>3. QED
    BY <2>1, <2>2 DEF RewardsCounted, DeliveryRewardedOnce
<1>2. QED
  BY <1>1, FactsAreKept, TypeCorrect, PTL

\* A cancelled order gave its stock back, whoever cancelled it.
THEOREM CancelledGoodsAreReturned == Spec => []CancelledGoodsReturned
<1>1. FactsInv => CancelledGoodsReturned
  BY DEF FactsInv
<1>2. QED
  BY <1>1, FactsAreKept, PTL

\* A row that says REFUNDED has a refund in the ledger.
THEOREM RefundsAreBacked == Spec => []RefundedIsBacked
<1>1. FactsInv => RefundedIsBacked
  BY DEF FactsInv
<1>2. QED
  BY <1>1, FactsAreKept, PTL
=============================================================================
