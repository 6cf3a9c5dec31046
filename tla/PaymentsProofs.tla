---------------------------- MODULE PaymentsProofs ----------------------------
(***************************************************************************)
(* Theorems about Payments, for any number of references, payments,        *)
(* refunds and requests, and whatever fails, dies, expires and is sent     *)
(* again.                                                                  *)
(***************************************************************************)
EXTENDS Payments, SumTheorems, SequenceTheorems

RefundPays(f, x) == refund[f] # None /\ Pays(refund[f].payment, x)

\* Every attempt to pay has an order, every refund a captured payment.
ProviderSound ==
  /\ \A p \in PaymentIds : payment[p] # None => providerOrder[payment[p].order] # None
  /\ \A f \in RefundIds : refund[f] # None =>
       /\ payment[refund[f].payment] # None
       /\ payment[refund[f].payment].outcome = "captured"

\* A reference keeps the id of a payment that is its own; an order has a partner.
RowsSound ==
  \A x \in References :
    /\ reference[x].payment # None => Pays(reference[x].payment, x)
    /\ x \in Orders => reference[x].partner = Partner

\* What a request is about, by its kind ...
AboutAnEvent(q) ==
  /\ q.kind = "order" => q.subject \in IdempotencyKeys
  /\ q.kind \in {"captured", "failed"} =>
       /\ q.subject \in PaymentIds /\ Pays(q.subject, q.reference)
       /\ payment[q.subject].outcome = q.kind
  /\ q.kind = "refunded" => q.subject \in RefundIds /\ RefundPays(q.subject, q.reference)
  /\ q.kind = "refund" /\ q.phase \in {"read", "write", "commit", "remember"} =>
       q.subject \in RefundIds /\ RefundPays(q.subject, q.reference)

\* ... and where it can be, with what it has read.
WhereItCanBe(q) ==
  /\ q.kind = "order" =>
       q.phase \in {"lookup", "lock", "relookup", "derive", "provider", "remember", "unlock"}
  /\ q.kind = "refund" =>
       q.phase \in {"derive", "provider", "read", "write", "commit", "remember", "unlock"}
  /\ q.kind \in Webhooks =>
       q.phase \in {"lookup", "lock", "recheck", "read", "write", "commit", "remember", "unlock"}
  /\ q.phase \in {"provider", "write", "commit"} => q.seen \in Row
  /\ q.phase \in {"write", "commit"} /\ q.reference \in Orders => q.seen.partner = Partner
  /\ q.phase = "provider" /\ q.kind = "refund" =>
       q.seen.payment # None /\ Pays(q.seen.payment, q.reference)

RequestsSound == \A r \in Requests : request[r] # None => AboutAnEvent(request[r]) /\ WhereItCanBe(request[r])

\* Orders are closed by the orders service, rides by the rides service.
WritersSound ==
  \A w \in Writers : writer[w] # None =>
    /\ writer[w].kind \in OrderUpdates => writer[w].reference \in Orders
    /\ writer[w].kind \in RideUpdates => writer[w].reference \in Rides

Sound == TypeOK /\ ProviderSound /\ RowsSound /\ RequestsSound /\ WritersSound

\* The provider forgets nothing and changes nothing.
ProviderGrows ==
  /\ \A o \in ProviderOrders : providerOrder[o] # None => providerOrder'[o] = providerOrder[o]
  /\ \A p \in PaymentIds : payment[p] # None => payment'[p] = payment[p]
  /\ \A f \in RefundIds : refund[f] # None => refund'[f] = refund[f]

LEMMA NextKeepsProvider == ASSUME TypeOK, [Next]_vars PROVE ProviderGrows
<1>1. CASE UNCHANGED provider
  BY <1>1 DEF provider, ProviderGrows
<1>2. ASSUME NEW r \in Requests, NEW o \in ProviderOrders, createOrder(r, o) PROVE ProviderGrows
  BY <1>2 DEF createOrder, TypeOK, ProviderGrows
<1>3. ASSUME NEW r \in Requests, NEW f \in RefundIds, createRefund(r, f) PROVE ProviderGrows
  BY <1>3 DEF createRefund, TypeOK, ProviderGrows
<1>4. ASSUME NEW p \in PaymentIds, NEW o \in ProviderOrders, NEW outcome \in {"captured", "failed"},
             AttemptPayment(p, o, outcome)
      PROVE  ProviderGrows
  BY <1>4 DEF AttemptPayment, TypeOK, ProviderGrows
<1>5. ASSUME NEW f \in RefundIds, NEW p \in PaymentIds, DashboardRefund(f, p) PROVE ProviderGrows
  BY <1>5 DEF DashboardRefund, TypeOK, ProviderGrows
<1>6. QED
  BY <1>1, <1>2, <1>3, <1>4, <1>5
     DEF Next, Handle, Provider, vars, provider, Lookup, AcquireLock, Relookup, Recheck, Derive,
         ProviderRefuses, Read, Write, Commit, Remember, Unlock, Crash, TransactionFails,
         StartRefund, StartOrder, Deliver, Start, LockExpires, AnswerExpires, RideAccepted,
         ReadRow, CommitRow, WriterFails

\* So what an id stands for stays as it is.
LEMMA WhatPaysStays ==
  ASSUME TypeOK, ProviderSound, ProviderGrows
  PROVE  /\ \A p \in PaymentIds : payment[p] # None =>
              payment'[p] # None /\ payment'[p] = payment[p] /\ OrderOf(p)' = OrderOf(p)
         /\ \A p \in PaymentIds, x \in References : Pays(p, x) => Pays(p, x)'
         /\ \A f \in RefundIds : refund[f] # None => refund'[f] = refund[f] /\ refund'[f] # None
         /\ \A f \in RefundIds, x \in References : RefundPays(f, x) => RefundPays(f, x)'
<1>1. \A p \in PaymentIds : payment[p] # None =>
        payment'[p] # None /\ payment'[p] = payment[p] /\ OrderOf(p)' = OrderOf(p)
  BY DEF TypeOK, Attempt, ProviderSound, ProviderGrows, OrderOf
<1>2. \A p \in PaymentIds, x \in References : Pays(p, x) => Pays(p, x)'
  BY <1>1 DEF Pays
<1>3. \A f \in RefundIds : refund[f] # None => refund'[f] = refund[f] /\ refund'[f] # None
                                               /\ refund[f].payment \in PaymentIds
  BY DEF TypeOK, ProviderRefund, ProviderGrows
<1>4. \A f \in RefundIds, x \in References : RefundPays(f, x) => RefundPays(f, x)'
  BY <1>2, <1>3 DEF RefundPays, Pays, OrderOf, ProviderSound, ProviderGrows, TypeOK, Attempt
<1>5. QED
  BY <1>1, <1>2, <1>3, <1>4
-----------------------------------------------------------------------------
\* What moving one request on, or freeing its slot, does to the requests.
LEMMA RequestsChange ==
  ASSUME TypeOK, NEW r \in Requests, NEW q \in Request \cup {None},
         request' = [request EXCEPT ![r] = q]
  PROVE  /\ request' \in [Requests -> Request \cup {None}]
         /\ request'[r] = q
         /\ \A s \in Requests : s # r => request'[s] = request[s]
BY DEF TypeOK

LEMMA RequestIsTyped ==
  ASSUME TypeOK, NEW r \in Requests, request[r] # None
  PROVE  /\ request[r] \in Request
         /\ request[r].kind \in Kinds /\ request[r].subject \in Subjects
         /\ request[r].reference \in References /\ request[r].phase \in Phases
         /\ request[r].balance \in Nat /\ request[r].ok \in BOOLEAN
         /\ request[r].seen \in Row \cup {None}
BY DEF TypeOK, Request

\* r goes on: only its phase, and perhaps its verdict, are new.
GoesOn(r, phase) ==
  /\ request'[r] \in Request /\ request'[r].phase = phase
  /\ request'[r].kind = request[r].kind /\ request'[r].subject = request[r].subject
  /\ request'[r].reference = request[r].reference /\ request'[r].seen = request[r].seen

OthersStay(r) == \A s \in Requests : s # r => request'[s] = request[s]
RequestsTyped == request \in [Requests -> Request \cup {None}]

LEMMA GotoGoesOn ==
  ASSUME TypeOK, NEW r \in Requests, NEW phase \in Phases, request[r] # None,
         Goto(r, phase) \/ FailTo(r, phase)
  PROVE  RequestsTyped' /\ GoesOn(r, phase) /\ OthersStay(r)
<1>1. request[r] \in Request
  BY RequestIsTyped
<1>2. CASE Goto(r, phase)
  <2>1. [request[r] EXCEPT !.phase = phase] \in Request
    BY <1>1 DEF Request
  <2>2. request' = [request EXCEPT ![r] = [request[r] EXCEPT !.phase = phase]]
    BY <1>2 DEF Goto
  <2>3. RequestsTyped' /\ request'[r] = [request[r] EXCEPT !.phase = phase] /\ OthersStay(r)
    BY <2>1, <2>2, RequestsChange DEF RequestsTyped, OthersStay
  <2>4. QED
    BY <1>1, <2>1, <2>3 DEF Request, GoesOn
<1>3. CASE FailTo(r, phase)
  <2>1. [request[r] EXCEPT !.phase = phase, !.ok = FALSE] \in Request
    BY <1>1 DEF Request
  <2>2. request' = [request EXCEPT ![r] = [request[r] EXCEPT !.phase = phase, !.ok = FALSE]]
    BY <1>3 DEF FailTo
  <2>3. /\ RequestsTyped' /\ OthersStay(r)
        /\ request'[r] = [request[r] EXCEPT !.phase = phase, !.ok = FALSE]
    BY <2>1, <2>2, RequestsChange DEF RequestsTyped, OthersStay
  <2>4. QED
    BY <1>1, <2>1, <2>3 DEF Request, GoesOn
<1>4. QED
  BY <1>2, <1>3

LEMMA SlotFreed ==
  ASSUME TypeOK, NEW r \in Requests, request' = [request EXCEPT ![r] = None]
  PROVE  RequestsTyped' /\ request'[r] = None /\ OthersStay(r)
BY DEF TypeOK, RequestsTyped, OthersStay

LEMMA AnswerIsTyped ==
  ASSUME TypeOK, NEW r \in Requests, request[r] # None, NEW ok, Answer(r, ok)
  PROVE  /\ RequestsTyped' /\ request'[r] = None /\ OthersStay(r)
         /\ acked' \subseteq Webhooks \X Subjects
<1>1. acked \subseteq Webhooks \X Subjects /\ request[r].subject \in Subjects
  BY RequestIsTyped DEF TypeOK
<1>2. acked' \subseteq Webhooks \X Subjects
  BY <1>1 DEF Answer
<1>3. QED
  BY <1>2, SlotFreed DEF Answer

LEMMA SpendIsTyped ==
  ASSUME TypeOK, NEW k \in FaultKinds, Spend(k)
  PROVE  spent' \in [FaultKinds -> Nat] /\ \A j \in FaultKinds : spent[j] <= spent'[j]
BY DEF TypeOK, Spend

\* The key of a request in Redis, while it has one.
LEMMA RedisKeyIsKey ==
  ASSUME Sound, NEW r \in Requests, request[r] # None, request[r].kind # "refund"
  PROVE  RedisKey(r) \in RedisKeys
<1> DEFINE q == request[r]
<1>1. q.kind \in Kinds /\ q.subject \in Subjects /\ AboutAnEvent(request[r])
  BY RequestIsTyped DEF Sound, RequestsSound
<1>2. PaymentOf(q.kind, q.subject) \in Subjects
  BY <1>1 DEF Sound, TypeOK, AboutAnEvent, RefundPays, ProviderRefund, PaymentOf, Subjects
<1>3. QED
  BY <1>1, <1>2 DEF RedisKey, RedisKeys

\* The amount that a transaction records.
LEMMA AmountIsNat ==
  ASSUME Sound, NEW r \in Requests, request[r] # None,
         request[r].phase \in {"read", "write", "commit"}, request[r].kind # "failed"
  PROVE  /\ AmountOf(r) \in Nat
         /\ request[r].kind \in {"captured", "refund", "refunded"}
         /\ request[r].subject \in PaymentIds \cup RefundIds
<1> DEFINE q == request[r]
<1>1. /\ q.kind \in Kinds /\ AboutAnEvent(request[r]) /\ WhereItCanBe(request[r])
  BY RequestIsTyped DEF Sound, RequestsSound
<1>2. q.kind \in {"captured", "refund", "refunded"}
  BY <1>1 DEF Kinds, WhereItCanBe
<1>3. CASE q.kind = "captured"
  <2>1. q.subject \in PaymentIds /\ payment[q.subject] # None
    BY <1>1, <1>3 DEF AboutAnEvent, Pays
  <2>2. payment[q.subject].order \in ProviderOrders /\ providerOrder[payment[q.subject].order] # None
    BY <2>1 DEF Sound, TypeOK, Attempt, ProviderSound
  <2>3. OrderOf(q.subject) \in ProviderOrder
    BY <2>2 DEF Sound, TypeOK, OrderOf
  <2>4. QED
    BY <1>3, <2>1, <2>3 DEF AmountOf, ProviderOrder
<1>4. CASE q.kind \in {"refund", "refunded"}
  <2>1. q.subject \in RefundIds /\ refund[q.subject] # None
    BY <1>1, <1>4 DEF AboutAnEvent, RefundPays
  <2>2. refund[q.subject] \in ProviderRefund
    BY <2>1 DEF Sound, TypeOK
  <2>3. QED
    BY <1>4, <2>1, <2>2 DEF AmountOf, ProviderRefund
<1>5. QED
  BY <1>2, <1>3, <1>4

LEMMA BalanceIsNat == ASSUME TypeOK, NEW u PROVE Balance(u) \in Nat
<1> DEFINE f == [n \in DOMAIN ledger |-> ledger[n].amount]
<1>1. DOMAIN ledger = 1 .. Len(ledger) /\ Len(ledger) \in Nat
  BY DEF TypeOK
<1>2. IsFiniteSet(DOMAIN ledger)
  BY <1>1, FS_Interval
<1>3. \A n \in DOMAIN ledger : ledger[n] \in LedgerEntry
  BY DEF TypeOK
<1>4. \A n \in DOMAIN ledger : f[n] \in Nat
  BY <1>3 DEF LedgerEntry
<1>5. {n \in DOMAIN ledger : ledger[n].user = u} \in SUBSET (DOMAIN ledger)
  OBVIOUS
<1>6. SumFunctionOnSet(f, {n \in DOMAIN ledger : ledger[n].user = u}) \in Nat
  BY <1>2, <1>4, <1>5, SumIsNat
<1>7. QED
  BY <1>6 DEF Balance

\* Whom a transaction credits.
LEMMA BeneficiaryIsUser ==
  ASSUME Sound, NEW r \in Requests, request[r] # None, request[r].phase \in {"write", "commit"},
         Beneficiary(r) # NoUser
  PROVE  Beneficiary(r) \in Users /\ request[r].kind # "failed"
<1>1. request[r].seen \in Row
  BY DEF Sound, RequestsSound, WhereItCanBe
<1>2. request[r].seen.partner \in {Partner, NoUser}
  BY <1>1 DEF Row
<1>3. QED
  BY <1>2 DEF Beneficiary, Users
-----------------------------------------------------------------------------
LEMMA StartIsTyped ==
  ASSUME TypeOK, NEW r \in Requests, NEW kind \in Kinds, NEW subject \in Subjects,
         NEW x \in References, NEW phase \in Phases, Start(r, kind, subject, x, phase)
  PROVE  /\ RequestsTyped' /\ OthersStay(r) /\ UNCHANGED <<postgres, redis, provider, acked>>
         /\ request'[r] \in Request
         /\ request'[r].kind = kind /\ request'[r].subject = subject
         /\ request'[r].reference = x /\ request'[r].phase = phase
<1> DEFINE q == [ kind |-> kind, subject |-> subject, reference |-> x, phase |-> phase,
                  seen |-> None, balance |-> 0, ok |-> TRUE ]
<1>1. q \in Request
  BY DEF Request
<1>2. request' = [request EXCEPT ![r] = q] /\ UNCHANGED <<postgres, redis, provider, acked>>
  BY DEF Start
<1>3. RequestsTyped' /\ request'[r] = q /\ OthersStay(r)
  BY <1>1, <1>2, RequestsChange DEF RequestsTyped, OthersStay
<1>4. QED
  BY <1>1, <1>2, <1>3

\* An event that arrives is one of the provider's.
LEMMA DeliveredIsSound ==
  ASSUME Sound, NEW r \in Requests, NEW kind \in Webhooks,
         NEW subject \in PaymentIds \cup RefundIds, Deliver(r, kind, subject)
  PROVE  /\ kind \in Kinds /\ subject \in Subjects
         /\ OrderOf(PaymentOf(kind, subject)).reference \in References
         /\ PaymentOf(kind, subject) \in PaymentIds /\ payment[PaymentOf(kind, subject)] # None
         /\ kind = "refunded" => subject \in RefundIds /\ refund[subject] # None
         /\ kind # "refunded" =>
              /\ subject \in PaymentIds /\ payment[subject] # None
              /\ payment[subject].outcome = kind
         /\ "lookup" \in Phases
<1>1. kind \in Kinds /\ subject \in Subjects /\ "lookup" \in Phases
  BY DEF Webhooks, Kinds, Subjects, Phases
<1>2. /\ kind = "refunded" => subject \in RefundIds /\ refund[subject] # None
      /\ kind # "refunded" =>
           /\ subject \in PaymentIds /\ payment[subject] # None
           /\ payment[subject].outcome = kind
  BY DEF Deliver
<1>3. PaymentOf(kind, subject) \in PaymentIds /\ payment[PaymentOf(kind, subject)] # None
  BY <1>2 DEF PaymentOf, Sound, TypeOK, ProviderRefund, ProviderSound
<1> DEFINE o == payment[PaymentOf(kind, subject)].order
<1>4. o \in ProviderOrders /\ providerOrder[o] # None
  BY <1>3 DEF Sound, TypeOK, Attempt, ProviderSound
<1>5. OrderOf(PaymentOf(kind, subject)) \in ProviderOrder
  BY <1>4 DEF Sound, TypeOK, OrderOf
<1>6. QED
  BY <1>1, <1>2, <1>3, <1>5 DEF ProviderOrder

\* The steps of a transaction that end in its writes.
LEMMA WriteIsTyped ==
  ASSUME Sound, NEW r \in Requests, Write(r)
  PROVE  /\ RequestsTyped' /\ OthersStay(r) /\ UNCHANGED <<postgres, redis, provider, acked, spent>>
         /\ GoesOn(r, "commit") \/ GoesOn(r, "unlock")
<1>1. /\ TypeOK /\ request[r] # None /\ request[r].phase = "write" /\ request[r] \in Request
      /\ UNCHANGED <<postgres, redis, provider, acked, spent>>
      /\ {"commit", "unlock"} \subseteq Phases
  BY RequestIsTyped DEF Write, At, Sound, Phases
<1>2. CASE Goto(r, "commit") \/ FailTo(r, "unlock")
  BY <1>1, <1>2, GotoGoesOn
<1>3. CASE ~(Goto(r, "commit") \/ FailTo(r, "unlock"))
  <2> DEFINE b == Balance(Beneficiary(r)) + AmountOf(r)
             q == [request[r] EXCEPT !.balance = b, !.phase = "commit"]
  <2>1. Beneficiary(r) # NoUser /\ request' = [request EXCEPT ![r] = q]
    BY <1>3 DEF Write
  <2>2. AmountOf(r) \in Nat /\ Balance(Beneficiary(r)) \in Nat
    BY <1>1, <2>1, BeneficiaryIsUser, AmountIsNat, BalanceIsNat
  <2>3. b \in Nat
    BY <2>2
  <2> HIDE DEF b
  <2>4. q \in Request
    BY <1>1, <2>3 DEF Request
  <2>5. RequestsTyped' /\ request'[r] = q /\ OthersStay(r)
    BY <1>1, <2>1, <2>4, RequestsChange DEF RequestsTyped, OthersStay
  <2>6. GoesOn(r, "commit")
    BY <1>1, <2>4, <2>5 DEF Request, GoesOn
  <2>7. QED
    BY <1>1, <2>5, <2>6
<1>4. QED
  BY <1>2, <1>3

\* What a commit leaves.
LEMMA CommitIsTyped ==
  ASSUME Sound, NEW r \in Requests, Commit(r)
  PROVE  /\ reference' \in [References -> Row]
         /\ PaymentOf(IF request[r].kind = "refund" THEN "refunded" ELSE request[r].kind,
                      request[r].subject) \in PaymentIds
         /\ Pays(PaymentOf(IF request[r].kind = "refund" THEN "refunded" ELSE request[r].kind,
                           request[r].subject), request[r].reference)
         /\ cachedBalance' \in [Users -> Nat]
         /\ \/ UNCHANGED ledger
            \/ \E e \in LedgerEntry : ledger' = Append(ledger, e)
         /\ RequestsTyped' /\ OthersStay(r) /\ UNCHANGED <<redis, provider, spent>>
         /\ request'[r] = None \/ GoesOn(r, "remember")
         /\ acked' \subseteq Webhooks \X Subjects
<1> DEFINE q == request[r]
           p == PaymentOf(IF q.kind = "refund" THEN "refunded" ELSE q.kind, q.subject)
<1>1. /\ TypeOK /\ q # None /\ q.phase = "commit" /\ q \in Request /\ q.kind \in Kinds
      /\ q.reference \in References /\ q.balance \in Nat
      /\ AboutAnEvent(request[r]) /\ WhereItCanBe(request[r]) /\ UNCHANGED <<redis, provider, spent>>
      /\ "remember" \in Phases
  BY RequestIsTyped DEF Commit, At, Sound, RequestsSound, Phases
<1>2. p \in PaymentIds /\ Pays(p, q.reference)
  <2>1. q.kind \in {"captured", "failed", "refund", "refunded"}
    BY <1>1 DEF Kinds, WhereItCanBe
  <2>2. CASE q.kind \in {"captured", "failed"}
    BY <1>1, <2>2 DEF AboutAnEvent, PaymentOf
  <2>3. CASE q.kind \in {"refund", "refunded"}
    <3>1. q.subject \in RefundIds /\ RefundPays(q.subject, q.reference)
      BY <1>1, <2>3 DEF AboutAnEvent
    <3>2. refund[q.subject].payment \in PaymentIds
      BY <1>1, <3>1 DEF TypeOK, RefundPays, ProviderRefund
    <3>3. p = refund[q.subject].payment
      BY <2>3 DEF PaymentOf
    <3>4. QED
      BY <3>1, <3>2, <3>3 DEF RefundPays
  <2>4. QED
    BY <2>1, <2>2, <2>3
<1>3. reference' \in [References -> Row]
  <2>1. StatusOf(q.kind) \in PaymentStatus
    BY DEF StatusOf, PaymentStatus
  <2> DEFINE x == q.reference
             pid == IF x \in Rides THEN reference[x].payment ELSE p
             row == [reference[x] EXCEPT !.status = StatusOf(q.kind), !.payment = pid]
  <2>2. reference' = [reference EXCEPT ![x] = row]
    BY DEF Commit, updatePaymentStatus
  <2>3. reference[x] \in Row /\ pid \in PaymentIds \cup {None}
    BY <1>1, <1>2 DEF TypeOK, Row
  <2> HIDE DEF pid
  <2>4. row \in Row
    BY <2>1, <2>3 DEF Row
  <2>5. QED
    BY <1>1, <2>2, <2>4 DEF TypeOK
<1>4. cachedBalance' \in [Users -> Nat]
      /\ (UNCHANGED ledger \/ \E e \in LedgerEntry : ledger' = Append(ledger, e))
  <2>1. CASE Beneficiary(r) = NoUser
    BY <1>1, <2>1 DEF Commit, WriteLedger, TypeOK
  <2>2. CASE Beneficiary(r) # NoUser
    <3> DEFINE e == [ id |-> LedgerId(r), user |-> Beneficiary(r), amount |-> AmountOf(r),
                      type |-> IF request[r].kind = "captured" THEN "CREDIT" ELSE "REFUND",
                      reference |-> request[r].reference ]
    <3>1. Beneficiary(r) \in Users /\ AmountOf(r) \in Nat /\ q.subject \in PaymentIds \cup RefundIds
      BY <1>1, <2>2, BeneficiaryIsUser, AmountIsNat
    <3>2. e \in LedgerEntry
      BY <1>1, <3>1 DEF LedgerEntry, LedgerId
    <3>3. /\ ledger' = Append(ledger, e)
          /\ cachedBalance' = [cachedBalance EXCEPT ![Beneficiary(r)] = request[r].balance]
      BY <2>2 DEF Commit, WriteLedger
    <3>4. cachedBalance' \in [Users -> Nat]
      BY <1>1, <3>3 DEF TypeOK
    <3>5. QED
      BY <3>2, <3>3, <3>4
  <2>3. QED
    BY <2>1, <2>2
<1>5. CASE q.kind = "refund"
  <2>1. Answer(r, TRUE)
    BY <1>5 DEF Commit
  <2>2. QED
    BY <1>1, <1>2, <1>3, <1>4, <2>1, AnswerIsTyped
<1>6. CASE q.kind # "refund"
  <2>1. Goto(r, "remember") /\ acked' = acked
    BY <1>6 DEF Commit
  <2>2. RequestsTyped' /\ GoesOn(r, "remember") /\ OthersStay(r)
    BY <1>1, <2>1, GotoGoesOn
  <2>3. QED
    BY <1>1, <1>2, <1>3, <1>4, <2>1, <2>2 DEF TypeOK
<1>7. QED
  BY <1>5, <1>6
-----------------------------------------------------------------------------
\* The requests stay sound if the one that moves does.
LEMMA OneMoves ==
  ASSUME Sound, ProviderGrows, RequestsTyped', NEW r \in Requests, OthersStay(r),
         request'[r] # None => (AboutAnEvent(request[r]) /\ WhereItCanBe(request[r]))'
  PROVE  RequestsSound'
<1> SUFFICES ASSUME NEW s \in Requests, request'[s] # None, s # r
             PROVE  (AboutAnEvent(request[s]) /\ WhereItCanBe(request[s]))'
  BY DEF RequestsSound
<1>1. /\ request'[s] = request[s] /\ request[s] # None
      /\ AboutAnEvent(request[s]) /\ WhereItCanBe(request[s]) /\ request[s].reference \in References
      /\ request[s].kind \in Kinds /\ request[s].seen \in Row \cup {None}
  BY RequestIsTyped DEF Sound, RequestsSound, OthersStay
<1>2. /\ \A p \in PaymentIds : payment[p] # None => payment'[p] = payment[p]
      /\ \A p \in PaymentIds, x \in References : Pays(p, x) => Pays(p, x)'
      /\ \A f \in RefundIds, x \in References : RefundPays(f, x) => RefundPays(f, x)'
  BY WhatPaysStays DEF Sound
<1>3. AboutAnEvent(request[s])'
  BY <1>1, <1>2 DEF AboutAnEvent, Pays
<1>4. WhereItCanBe(request[s])'
  <2>1. request[s].seen \in Row => request[s].seen.payment \in PaymentIds \cup {None}
    BY DEF Row
  <2>2. QED
    BY <1>1, <1>2, <2>1 DEF WhereItCanBe
<1>5. QED
  BY <1>3, <1>4

\* A request that goes on to a phase of its kind, having read nothing new.
LEMMA GoesOnSoundly ==
  ASSUME Sound, ProviderGrows, NEW r \in Requests, request[r] # None,
         NEW phase \in Phases \ {"provider"}, GoesOn(r, phase),
         request[r].kind = "order" =>
           phase \in {"lookup", "lock", "relookup", "derive", "remember", "unlock"},
         request[r].kind = "refund" =>
           phase \in {"derive", "read", "write", "commit", "remember", "unlock"},
         request[r].kind \in Webhooks =>
           phase \in {"lookup", "lock", "recheck", "read", "write", "commit", "remember", "unlock"},
         phase \in {"write", "commit"} => request[r].phase \in {"write", "commit"},
         phase \in {"read", "remember"} /\ request[r].kind = "refund" =>
           request[r].phase \in {"read", "write", "commit", "remember"}
  PROVE  (AboutAnEvent(request[r]) /\ WhereItCanBe(request[r]))'
<1>1. /\ AboutAnEvent(request[r]) /\ WhereItCanBe(request[r]) /\ request[r].reference \in References
  BY RequestIsTyped DEF Sound, RequestsSound
<1>2. /\ \A p \in PaymentIds : payment[p] # None => payment'[p] = payment[p]
      /\ \A p \in PaymentIds, x \in References : Pays(p, x) => Pays(p, x)'
      /\ \A f \in RefundIds, x \in References : RefundPays(f, x) => RefundPays(f, x)'
  BY WhatPaysStays DEF Sound
<1>3. AboutAnEvent(request[r])'
  BY <1>1, <1>2 DEF AboutAnEvent, Pays, GoesOn
<1>4. WhereItCanBe(request[r])'
  BY <1>1 DEF WhereItCanBe, GoesOn
<1>5. QED
  BY <1>3, <1>4

\* All steps at once: a request that changes went on, ended, or has just come.
LEMMA GoesOnKeepsRequests ==
  ASSUME Sound, ProviderGrows, NEW r \in Requests, request[r] # None,
         NEW phase \in Phases \ {"provider"}, Goto(r, phase) \/ FailTo(r, phase),
         request[r].kind = "order" =>
           phase \in {"lookup", "lock", "relookup", "derive", "remember", "unlock"},
         request[r].kind = "refund" =>
           phase \in {"derive", "read", "write", "commit", "remember", "unlock"},
         request[r].kind \in Webhooks =>
           phase \in {"lookup", "lock", "recheck", "read", "write", "commit", "remember", "unlock"},
         phase \in {"write", "commit"} => request[r].phase \in {"write", "commit"},
         phase \in {"read", "remember"} /\ request[r].kind = "refund" =>
           request[r].phase \in {"read", "write", "commit", "remember"}
  PROVE  RequestsTyped' /\ RequestsSound'
<1>1. RequestsTyped' /\ GoesOn(r, phase) /\ OthersStay(r)
  BY GotoGoesOn DEF Sound
<1>2. (AboutAnEvent(request[r]) /\ WhereItCanBe(request[r]))'
  BY <1>1, GoesOnSoundly
<1>3. QED
  BY <1>1, <1>2, OneMoves

LEMMA EndingKeepsRequests ==
  ASSUME Sound, ProviderGrows, NEW r \in Requests, request' = [request EXCEPT ![r] = None]
  PROVE  RequestsTyped' /\ RequestsSound'
BY SlotFreed, OneMoves DEF Sound

\* Where a handler's step is taken from.
LEMMA WhereItIs ==
  ASSUME Sound, NEW r \in Requests, NEW phase, At(r, phase)
  PROVE  /\ TypeOK /\ request[r] # None /\ request[r].phase = phase /\ request[r] \in Request
         /\ request[r].kind \in Kinds /\ request[r].reference \in References
         /\ AboutAnEvent(request[r]) /\ WhereItCanBe(request[r])
         /\ phase \in {"lookup", "lock", "relookup"} => request[r].kind # "refund"
         /\ phase \in {"relookup", "derive", "provider"} => request[r].kind \in {"order", "refund"}
         /\ phase \in {"recheck"} => request[r].kind \in Webhooks
         /\ phase \in {"read", "write", "commit"} => request[r].kind # "order"
         /\ {"lock", "relookup", "recheck", "derive", "provider", "read", "write", "commit",
             "remember", "unlock"} \subseteq Phases
<1>1. /\ TypeOK /\ request[r] # None /\ request[r].phase = phase /\ request[r] \in Request
      /\ request[r].kind \in Kinds /\ request[r].reference \in References
      /\ AboutAnEvent(request[r]) /\ WhereItCanBe(request[r])
  BY RequestIsTyped DEF At, Sound, RequestsSound
<1>2. QED
  BY <1>1 DEF WhereItCanBe, Kinds, Webhooks, Phases
\* A request that has read its reference keeps the row it read.
LEMMA RowRead ==
  ASSUME Sound, ProviderGrows, NEW r \in Requests, request[r] # None, NEW x \in Row,
         NEW phase \in {"provider", "write"},
         request' = [request EXCEPT ![r].seen = x, ![r].phase = phase],
         phase = "provider" => request[r].kind \in {"order", "refund"},
         phase = "write" => request[r].kind # "order" /\ request[r].phase = "read",
         request[r].reference \in Orders => x.partner = Partner,
         x.payment # None => Pays(x.payment, request[r].reference),
         request[r].kind = "refund" /\ phase = "provider" => x.payment # None
  PROVE  RequestsTyped' /\ RequestsSound'
<1> DEFINE q == [request[r] EXCEPT !.seen = x, !.phase = phase]
<1>1. /\ TypeOK /\ request[r] \in Request /\ request[r].reference \in References
      /\ request[r].kind \in Kinds
      /\ AboutAnEvent(request[r]) /\ WhereItCanBe(request[r])
  BY RequestIsTyped DEF Sound, RequestsSound
<1>2. q \in Request
  BY <1>1 DEF Request, Phases
<1>3. RequestsTyped' /\ request'[r] = q /\ OthersStay(r)
  BY <1>1, <1>2, RequestsChange DEF RequestsTyped, OthersStay
<1>4. /\ q.kind = request[r].kind /\ q.subject = request[r].subject /\ q.phase = phase
      /\ q.reference = request[r].reference /\ q.seen = x
  BY <1>1 DEF Request
<1>5. /\ \A p \in PaymentIds : payment[p] # None => payment'[p] = payment[p]
      /\ \A p \in PaymentIds, y \in References : Pays(p, y) => Pays(p, y)'
      /\ \A f \in RefundIds, y \in References : RefundPays(f, y) => RefundPays(f, y)'
  BY <1>1, WhatPaysStays DEF Sound
<1>6. AboutAnEvent(request[r])'
  <2>1. /\ request[r].kind \in {"captured", "failed"} => payment[request[r].subject] # None
        /\ request[r].kind = "refund" /\ phase = "write" =>
             request[r].subject \in RefundIds /\ RefundPays(request[r].subject, request[r].reference)
    BY <1>1 DEF AboutAnEvent, Pays
  <2>2. QED
    BY <1>1, <1>3, <1>4, <1>5, <2>1 DEF AboutAnEvent
<1>7. WhereItCanBe(request[r])'
  <2>1. x.payment \in PaymentIds \cup {None}
    BY DEF Row
  <2>2. x.payment # None => Pays(x.payment, request[r].reference)'
    BY <1>1, <1>3, <1>4, <1>5, <2>1
  <2>3. QED
    BY <1>1, <1>3, <1>4, <2>2 DEF WhereItCanBe, Kinds, Webhooks
<1>8. QED
  BY <1>3, <1>6, <1>7, OneMoves

LEMMA HandlersKeepRequests ==
  ASSUME Sound, ProviderGrows, NEW r \in Requests, Handle(r)
  PROVE  RequestsTyped' /\ RequestsSound'
<1> DEFINE Goal == RequestsTyped' /\ RequestsSound'
           x == reference[request[r].reference]
<1> USE DEF Kinds, Webhooks
<1>1. ASSUME Lookup(r) PROVE Goal
  <2>1. At(r, "lookup")
    BY <1>1 DEF Lookup
  <2>2. request' = [request EXCEPT ![r] = None] \/ Goto(r, "lock")
    BY <1>1 DEF Lookup, Answer
  <2>3. QED
    BY <2>1, <2>2, WhereItIs, EndingKeepsRequests, GoesOnKeepsRequests
<1>2. ASSUME AcquireLock(r) PROVE Goal
  <2>1. At(r, "lock")
    BY <1>2 DEF AcquireLock
  <2>2. CASE request[r].kind = "order"
    <3>1. Goto(r, "derive") \/ Goto(r, "relookup")
      BY <1>2, <2>2 DEF AcquireLock
    <3>2. QED
      BY <2>1, <2>2, <3>1, WhereItIs, GoesOnKeepsRequests
  <2>3. CASE request[r].kind # "order"
    <3>1. Goto(r, "recheck") \/ request' = [request EXCEPT ![r] = None]
      BY <1>2, <2>3 DEF AcquireLock, Answer
    <3>2. QED
      BY <2>1, <2>3, <3>1, WhereItIs, EndingKeepsRequests, GoesOnKeepsRequests
  <2>4. QED
    BY <2>2, <2>3
<1>3. ASSUME Relookup(r) PROVE Goal
  BY <1>3, EndingKeepsRequests DEF Relookup, Answer
<1>4. ASSUME Recheck(r) PROVE Goal
  <2>1. At(r, "recheck") /\ (Goto(r, "unlock") \/ Goto(r, "read"))
    BY <1>4 DEF Recheck
  <2>2. QED
    BY <2>1, WhereItIs, GoesOnKeepsRequests
<1>5. ASSUME NEW phase, At(r, phase)
      PROVE  /\ request[r] # None /\ x \in Row
             /\ request[r].reference \in Orders => x.partner = Partner
             /\ x.payment # None => Pays(x.payment, request[r].reference)
  <2>1. TypeOK /\ request[r] # None /\ request[r].reference \in References
    BY <1>5, WhereItIs
  <2>2. QED
    BY <2>1 DEF TypeOK, Sound, RowsSound
<1>6. ASSUME Derive(r) PROVE Goal
  <2>1. At(r, "derive")
    BY <1>6 DEF Derive
  <2>2. CASE FailTo(r, "unlock") \/ request' = [request EXCEPT ![r] = None]
    BY <2>1, <2>2, WhereItIs, EndingKeepsRequests, GoesOnKeepsRequests
  <2>3. CASE ~(FailTo(r, "unlock") \/ request' = [request EXCEPT ![r] = None])
    <3>1. /\ request' = [request EXCEPT ![r].seen = x, ![r].phase = "provider"]
          /\ request[r].kind # "order" => x.payment # None
      BY <1>6, <2>3 DEF Derive, Answer
    <3>2. request[r].kind \in {"order", "refund"}
      BY <2>1, WhereItIs
    <3>3. /\ request[r] # None /\ x \in Row
          /\ request[r].reference \in Orders => x.partner = Partner
          /\ x.payment # None => Pays(x.payment, request[r].reference)
      BY <1>5, <2>1
    <3>4. QED
      BY <3>1, <3>2, <3>3, RowRead
  <2>4. QED
    BY <2>2, <2>3
<1>7. ASSUME NEW o \in ProviderOrders, createOrder(r, o) PROVE Goal
  <2>1. At(r, "provider") /\ request[r].kind = "order" /\ Goto(r, "remember")
    BY <1>7 DEF createOrder
  <2>2. QED
    BY <2>1, WhereItIs, GoesOnKeepsRequests
<1>8. ASSUME ProviderRefuses(r) PROVE Goal
  <2>1. At(r, "provider") /\ FailTo(r, "unlock")
    BY <1>8 DEF ProviderRefuses
  <2>2. QED
    BY <2>1, WhereItIs, GoesOnKeepsRequests
<1>9. ASSUME Read(r) PROVE Goal
  <2>1. At(r, "read")
    BY <1>9 DEF Read
  <2>2. CASE Goto(r, "remember") \/ FailTo(r, "unlock")
    BY <2>1, <2>2, WhereItIs, GoesOnKeepsRequests
  <2>3. CASE ~(Goto(r, "remember") \/ FailTo(r, "unlock"))
    <3>1. request' = [request EXCEPT ![r].seen = x, ![r].phase = "write"]
      BY <1>9, <2>3 DEF Read
    <3>2. request[r].kind # "order" /\ request[r].phase = "read"
      BY <2>1, WhereItIs
    <3>3. /\ request[r] # None /\ x \in Row
          /\ request[r].reference \in Orders => x.partner = Partner
          /\ x.payment # None => Pays(x.payment, request[r].reference)
      BY <1>5, <2>1
    <3>4. QED
      BY <3>1, <3>2, <3>3, RowRead
  <2>4. QED
    BY <2>2, <2>3
<1>10. ASSUME Write(r) PROVE Goal
  <2>1. At(r, "write") /\ RequestsTyped' /\ OthersStay(r)
        /\ (GoesOn(r, "commit") \/ GoesOn(r, "unlock"))
    BY <1>10, WriteIsTyped DEF Write
  <2>2. (AboutAnEvent(request[r]) /\ WhereItCanBe(request[r]))'
    BY <2>1, WhereItIs, GoesOnSoundly
  <2>3. QED
    BY <2>1, <2>2, OneMoves
<1>11. ASSUME Commit(r) PROVE Goal
  <2>1. At(r, "commit") /\ RequestsTyped' /\ OthersStay(r)
        /\ (request'[r] = None \/ GoesOn(r, "remember"))
    BY <1>11, CommitIsTyped DEF Commit
  <2>2. CASE GoesOn(r, "remember")
    <3>1. (AboutAnEvent(request[r]) /\ WhereItCanBe(request[r]))'
      BY <2>1, <2>2, WhereItIs, GoesOnSoundly
    <3>2. QED
      BY <2>1, <3>1, OneMoves
  <2>3. QED
    BY <2>1, <2>2, OneMoves
<1>12. ASSUME Remember(r) PROVE Goal
  <2>1. At(r, "remember")
        /\ (request' = [request EXCEPT ![r] = None] \/ Goto(r, "unlock"))
    BY <1>12 DEF Remember, Answer
  <2>2. QED
    BY <2>1, WhereItIs, EndingKeepsRequests, GoesOnKeepsRequests
<1>13. ASSUME Unlock(r) PROVE Goal
  BY <1>13, EndingKeepsRequests DEF Unlock, Answer
<1>14. ASSUME NEW f \in RefundIds, createRefund(r, f) PROVE Goal
  <2> DEFINE q == [request[r] EXCEPT !.subject = f, !.phase = "read"]
             p == request[r].seen.payment
  <2>1. /\ At(r, "provider") /\ request[r].kind = "refund" /\ payment[p].outcome = "captured"
        /\ refund' = [refund EXCEPT ![f] = [payment |-> p, amount |-> request[r].seen.payable]]
        /\ request' = [request EXCEPT ![r] = q]
    BY <1>14 DEF createRefund
  <2>2. /\ TypeOK /\ request[r] \in Request /\ request[r].reference \in References
        /\ request[r].phase = "provider" /\ WhereItCanBe(request[r])
    BY <2>1, WhereItIs
  <2>3. /\ request[r].seen \in Row /\ p # None /\ Pays(p, request[r].reference)
    BY <2>1, <2>2 DEF WhereItCanBe
  <2>4. p \in PaymentIds /\ request[r].seen.payable \in Nat
    BY <2>3, AmountsAssumption DEF Row
  <2>5. q \in Request
    BY <2>2 DEF Request, Subjects, Phases
  <2>6. RequestsTyped' /\ request'[r] = q /\ OthersStay(r)
    BY <2>1, <2>2, <2>5, RequestsChange DEF RequestsTyped, OthersStay
  <2>7. /\ q.kind = "refund" /\ q.subject = f /\ q.phase = "read"
        /\ q.reference = request[r].reference /\ q.seen = request[r].seen
    BY <2>1, <2>2 DEF Request
  <2>8. refund'[f] = [payment |-> p, amount |-> request[r].seen.payable]
        /\ refund'[f] \in ProviderRefund
    BY <2>1, <2>2, <2>4 DEF TypeOK, ProviderRefund
  <2>9. refund'[f] # None /\ refund'[f].payment = p
    BY <2>8, NoneAssumption
  <2>10. Pays(p, request[r].reference) => payment'[p] # None
           /\ providerOrder'[payment'[p].order].reference = request[r].reference
    BY <1>14 DEF createRefund, Pays, OrderOf
  <2>11. AboutAnEvent(request[r])'
    BY <2>3, <2>6, <2>7, <2>9, <2>10 DEF AboutAnEvent, RefundPays, Pays, OrderOf
  <2>12. WhereItCanBe(request[r])'
    BY <2>6, <2>7 DEF WhereItCanBe
  <2>13. QED
    BY <2>6, <2>11, <2>12, OneMoves
<1>15. QED
  BY <1>1, <1>2, <1>3, <1>4, <1>6, <1>7, <1>8, <1>9, <1>10, <1>11, <1>12, <1>13, <1>14 DEF Handle

LEMMA StartsAreSound ==
  ASSUME Sound, ProviderGrows, NEW r \in Requests, NEW kind \in Kinds, NEW subject \in Subjects,
         NEW x \in References, NEW phase \in {"lookup", "derive"},
         Start(r, kind, subject, x, phase),
         phase = "derive" <=> kind = "refund",
         kind = "order" => subject \in IdempotencyKeys,
         kind \in {"captured", "failed"} =>
           subject \in PaymentIds /\ Pays(subject, x) /\ payment[subject].outcome = kind,
         kind = "refunded" => subject \in RefundIds /\ RefundPays(subject, x)
  PROVE  RequestsTyped' /\ RequestsSound'
<1>1. /\ RequestsTyped' /\ OthersStay(r) /\ UNCHANGED <<postgres, redis, provider, acked>>
      /\ request'[r] \in Request
      /\ request'[r].kind = kind /\ request'[r].subject = subject
      /\ request'[r].reference = x /\ request'[r].phase = phase
  BY StartIsTyped DEF Sound, Phases
<1>2. AboutAnEvent(request[r])'
  BY <1>1 DEF AboutAnEvent, Pays, RefundPays, OrderOf, provider
<1>3. WhereItCanBe(request[r])'
  BY <1>1 DEF WhereItCanBe, Kinds, Webhooks
<1>4. QED
  BY <1>1, <1>2, <1>3, OneMoves

LEMMA RequestsStaySound ==
  ASSUME Sound, [Next]_vars
  PROVE  RequestsTyped' /\ RequestsSound'
<1> DEFINE Goal == RequestsTyped' /\ RequestsSound'
<1>1. ProviderGrows
  BY NextKeepsProvider DEF Sound
<1>2. ASSUME NEW r \in Requests, Handle(r) PROVE Goal
  BY <1>1, <1>2, HandlersKeepRequests
<1>3. ASSUME NEW r \in Requests, Crash(r) PROVE Goal
  BY <1>1, <1>3, EndingKeepsRequests DEF Crash
<1>4. ASSUME NEW r \in Requests, TransactionFails(r) PROVE Goal
  <2>1. /\ FailTo(r, "unlock")
        /\ At(r, "read") \/ At(r, "write") \/ At(r, "commit")
    BY <1>4 DEF TransactionFails
  <2>2. QED
    BY <1>1, <2>1, WhereItIs, GoesOnKeepsRequests
<1>5. ASSUME NEW r \in Requests, NEW x \in References, StartRefund(r, x) PROVE Goal
  BY <1>1, <1>5, StartsAreSound DEF StartRefund, Kinds, Subjects
<1>6. ASSUME NEW r \in Requests, NEW x \in References, NEW k \in IdempotencyKeys,
             StartOrder(r, k, x)
      PROVE  Goal
  BY <1>1, <1>6, StartsAreSound DEF StartOrder, Kinds, Subjects
<1>7. ASSUME NEW r \in Requests, NEW kind \in Webhooks, NEW subject \in PaymentIds \cup RefundIds,
             Deliver(r, kind, subject)
      PROVE  Goal
  <2> DEFINE x == OrderOf(PaymentOf(kind, subject)).reference
  <2>1. /\ kind \in Kinds /\ subject \in Subjects /\ x \in References
        /\ PaymentOf(kind, subject) \in PaymentIds /\ payment[PaymentOf(kind, subject)] # None
        /\ kind = "refunded" => subject \in RefundIds /\ refund[subject] # None
        /\ kind # "refunded" =>
             subject \in PaymentIds /\ payment[subject] # None /\ payment[subject].outcome = kind
    BY <1>7, DeliveredIsSound
  <2>2. Pays(PaymentOf(kind, subject), x)
    BY <2>1 DEF Pays
  <2>3. /\ kind \in {"captured", "failed"} =>
             subject \in PaymentIds /\ Pays(subject, x) /\ payment[subject].outcome = kind
        /\ kind = "refunded" => subject \in RefundIds /\ RefundPays(subject, x)
    BY <2>1, <2>2 DEF PaymentOf, RefundPays
  <2>4. Start(r, kind, subject, x, "lookup") /\ kind # "order" /\ kind # "refund"
    BY <1>7 DEF Deliver, Webhooks
  <2> HIDE DEF x
  <2>5. QED
    BY <1>1, <2>1, <2>3, <2>4, StartsAreSound
<1>8. CASE UNCHANGED request
  <2>1. RequestsTyped'
    BY <1>8 DEF Sound, TypeOK, RequestsTyped
  <2>2. CASE Requests = {}
    BY <2>1, <2>2 DEF RequestsSound
  <2>3. ASSUME NEW r \in Requests PROVE (request[r] # None =>
                 AboutAnEvent(request[r]) /\ WhereItCanBe(request[r]))'
    <3>1. /\ request'[r] = request[r]
          /\ request[r] # None => /\ AboutAnEvent(request[r]) /\ WhereItCanBe(request[r])
                                  /\ request[r].reference \in References
      BY <1>8, RequestIsTyped DEF Sound, RequestsSound
    <3>2. /\ \A p \in PaymentIds : payment[p] # None => payment'[p] = payment[p]
          /\ \A p \in PaymentIds, y \in References : Pays(p, y) => Pays(p, y)'
          /\ \A f \in RefundIds, y \in References : RefundPays(f, y) => RefundPays(f, y)'
      BY <1>1, WhatPaysStays DEF Sound
    <3>3. request[r] # None => AboutAnEvent(request[r])'
      BY <3>1, <3>2 DEF AboutAnEvent, Pays
    <3>4. request[r] # None => WhereItCanBe(request[r])'
      <4>1. request[r].seen \in Row => request[r].seen.payment \in PaymentIds \cup {None}
        BY DEF Row
      <4>2. QED
        BY <3>1, <3>2, <4>1 DEF WhereItCanBe
    <3>5. QED
      BY <3>1, <3>3, <3>4
  <2>4. QED
    BY <2>1, <2>3 DEF RequestsSound
<1>9. QED
  BY <1>2, <1>3, <1>4, <1>5, <1>6, <1>7, <1>8
     DEF Next, Provider, vars, AttemptPayment, DashboardRefund, LockExpires, AnswerExpires,
         RideAccepted,
         ReadRow, CommitRow, WriterFails

\* Types, variable by variable.

\* What a writer of the other services leaves.
LEMMA UpdateDoes ==
  ASSUME Sound, NEW w \in Writers, CommitRow(w), NEW u, u = writer[w]
  PROVE  /\ u \in Update /\ u.reference \in References
         /\ \A y \in References : y # u.reference => reference'[y] = reference[y]
         /\ reference'[u.reference] \in Row /\ ~reference'[u.reference].open
         /\ reference'[u.reference].payment = reference[u.reference].payment
         /\ reference'[u.reference].partner = reference[u.reference].partner
         /\ u.reference \notin Rides =>
              reference'[u.reference].status = IF GivesBack(u) THEN "REFUNDED" ELSE "CANCELLED"
         /\ cachedBalance' \in [Users -> Nat] /\ UNCHANGED <<request, provider, spent>>
         /\ IF GivesBack(u)
            THEN CancelEntry(u) \in LedgerEntry /\ ledger' = Append(ledger, CancelEntry(u))
            ELSE UNCHANGED ledger
<1> DEFINE x == u.reference
           row == UpdatedRow(u, reference[x])
<1>1. /\ u \in Update /\ x \in References /\ u.seen \in Row /\ u.balance \in Nat
      /\ reference \in [References -> Row] /\ reference[x] \in Row
      /\ cachedBalance \in [Users -> Nat]
      /\ u.kind \in OrderUpdates \/ (u.kind \in RideUpdates /\ x \in Rides)
  BY DEF CommitRow, Sound, TypeOK, WritersSound, Update, References
<1>2. u.seen.status \in PaymentStatus /\ u.seen.payable \in {Fare, Fee} /\ u.seen.payable \in Nat
  BY <1>1, AmountsAssumption DEF Row
<1>3. \E s \in PaymentStatus, a \in {Fare, Fee} :
        /\ row = [reference[x] EXCEPT !.status = s, !.payable = a, !.open = FALSE]
        /\ x \notin Rides => s = IF GivesBack(u) THEN "REFUNDED" ELSE "CANCELLED"
  <2>1. PICK a \in {Fare, Fee} : a = reference[x].payable
    BY <1>1 DEF Row
  <2>2. \A s : [reference[x] EXCEPT !.status = s, !.open = FALSE] =
               [reference[x] EXCEPT !.status = s, !.payable = a, !.open = FALSE]
    BY <1>1, <2>1 DEF Row
  <2>3. CASE u.kind \in OrderUpdates \/ u.kind = "cancelRide"
    <3>1. PICK s \in PaymentStatus : s = IF GivesBack(u) THEN "REFUNDED" ELSE "CANCELLED"
      BY DEF PaymentStatus
    <3>2. row = [reference[x] EXCEPT !.status = s, !.open = FALSE]
      BY <2>3, <3>1 DEF UpdatedRow, GivesBack, OrderUpdates
    <3>3. QED
      BY <2>2, <3>1, <3>2
  <2>4. CASE u.kind \in {"cancelRideWithFee", "completeRide"}
    <3>1. x \in Rides
      BY <1>1, <2>4 DEF OrderUpdates
    <3>2. PICK s \in PaymentStatus, b \in {Fare, Fee} :
            row = [reference[x] EXCEPT !.status = s, !.payable = b, !.open = FALSE]
      BY <1>2, <2>4 DEF UpdatedRow, PaymentStatus
    <3>3. QED
      BY <3>1, <3>2
  <2>5. QED
    BY <1>1, <2>3, <2>4 DEF RideUpdates
<1>4. PICK s \in PaymentStatus, a \in {Fare, Fee} :
        /\ row = [reference[x] EXCEPT !.status = s, !.payable = a, !.open = FALSE]
        /\ x \notin Rides => s = IF GivesBack(u) THEN "REFUNDED" ELSE "CANCELLED"
  BY <1>3
<1>5. reference' = [reference EXCEPT ![x] = row]
  BY DEF CommitRow
<1> HIDE DEF row
<1>6. reference'[x] = row /\ \A y \in References : y # x => reference'[y] = reference[y]
  BY <1>1, <1>5
<1>7. /\ row \in Row /\ row.status = s /\ ~row.open
      /\ row.payment = reference[x].payment /\ row.partner = reference[x].partner
  BY <1>1, <1>4 DEF Row
<1>8. CancelEntry(u) \in LedgerEntry
  BY <1>1, <1>2 DEF CancelEntry, LedgerEntry, Users
<1>9. cachedBalance' \in [Users -> Nat]
  <2>1. u.balance + u.seen.payable \in Nat
    BY <1>1, <1>2
  <2>2. cachedBalance' = cachedBalance
          \/ cachedBalance' = [cachedBalance EXCEPT ![Customer] = u.balance + u.seen.payable]
    BY DEF CommitRow
  <2>3. QED
    BY <1>1, <2>1, <2>2
<1>10. /\ UNCHANGED <<request, provider, spent>>
       /\ IF GivesBack(u) THEN ledger' = Append(ledger, CancelEntry(u)) ELSE UNCHANGED ledger
  BY DEF CommitRow
<1>11. QED
  BY <1>1, <1>4, <1>6, <1>7, <1>8, <1>9, <1>10

LEMMA WritersStaySound ==
  ASSUME Sound, [Next]_vars
  PROVE  writer' \in [Writers -> Update \cup {None}] /\ WritersSound'
<1>1. TypeOK /\ WritersSound
  BY DEF Sound
<1>2. ASSUME NEW w \in Writers, NEW kind \in OrderUpdates \cup RideUpdates,
             NEW x \in Orders \cup Rides, ReadRow(w, kind, x)
      PROVE  writer' \in [Writers -> Update \cup {None}] /\ WritersSound'
  <2> DEFINE u == [ kind |-> kind, reference |-> x, seen |-> reference[x],
                    balance |-> Balance(Customer) ]
  <2>1. reference[x] \in Row /\ Balance(Customer) \in Nat
    BY <1>1, BalanceIsNat DEF TypeOK, References
  <2>2. /\ writer' = [writer EXCEPT ![w] = u]
        /\ kind \in OrderUpdates => x \in Orders
        /\ kind \in RideUpdates => x \in Rides
    BY <1>2 DEF ReadRow, MayUpdate
  <2>3. u \in Update /\ u.kind = kind /\ u.reference = x
    BY <2>1 DEF Update
  <2> HIDE DEF u
  <2>4. QED
    BY <1>1, <2>2, <2>3 DEF TypeOK, WritersSound
<1>3. ASSUME NEW w \in Writers, writer' = [writer EXCEPT ![w] = None]
      PROVE  writer' \in [Writers -> Update \cup {None}] /\ WritersSound'
  BY <1>1, <1>3 DEF TypeOK, WritersSound
<1>4. CASE UNCHANGED writer
  BY <1>1, <1>4 DEF TypeOK, WritersSound
<1>5. QED
  BY <1>2, <1>3, <1>4
     DEF Next, Handle, Provider, vars, Lookup, AcquireLock, Relookup, Recheck, Derive,
         createOrder, createRefund, ProviderRefuses, Read, Write, Commit, Remember, Unlock,
         Crash, TransactionFails, StartRefund, StartOrder, Deliver, Start, LockExpires,
         AnswerExpires, AttemptPayment, DashboardRefund, RideAccepted, CommitRow, WriterFails

LEMMA PostgresIsTyped ==
  ASSUME Sound, [Next]_vars
  PROVE  /\ reference' \in [References -> Row]
         /\ ledger' \in Seq(LedgerEntry)
         /\ cachedBalance' \in [Users -> Nat]
<1> DEFINE Goal == /\ reference' \in [References -> Row]
                   /\ ledger' \in Seq(LedgerEntry)
                   /\ cachedBalance' \in [Users -> Nat]
<1>1. TypeOK
  BY DEF Sound
<1>2. ASSUME NEW r \in Requests, Commit(r) PROVE Goal
  <2>1. /\ reference' \in [References -> Row] /\ cachedBalance' \in [Users -> Nat]
        /\ UNCHANGED ledger \/ \E e \in LedgerEntry : ledger' = Append(ledger, e)
    BY <1>2, CommitIsTyped
  <2>2. ledger' \in Seq(LedgerEntry)
    <3>1. ledger \in Seq(LedgerEntry)
      BY <1>1 DEF TypeOK
    <3>2. CASE UNCHANGED ledger
      BY <3>1, <3>2
    <3>3. ASSUME NEW e \in LedgerEntry, ledger' = Append(ledger, e)
          PROVE  ledger' \in Seq(LedgerEntry)
      BY <3>1, <3>3, AppendProperties
    <3>4. QED
      BY <2>1, <3>2, <3>3
  <2>3. QED
    BY <2>1, <2>2
<1>3. ASSUME NEW x \in Rides, RideAccepted(x) PROVE Goal
  <2>1. x \in References /\ reference[x] \in Row
    BY <1>1 DEF TypeOK, References
  <2>2. [reference[x] EXCEPT !.partner = Partner] \in Row
    BY <2>1 DEF Row
  <2>3. reference' = [reference EXCEPT ![x] = [reference[x] EXCEPT !.partner = Partner]]
        /\ UNCHANGED <<ledger, cachedBalance>>
    BY <1>3 DEF RideAccepted
  <2>4. QED
    BY <1>1, <2>1, <2>2, <2>3 DEF TypeOK
<1>4. ASSUME NEW w \in Writers, CommitRow(w) PROVE Goal
  <2>1. PICK u : u = writer[w]
    OBVIOUS
  <2>2. /\ u.reference \in References /\ reference'[u.reference] \in Row
        /\ reference' = [reference EXCEPT ![u.reference] = UpdatedRow(u, @)]
        /\ cachedBalance' \in [Users -> Nat]
    BY <1>4, <2>1, UpdateDoes DEF CommitRow
  <2>3. ledger' \in Seq(LedgerEntry)
    <3>1. ledger \in Seq(LedgerEntry)
      BY <1>1 DEF TypeOK
    <3>2. UNCHANGED ledger \/ (CancelEntry(u) \in LedgerEntry /\ ledger' = Append(ledger, CancelEntry(u)))
      BY <1>4, <2>1, UpdateDoes
    <3>3. QED
      BY <3>1, <3>2, AppendProperties
  <2>4. QED
    BY <1>1, <2>2, <2>3 DEF TypeOK
<1>5. CASE UNCHANGED postgres
  BY <1>1, <1>5 DEF TypeOK, postgres
<1>6. QED
  BY <1>2, <1>3, <1>4, <1>5
     DEF Next, Handle, Provider, vars, Lookup, AcquireLock, Relookup, Recheck, Derive,
         createOrder, createRefund, ProviderRefuses, Read, Write, Remember, Unlock, Crash,
         TransactionFails, StartRefund, StartOrder, Deliver, Start, LockExpires, AnswerExpires,
         AttemptPayment, DashboardRefund, ReadRow, WriterFails

LEMMA RedisIsTyped ==
  ASSUME Sound, [Next]_vars
  PROVE  remembered' \subseteq RedisKeys /\ locks' \subseteq RedisKeys
<1>1. TypeOK
  BY DEF Sound
<1>2. ASSUME NEW r \in Requests, AcquireLock(r) \/ Remember(r)
      PROVE  remembered' \subseteq RedisKeys /\ locks' \subseteq RedisKeys
  <2>1. request[r] # None
    BY <1>2 DEF AcquireLock, Remember, At
  <2>2. CASE request[r].kind = "refund"
    <3>1. Remember(r)
      BY <1>2, <2>2, WhereItIs DEF AcquireLock
    <3>2. QED
      BY <1>1, <2>2, <3>1 DEF Remember, TypeOK
  <2>3. CASE request[r].kind # "refund"
    <3>1. RedisKey(r) \in RedisKeys
      BY <2>1, <2>3, RedisKeyIsKey
    <3>2. QED
      BY <1>1, <1>2, <3>1 DEF AcquireLock, Remember, TypeOK
  <2>4. QED
    BY <2>2, <2>3
<1>3. CASE remembered' \subseteq remembered /\ locks' \subseteq locks
  BY <1>1, <1>3 DEF TypeOK
<1>4. QED
  BY <1>2, <1>3
     DEF Next, Handle, Provider, vars, redis, Lookup, Relookup, Recheck, Derive, createOrder,
         createRefund, ProviderRefuses, Read, Write, Commit, Unlock, Crash, TransactionFails,
         StartRefund, StartOrder, Deliver, Start, LockExpires, AnswerExpires, AttemptPayment,
         DashboardRefund, RideAccepted,
         ReadRow, CommitRow, WriterFails

LEMMA ProviderIsTyped ==
  ASSUME Sound, [Next]_vars
  PROVE  /\ providerOrder' \in [ProviderOrders -> ProviderOrder \cup {None}]
         /\ payment' \in [PaymentIds -> Attempt \cup {None}]
         /\ refund' \in [RefundIds -> ProviderRefund \cup {None}]
         /\ ProviderSound'
<1> DEFINE Goal == /\ providerOrder' \in [ProviderOrders -> ProviderOrder \cup {None}]
                   /\ payment' \in [PaymentIds -> Attempt \cup {None}]
                   /\ refund' \in [RefundIds -> ProviderRefund \cup {None}]
                   /\ ProviderSound'
<1>1. TypeOK /\ ProviderSound /\ ProviderGrows
  BY NextKeepsProvider DEF Sound
<1>2. ASSUME NEW r \in Requests, NEW o \in ProviderOrders, createOrder(r, o) PROVE Goal
  <2> DEFINE new == [ reference |-> request[r].reference, amount |-> request[r].seen.payable,
                      key |-> request[r].subject ]
  <2>1. /\ At(r, "provider") /\ request[r].kind = "order"
        /\ providerOrder' = [providerOrder EXCEPT ![o] = new] /\ UNCHANGED <<payment, refund>>
    BY <1>2 DEF createOrder
  <2>2. /\ request[r].reference \in References /\ request[r].subject \in IdempotencyKeys
        /\ request[r].seen \in Row
    BY <2>1, WhereItIs DEF AboutAnEvent, WhereItCanBe
  <2>3. new \in ProviderOrder
    BY <2>2, AmountsAssumption DEF Row, ProviderOrder
  <2>4. providerOrder' \in [ProviderOrders -> ProviderOrder \cup {None}]
    BY <1>1, <2>1, <2>3 DEF TypeOK
  <2>5. \A w \in ProviderOrders : providerOrder[w] # None => providerOrder'[w] # None
    BY <1>1 DEF ProviderGrows
  <2>6. ProviderSound'
    BY <1>1, <2>1, <2>5 DEF ProviderSound, TypeOK, Attempt
  <2>7. QED
    BY <1>1, <2>1, <2>4, <2>6 DEF TypeOK
<1>3. ASSUME NEW p \in PaymentIds, NEW o \in ProviderOrders, NEW outcome \in {"captured", "failed"},
             AttemptPayment(p, o, outcome)
      PROVE  Goal
  <2> DEFINE new == [order |-> o, outcome |-> outcome]
  <2>1. /\ payment[p] = None /\ providerOrder[o] # None
        /\ payment' = [payment EXCEPT ![p] = new] /\ UNCHANGED <<providerOrder, refund>>
    BY <1>3 DEF AttemptPayment
  <2>2. new \in Attempt
    BY DEF Attempt
  <2>3. payment' \in [PaymentIds -> Attempt \cup {None}]
    BY <1>1, <2>1, <2>2 DEF TypeOK
  <2>4. \A q \in PaymentIds : payment[q] # None => payment'[q] = payment[q]
    BY <1>1 DEF ProviderGrows
  <2>5. \A q \in PaymentIds : payment'[q] # None => providerOrder[payment'[q].order] # None
    BY <1>1, <2>1 DEF ProviderSound, TypeOK
  <2>6. \A f \in RefundIds : refund[f] # None => refund[f].payment \in PaymentIds
    BY <1>1 DEF TypeOK, ProviderRefund
  <2>7. ProviderSound'
    BY <1>1, <2>1, <2>4, <2>5, <2>6 DEF ProviderSound
  <2>8. QED
    BY <1>1, <2>1, <2>3, <2>7 DEF TypeOK
<1>4. ASSUME NEW f \in RefundIds, NEW p \in PaymentIds, NEW amount \in Nat,
             payment[p] # None, payment[p].outcome = "captured",
             refund' = [refund EXCEPT ![f] = [payment |-> p, amount |-> amount]],
             UNCHANGED <<providerOrder, payment>>
      PROVE  Goal
  <2>1. [payment |-> p, amount |-> amount] \in ProviderRefund
    BY DEF ProviderRefund
  <2>2. refund' \in [RefundIds -> ProviderRefund \cup {None}]
    BY <1>1, <1>4, <2>1 DEF TypeOK
  <2>3. \A g \in RefundIds : refund'[g] # None =>
          payment[refund'[g].payment] # None /\ payment[refund'[g].payment].outcome = "captured"
    BY <1>1, <1>4 DEF ProviderSound, TypeOK
  <2>4. ProviderSound'
    BY <1>1, <1>4, <2>3 DEF ProviderSound
  <2>5. QED
    BY <1>1, <1>4, <2>2, <2>4 DEF TypeOK
<1>5. ASSUME NEW r \in Requests, NEW f \in RefundIds, createRefund(r, f) PROVE Goal
  <2> DEFINE x == request[r].seen
  <2>1. /\ At(r, "provider") /\ request[r].kind = "refund" /\ payment[x.payment].outcome = "captured"
        /\ refund' = [refund EXCEPT ![f] = [payment |-> x.payment, amount |-> x.payable]]
        /\ UNCHANGED <<providerOrder, payment>>
    BY <1>5 DEF createRefund
  <2>2. x \in Row /\ x.payment # None /\ payment[x.payment] # None
    BY <2>1, WhereItIs DEF WhereItCanBe, Pays
  <2>3. x.payment \in PaymentIds /\ x.payable \in Nat
    BY <2>2, AmountsAssumption DEF Row
  <2>4. QED
    BY <1>4, <2>1, <2>2, <2>3
<1>6. ASSUME NEW f \in RefundIds, NEW p \in PaymentIds, DashboardRefund(f, p) PROVE Goal
  BY <1>4, <1>6, AmountsAssumption DEF DashboardRefund
<1>7. CASE UNCHANGED provider
  BY <1>1, <1>7 DEF TypeOK, ProviderSound, provider
<1>8. QED
  BY <1>2, <1>3, <1>5, <1>6, <1>7
     DEF Next, Handle, Provider, vars, provider, Lookup, AcquireLock, Relookup, Recheck, Derive,
         ProviderRefuses, Read, Write, Commit, Remember, Unlock, Crash, TransactionFails,
         StartRefund, StartOrder, Deliver, Start, LockExpires, AnswerExpires, RideAccepted,
         ReadRow, CommitRow, WriterFails

LEMMA HistoryIsTyped ==
  ASSUME Sound, [Next]_vars
  PROVE  /\ acked' \subseteq Webhooks \X Subjects
         /\ spent' \in [FaultKinds -> Nat]
         /\ \A k \in FaultKinds : spent[k] <= spent'[k]
<1>1. TypeOK
  BY DEF Sound
<1>2. acked' \subseteq Webhooks \X Subjects
  <2>1. ASSUME NEW r \in Requests, NEW ok, request[r] # None, Answer(r, ok)
        PROVE  acked' \subseteq Webhooks \X Subjects
    BY <1>1, <2>1, AnswerIsTyped
  <2>2. CASE UNCHANGED acked
    BY <1>1, <2>2 DEF TypeOK
  <2>3. QED
    BY <2>1, <2>2
       DEF Next, Handle, Provider, vars, At, Lookup, AcquireLock, Relookup, Recheck, Derive,
           createOrder, createRefund, ProviderRefuses, Read, Write, Commit, Remember, Unlock,
           Crash, TransactionFails, StartRefund, StartOrder, Deliver, Start, LockExpires,
           AnswerExpires, AttemptPayment, DashboardRefund, RideAccepted,
         ReadRow, CommitRow, WriterFails
<1>3. ASSUME NEW k \in FaultKinds, Spend(k)
      PROVE  spent' \in [FaultKinds -> Nat] /\ \A j \in FaultKinds : spent[j] <= spent'[j]
  BY <1>1, <1>3, SpendIsTyped
<1>4. CASE UNCHANGED spent
  <2>1. spent \in [FaultKinds -> Nat]
    BY <1>1 DEF TypeOK
  <2>2. \A j \in FaultKinds : spent[j] \in Nat
    BY <2>1
  <2>3. \A j \in FaultKinds : spent[j] <= spent'[j]
    BY <1>4, <2>2
  <2>4. QED
    BY <1>2, <1>4, <2>1, <2>3
<1>5. QED
  BY <1>2, <1>3, <1>4
     DEF FaultKinds, Next, Handle, Provider, vars, Lookup, AcquireLock, Relookup, Recheck, Derive,
         createOrder, createRefund, ProviderRefuses, Read, Write, Commit, Remember, Unlock,
         Crash, TransactionFails, StartRefund, StartOrder, Deliver, Start, LockExpires,
         AnswerExpires, AttemptPayment, DashboardRefund, RideAccepted,
         ReadRow, CommitRow, WriterFails

LEMMA RowsStaySound == ASSUME Sound, [Next]_vars PROVE RowsSound'
<1>1. TypeOK /\ RowsSound /\ ProviderGrows
  BY NextKeepsProvider DEF Sound
<1>2. \A p \in PaymentIds, x \in References : Pays(p, x) => Pays(p, x)'
  BY <1>1, WhatPaysStays DEF Sound
<1>3. \A x \in References : reference[x].payment \in PaymentIds \cup {None}
  BY <1>1 DEF TypeOK, Row
<1>4. ASSUME \A x \in References : reference'[x].payment = reference[x].payment
                                   /\ (x \in Orders => reference'[x].partner = reference[x].partner)
      PROVE  RowsSound'
  <2>1. ASSUME NEW x \in References
        PROVE  /\ reference'[x].payment # None => Pays(reference[x].payment, x)'
               /\ x \in Orders => reference'[x].partner = Partner
    <3>1. PICK p \in PaymentIds \cup {None} : p = reference[x].payment
      BY <1>3
    <3>2. p # None => Pays(p, x)'
      BY <1>1, <1>2, <3>1 DEF RowsSound
    <3>3. QED
      BY <1>1, <1>4, <3>1, <3>2 DEF RowsSound, Pays, OrderOf
  <2>2. QED
    BY <2>1 DEF RowsSound
<1>5. ASSUME NEW r \in Requests, Commit(r) PROVE RowsSound'
  <2> DEFINE q == request[r]
  <2>1. PICK p : p = PaymentOf(IF q.kind = "refund" THEN "refunded" ELSE q.kind, q.subject)
    OBVIOUS
  <2>2. p \in PaymentIds /\ Pays(p, q.reference)
    BY <1>5, <2>1, CommitIsTyped
  <2>3. reference' = [reference EXCEPT ![q.reference].status = StatusOf(q.kind),
                        ![q.reference].payment = IF q.reference \in Rides THEN @ ELSE p]
    BY <1>5, <2>1 DEF Commit, updatePaymentStatus
  <2>4. q.reference \in References
    BY <1>5, WhereItIs DEF Commit
  <2>5. PICK y \in References : y = q.reference
    BY <2>4
  <2>6. Pays(p, y)'
    BY <1>2, <2>2, <2>5
  <2>7. ASSUME NEW x \in References
        PROVE  /\ reference'[x].payment # None => Pays(reference[x].payment, x)'
               /\ x \in Orders => reference'[x].partner = Partner
    <3>1. PICK old \in PaymentIds \cup {None} : old = reference[x].payment
      BY <1>3
    <3>2. old # None => Pays(old, x)'
      BY <1>1, <1>2, <3>1 DEF RowsSound
    <3>3. reference[x] \in Row
      BY <1>1 DEF TypeOK
    <3>4. /\ reference'[x].payment \in {old, p} /\ reference'[x].partner = reference[x].partner
          /\ reference'[x].payment = p => reference'[x].payment = old \/ x = y
      BY <1>1, <2>3, <2>5, <3>1, <3>3 DEF TypeOK, Row
    <3>5. x \in Orders => reference[x].partner = Partner
      BY <1>1 DEF RowsSound
    <3>6. CASE reference'[x].payment = old
      BY <3>2, <3>4, <3>5, <3>6 DEF Pays, OrderOf
    <3>7. CASE reference'[x].payment # old
      BY <2>6, <3>4, <3>5, <3>7 DEF Pays, OrderOf
    <3>8. QED
      BY <3>6, <3>7
  <2>8. QED
    BY <2>7 DEF RowsSound
<1>6. ASSUME NEW x \in Rides, RideAccepted(x) PROVE RowsSound'
  <2>1. /\ x \notin Orders /\ x \in References
        /\ reference \in [References -> Row] /\ reference[x] \in Row
    BY <1>1, ReferencesAssumption DEF References, TypeOK
  <2>2. reference' = [reference EXCEPT ![x] = [reference[x] EXCEPT !.partner = Partner]]
    BY <1>6 DEF RideAccepted
  <2>3. \A y \in References : y # x => reference'[y] = reference[y]
    BY <2>1, <2>2
  <2>4. reference'[x].payment = reference[x].payment
    <3>1. reference'[x] = [reference[x] EXCEPT !.partner = Partner]
      BY <2>1, <2>2
    <3>2. QED
      BY <2>1, <3>1 DEF Row
  <2>5. QED
    BY <1>4, <2>1, <2>3, <2>4
<1>7. ASSUME NEW w \in Writers, CommitRow(w) PROVE RowsSound'
  <2>1. PICK u : u = writer[w]
    OBVIOUS
  <2>2. /\ u.reference \in References
        /\ \A y \in References : y # u.reference => reference'[y] = reference[y]
        /\ reference'[u.reference].payment = reference[u.reference].payment
        /\ reference'[u.reference].partner = reference[u.reference].partner
    BY <1>7, <2>1, UpdateDoes
  <2>3. QED
    BY <1>4, <2>2
<1>8. CASE UNCHANGED reference
  BY <1>4, <1>8
<1>9. QED
  BY <1>5, <1>6, <1>7, <1>8
     DEF Next, Handle, Provider, vars, postgres, Lookup, AcquireLock, Relookup, Recheck, Derive,
         createOrder, createRefund, ProviderRefuses, Read, Write, Remember, Unlock, Crash,
         TransactionFails, StartRefund, StartOrder, Deliver, Start, LockExpires, AnswerExpires,
         AttemptPayment, DashboardRefund, ReadRow, WriterFails

LEMMA SoundInductive == Sound /\ [Next]_vars => Sound'
<1> SUFFICES ASSUME Sound, [Next]_vars PROVE Sound'
  OBVIOUS
<1>1. RequestsTyped' /\ RequestsSound'
  BY RequestsStaySound
<1>2. TypeOK'
  BY <1>1, PostgresIsTyped, RedisIsTyped, ProviderIsTyped, HistoryIsTyped, WritersStaySound
     DEF TypeOK, RequestsTyped
<1>3. QED
  BY <1>1, <1>2, ProviderIsTyped, RowsStaySound, WritersStaySound DEF Sound

LEMMA SoundInitially == Init => Sound
<1> SUFFICES ASSUME Init PROVE Sound
  OBVIOUS
<1>1. TypeOK
  <2>1. reference \in [References -> Row]
    BY DEF Init, Row, PaymentStatus
  <2>2. ledger \in Seq(LedgerEntry)
    BY DEF Init
  <2>3. QED
    BY <2>1, <2>2 DEF Init, TypeOK
<1>2. ProviderSound /\ RowsSound /\ RequestsSound /\ WritersSound
  BY DEF Init, ProviderSound, RowsSound, RequestsSound, WritersSound, References
<1>3. QED
  BY <1>1, <1>2 DEF Sound

\* Every reachable state of references, ledger, Redis, requests and provider is
\* well typed.
THEOREM TypeCorrect == Spec => []TypeOK
<1>1. Sound => TypeOK
  BY DEF Sound
<1>2. QED
  BY SoundInitially, SoundInductive, <1>1, PTL DEF Spec
-----------------------------------------------------------------------------
\* An entry with an id is the effect of a capture or a refund of the provider ...
EntriesSound ==
  \A n \in DOMAIN ledger : ledger[n].id # None =>
    LET e == ledger[n] IN
      IF e.type = "CREDIT"
      THEN /\ e.id \in PaymentIds /\ Pays(e.id, e.reference)
           /\ payment[e.id].outcome = "captured" /\ e.amount = OrderOf(e.id).amount
      ELSE e.id \in RefundIds /\ RefundPays(e.id, e.reference) /\ e.amount = refund[e.id].amount

OneEntry ==
  \A m, n \in DOMAIN ledger : ledger[m].id # None /\ ledger[m].id = ledger[n].id => m = n

\* ... and comes from the one transaction that has the row of its reference,
\* which nobody can have overtaken.
OneCommit ==
  \A q, r \in Requests :
    At(q, "commit") /\ At(r, "commit") /\ request[q].reference = request[r].reference => q = r

CommitsAreNew ==
  \A r \in Requests : At(r, "commit") /\ Beneficiary(r) # NoUser => ~Recorded(LedgerId(r))

LedgerInv == EntriesSound /\ OneEntry /\ OneCommit /\ CommitsAreNew

EntryOf(r) ==
  [ id |-> LedgerId(r), user |-> Beneficiary(r), amount |-> AmountOf(r),
    type |-> IF request[r].kind = "captured" THEN "CREDIT" ELSE "REFUND",
    reference |-> request[r].reference ]

\* The ledger is only appended to, by a commit that credits somebody or by a
\* cancellation that gives back.
Appends(e) ==
  /\ DOMAIN ledger' = DOMAIN ledger \cup {Len(ledger) + 1}
  /\ Len(ledger) + 1 \notin DOMAIN ledger
  /\ \A n \in DOMAIN ledger : ledger'[n] = ledger[n]
  /\ ledger'[Len(ledger) + 1] = e

LEMMA AppendAppends ==
  ASSUME TypeOK, NEW e \in LedgerEntry, ledger' = Append(ledger, e) PROVE Appends(e)
<1>1. ledger \in Seq(LedgerEntry)
  BY DEF TypeOK
<1>2. /\ Len(ledger) \in Nat /\ DOMAIN ledger = 1 .. Len(ledger)
      /\ DOMAIN ledger' = 1 .. Len(ledger) + 1
      /\ \A n \in DOMAIN ledger : ledger'[n] = ledger[n]
      /\ ledger'[Len(ledger) + 1] = e
  BY <1>1, AppendProperties
<1>3. QED
  BY <1>2 DEF Appends

LEMMA LedgerGrows ==
  ASSUME Sound, NEW r \in Requests, Commit(r), Beneficiary(r) # NoUser
  PROVE  /\ Appends(EntryOf(r)) /\ EntryOf(r) \in LedgerEntry
         /\ EntryOf(r).id = LedgerId(r) /\ LedgerId(r) # None
         /\ EntryOf(r).reference = request[r].reference
         /\ request[r].kind \in {"captured", "refund", "refunded"}
<1>1. TypeOK /\ request[r] # None /\ request[r].phase = "commit"
      /\ request[r].reference \in References
  BY WhereItIs DEF Commit
<1>2. /\ Beneficiary(r) \in Users /\ AmountOf(r) \in Nat
      /\ request[r].subject \in PaymentIds \cup RefundIds
      /\ request[r].kind \in {"captured", "refund", "refunded"}
  BY <1>1, BeneficiaryIsUser, AmountIsNat
<1>3. EntryOf(r) \in LedgerEntry /\ LedgerId(r) # None
  BY <1>1, <1>2, NoneAssumption DEF EntryOf, LedgerEntry, LedgerId
<1>4. ledger' = Append(ledger, EntryOf(r))
  BY <1>1 DEF Commit, WriteLedger, EntryOf
<1>5. EntryOf(r).id = LedgerId(r) /\ EntryOf(r).reference = request[r].reference
  BY DEF EntryOf
<1>6. QED
  BY <1>1, <1>2, <1>3, <1>4, <1>5, AppendAppends

LEMMA UpdateGrows ==
  ASSUME Sound, NEW w \in Writers, CommitRow(w), GivesBack(writer[w])
  PROVE  /\ Appends(CancelEntry(writer[w])) /\ CancelEntry(writer[w]) \in LedgerEntry
         /\ CancelEntry(writer[w]).id = None /\ CancelEntry(writer[w]).type = "REFUND"
         /\ CancelEntry(writer[w]).reference = writer[w].reference
<1>1. PICK u : u = writer[w]
  OBVIOUS
<1>2. CancelEntry(u) \in LedgerEntry /\ ledger' = Append(ledger, CancelEntry(u))
  BY <1>1, UpdateDoes
<1>3. /\ CancelEntry(u).id = None /\ CancelEntry(u).type = "REFUND"
      /\ CancelEntry(u).reference = u.reference
  BY DEF CancelEntry
<1>4. QED
  BY <1>1, <1>2, <1>3, AppendAppends DEF Sound

LEMMA LedgerChanges ==
  ASSUME Sound, [Next]_vars
  PROVE  \/ UNCHANGED ledger
         \/ \E r \in Requests : Commit(r) /\ Beneficiary(r) # NoUser /\ Appends(EntryOf(r))
         \/ \E w \in Writers : /\ CommitRow(w) /\ GivesBack(writer[w])
                               /\ Appends(CancelEntry(writer[w]))
<1>1. ASSUME NEW r \in Requests, Commit(r)
      PROVE  UNCHANGED ledger \/ (Beneficiary(r) # NoUser /\ Appends(EntryOf(r)))
  BY <1>1, LedgerGrows DEF Commit, WriteLedger
<1>2. ASSUME NEW w \in Writers, CommitRow(w)
      PROVE  UNCHANGED ledger \/ (GivesBack(writer[w]) /\ Appends(CancelEntry(writer[w])))
  BY <1>2, UpdateGrows DEF CommitRow
<1>3. QED
  BY <1>1, <1>2
     DEF Next, Handle, Provider, vars, postgres, Lookup, AcquireLock, Relookup, Recheck, Derive,
         createOrder, createRefund, ProviderRefuses, Read, Write, Remember, Unlock, Crash,
         TransactionFails, StartRefund, StartOrder, Deliver, Start, LockExpires, AnswerExpires,
         AttemptPayment, DashboardRefund, RideAccepted, ReadRow, WriterFails

\* What is recorded stays recorded.
LEMMA RecordedStays ==
  ASSUME Sound, [Next]_vars
  PROVE  /\ \A n \in DOMAIN ledger : n \in DOMAIN ledger' /\ ledger'[n] = ledger[n]
         /\ \A id : Recorded(id) => Recorded(id)'
<1>1. \A n \in DOMAIN ledger : n \in DOMAIN ledger' /\ ledger'[n] = ledger[n]
  BY LedgerChanges DEF Appends
<1>2. QED
  BY <1>1 DEF Recorded

\* A transaction at its commit was there before or has just written.
LEMMA CommitsComeFrom ==
  ASSUME Sound, [Next]_vars, NEW r \in Requests, At(r, "commit")'
  PROVE  \/ At(r, "commit") /\ request'[r] = request[r]
         \/ Write(r) /\ GoesOn(r, "commit")
<1>1. CASE request'[r] = request[r]
  BY <1>1 DEF At
<1> SUFFICES ASSUME request'[r] # request[r] PROVE Write(r) /\ GoesOn(r, "commit")
  BY <1>1
<1>2. TypeOK /\ request'[r] # None /\ request'[r].phase = "commit"
  BY DEF At, Sound
<1>3. ASSUME NEW s \in Requests, NEW phase \in Phases \ {"commit"}, request[s] # None,
             Goto(s, phase) \/ FailTo(s, phase)
      PROVE  FALSE
  BY <1>2, <1>3, GotoGoesOn DEF GoesOn, OthersStay
<1>4. ASSUME NEW s \in Requests, request' = [request EXCEPT ![s] = None] PROVE FALSE
  BY <1>2, <1>4, SlotFreed DEF OthersStay
<1>5. ASSUME NEW s \in Requests, NEW kind, NEW subject, NEW x, NEW phase \in {"lookup", "derive"},
             Start(s, kind, subject, x, phase)
      PROVE  FALSE
  BY <1>2, <1>5 DEF Start, TypeOK
<1>6. ASSUME NEW s \in Requests, NEW q \in Request, request' = [request EXCEPT ![s] = q],
             q.phase # "commit"
      PROVE  FALSE
  BY <1>2, <1>6 DEF TypeOK
<1>7. ASSUME NEW s \in Requests, Derive(s) \/ Read(s) PROVE FALSE
  <2> DEFINE x == reference[request[s].reference]
  <2>1. request[s] # None /\ request[s] \in Request /\ x \in Row
        /\ {"remember", "unlock", "provider", "write"} \subseteq Phases \ {"commit"}
    BY <1>2, <1>7, WhereItIs DEF Derive, Read, TypeOK, Phases
  <2>2. ASSUME NEW phase \in {"provider", "write"},
               request' = [request EXCEPT ![s].seen = x, ![s].phase = phase]
        PROVE  FALSE
    <3> DEFINE q == [request[s] EXCEPT !.seen = x, !.phase = phase]
    <3>1. q \in Request /\ q.phase # "commit"
      BY <2>1 DEF Request
    <3>2. QED
      BY <1>6, <2>2, <3>1
  <2>3. QED
    BY <1>3, <1>4, <1>7, <2>1, <2>2 DEF Derive, Read, Answer
<1>8. ASSUME NEW s \in Requests, NEW f \in RefundIds, createRefund(s, f) PROVE FALSE
  <2> DEFINE q == [request[s] EXCEPT !.subject = f, !.phase = "read"]
  <2>1. request[s] \in Request
    BY <1>8, WhereItIs DEF createRefund
  <2>2. q \in Request /\ q.phase # "commit"
    BY <2>1 DEF Request, Subjects, Phases
  <2>3. request' = [request EXCEPT ![s] = q]
    BY <1>8 DEF createRefund
  <2>4. QED
    BY <1>6, <2>2, <2>3
<1>9. ASSUME NEW s \in Requests, Write(s) PROVE Write(r) /\ GoesOn(r, "commit")
  <2>1. OthersStay(s) /\ (GoesOn(s, "commit") \/ GoesOn(s, "unlock"))
    BY <1>9, WriteIsTyped
  <2>2. s = r
    BY <2>1 DEF OthersStay
  <2>3. QED
    BY <1>2, <1>9, <2>1, <2>2 DEF GoesOn
<1>10. {"lock", "relookup", "recheck", "derive", "read", "remember", "unlock"}
         \subseteq Phases \ {"commit"}
  BY DEF Phases
<1>11. ASSUME NEW s \in Requests, Handle(s) PROVE Write(r) /\ GoesOn(r, "commit")
  BY <1>3, <1>4, <1>7, <1>8, <1>9, <1>10, <1>11
     DEF Handle, At, Answer, Lookup, AcquireLock, Relookup, Recheck, createOrder, ProviderRefuses,
         Commit, Remember, Unlock
<1>12. ASSUME NEW s \in Requests, Crash(s) \/ TransactionFails(s) PROVE FALSE
  BY <1>3, <1>4, <1>10, <1>12 DEF At, Crash, TransactionFails
<1>13. QED
  BY <1>5, <1>11, <1>12
     DEF Next, Provider, vars, StartRefund, StartOrder, Deliver, LockExpires, AnswerExpires,
         AttemptPayment, DashboardRefund, RideAccepted,
         ReadRow, CommitRow, WriterFails

\* An id belongs to one reference, so two transactions with the same id would
\* need the same row.
LEMMA SameIdSameRow ==
  ASSUME Sound, NEW r \in Requests, NEW s \in Requests,
         At(r, "commit"), At(s, "commit"),
         Beneficiary(r) # NoUser, Beneficiary(s) # NoUser, LedgerId(r) = LedgerId(s)
  PROVE  request[r].reference = request[s].reference
<1> DEFINE id == request[r].subject
<1>1. ASSUME NEW q \in Requests, At(q, "commit"), Beneficiary(q) # NoUser
      PROVE  \/ /\ request[q].subject \in PaymentIds
                /\ OrderOf(request[q].subject).reference = request[q].reference
             \/ /\ request[q].subject \in RefundIds
                /\ OrderOf(refund[request[q].subject].payment).reference = request[q].reference
  <2>1. /\ request[q] # None /\ request[q].phase = "commit" /\ AboutAnEvent(request[q])
        /\ request[q].kind \in {"captured", "refund", "refunded"}
    BY <1>1, WhereItIs, AmountIsNat, BeneficiaryIsUser
  <2>2. QED
    BY <2>1 DEF AboutAnEvent, RefundPays, Pays
<1>2. QED
  BY <1>1, IdsAssumption DEF LedgerId

\* What EntriesSound says of an entry.
Effect(e) ==
  IF e.type = "CREDIT"
  THEN /\ e.id \in PaymentIds /\ Pays(e.id, e.reference)
       /\ payment[e.id].outcome = "captured" /\ e.amount = OrderOf(e.id).amount
  ELSE e.id \in RefundIds /\ RefundPays(e.id, e.reference) /\ e.amount = refund[e.id].amount

LEMMA EntriesStaySound == ASSUME Sound, EntriesSound, [Next]_vars PROVE EntriesSound'
<1>1. TypeOK /\ ProviderSound /\ ProviderGrows
  BY NextKeepsProvider DEF Sound
<1>2. ASSUME NEW e \in LedgerEntry, Effect(e) PROVE Effect(e)'
  <2>1. e.reference \in References
    BY DEF LedgerEntry
  <2>2. CASE e.type = "CREDIT"
    <3>1. e.id \in PaymentIds /\ payment[e.id] # None
      BY <1>2, <2>2 DEF Effect, Pays
    <3>2. payment'[e.id] = payment[e.id] /\ OrderOf(e.id)' = OrderOf(e.id) /\ Pays(e.id, e.reference)'
      BY <1>1, <1>2, <2>1, <2>2, <3>1, WhatPaysStays DEF Effect
    <3>3. QED
      BY <1>2, <2>2, <3>2 DEF Effect
  <2>3. CASE e.type # "CREDIT"
    <3>1. e.id \in RefundIds /\ refund[e.id] # None
      BY <1>2, <2>3 DEF Effect, RefundPays
    <3>2. refund'[e.id] = refund[e.id] /\ RefundPays(e.id, e.reference)'
      BY <1>1, <1>2, <2>1, <2>3, <3>1, WhatPaysStays DEF Effect
    <3>3. QED
      BY <1>2, <2>3, <3>2 DEF Effect
  <2>4. QED
    BY <2>2, <2>3
<1>3. \A n \in DOMAIN ledger : ledger[n] \in LedgerEntry /\ (ledger[n].id # None => Effect(ledger[n]))
  BY <1>1 DEF TypeOK, EntriesSound, Effect
<1>4. ASSUME \A n \in DOMAIN ledger' : \E e \in LedgerEntry :
               ledger'[n] = e /\ (e.id # None => Effect(e))
      PROVE  EntriesSound'
  BY <1>2, <1>4 DEF EntriesSound, Effect
<1>5. CASE UNCHANGED ledger
  BY <1>3, <1>4, <1>5
<1>6. ASSUME NEW e \in LedgerEntry, Appends(e), e.id # None => Effect(e) PROVE EntriesSound'
  BY <1>3, <1>4, <1>6 DEF Appends
<1>7. ASSUME NEW r \in Requests, Commit(r), Beneficiary(r) # NoUser PROVE EntriesSound'
  <2> DEFINE q == request[r]
  <2>1. /\ Appends(EntryOf(r)) /\ EntryOf(r) \in LedgerEntry
        /\ q.kind \in {"captured", "refund", "refunded"}
        /\ q # None /\ q.phase = "commit" /\ AboutAnEvent(request[r])
    BY <1>7, LedgerGrows, WhereItIs DEF Commit
  <2>2. Effect(EntryOf(r))
    BY <2>1 DEF Effect, EntryOf, LedgerId, AmountOf, AboutAnEvent
  <2>3. QED
    BY <1>6, <2>1, <2>2
<1>8. ASSUME NEW w \in Writers, CommitRow(w), GivesBack(writer[w]) PROVE EntriesSound'
  BY <1>6, <1>8, UpdateGrows
<1>9. QED
  BY <1>5, <1>7, <1>8, LedgerChanges

LEMMA OneEntryStays ==
  ASSUME Sound, LedgerInv, [Next]_vars PROVE OneEntry'
<1>1. CASE UNCHANGED ledger
  BY <1>1 DEF LedgerInv, OneEntry
<1>2. ASSUME NEW e, Appends(e), e.id = None \/ ~Recorded(e.id) PROVE OneEntry'
  BY <1>2 DEF Appends, LedgerInv, OneEntry, Recorded
<1>3. ASSUME NEW r \in Requests, Commit(r), Beneficiary(r) # NoUser PROVE OneEntry'
  <2>1. Appends(EntryOf(r)) /\ EntryOf(r).id = LedgerId(r)
    BY <1>3, LedgerGrows
  <2>2. ~Recorded(EntryOf(r).id)
    BY <1>3, <2>1 DEF LedgerInv, CommitsAreNew, Commit
  <2>3. QED
    BY <1>2, <2>1, <2>2
<1>4. ASSUME NEW w \in Writers, CommitRow(w), GivesBack(writer[w]) PROVE OneEntry'
  BY <1>2, <1>4, UpdateGrows
<1>5. QED
  BY <1>1, <1>3, <1>4, LedgerChanges

LEMMA OneCommitStays ==
  ASSUME Sound, LedgerInv, [Next]_vars PROVE OneCommit'
<1> SUFFICES ASSUME NEW q \in Requests, NEW r \in Requests, At(q, "commit")', At(r, "commit")',
                    request'[q].reference = request'[r].reference, q # r
             PROVE  FALSE
  BY DEF OneCommit
<1>1. ASSUME NEW s \in Requests, NEW t \in Requests, s # t, Write(s), At(t, "commit")',
             GoesOn(s, "commit"), request'[s].reference = request'[t].reference
      PROVE  FALSE
  <2>1. request'[t] = request[t]
    BY <1>1, WriteIsTyped DEF OthersStay
  <2>2. At(t, "commit") /\ request[t].reference = request[s].reference
    BY <1>1, <2>1 DEF At, GoesOn
  <2>3. QED
    BY <1>1, <2>2 DEF Write, RowLocked
<1>2. CASE At(q, "commit") /\ request'[q] = request[q] /\ At(r, "commit") /\ request'[r] = request[r]
  BY <1>2 DEF LedgerInv, OneCommit
<1>3. QED
  BY <1>1, <1>2, CommitsComeFrom

LEMMA CommitsStayNew ==
  ASSUME Sound, LedgerInv, [Next]_vars PROVE CommitsAreNew'
<1> SUFFICES ASSUME NEW r \in Requests, At(r, "commit")', Beneficiary(r)' # NoUser
             PROVE  ~Recorded(LedgerId(r))'
  BY DEF CommitsAreNew
<1>1. CASE Write(r) /\ GoesOn(r, "commit")
  <2>1. /\ request'[r].kind = request[r].kind /\ request'[r].subject = request[r].subject
        /\ request'[r].reference = request[r].reference /\ request'[r].seen = request[r].seen
        /\ request'[r].phase = "commit"
    BY <1>1 DEF GoesOn
  <2>2. Beneficiary(r) # NoUser
    BY <2>1 DEF Beneficiary
  <2>3. ~FailTo(r, "unlock")
    <3>1. TypeOK /\ request[r] # None /\ "unlock" \in Phases
      BY <1>1, WhereItIs DEF Write
    <3>2. QED
      BY <2>1, <3>1, GotoGoesOn DEF GoesOn
  <2>4. ~Recorded(LedgerId(r)) /\ UNCHANGED ledger
    BY <1>1, <2>2, <2>3 DEF Write, LedgerIdFree, postgres
  <2>5. LedgerId(r)' = LedgerId(r)
    BY <2>1 DEF LedgerId
  <2>6. QED
    BY <2>4, <2>5 DEF Recorded
<1>2. CASE At(r, "commit") /\ request'[r] = request[r]
  <2>1. Beneficiary(r) # NoUser /\ LedgerId(r)' = LedgerId(r)
    BY <1>2 DEF Beneficiary, LedgerId
  <2>2. ~Recorded(LedgerId(r))
    BY <1>2, <2>1 DEF LedgerInv, CommitsAreNew
  <2>3. CASE UNCHANGED ledger
    BY <2>1, <2>2, <2>3 DEF Recorded
  <2>4. ASSUME NEW s \in Requests, Commit(s), Beneficiary(s) # NoUser
        PROVE  ~Recorded(LedgerId(r))'
    <3>1. s # r
      <4>1. TypeOK /\ request[s] # None /\ "remember" \in Phases
        BY <2>4, WhereItIs DEF Commit
      <4>2. request'[s] = None \/ request'[s].phase = "remember"
        BY <2>4, <4>1, GotoGoesOn, SlotFreed DEF Commit, Answer, GoesOn
      <4>3. QED
        BY <4>2 DEF At
    <3>2. LedgerId(s) # LedgerId(r)
      BY <1>2, <2>1, <2>4, <3>1, SameIdSameRow DEF LedgerInv, OneCommit, Commit
    <3>3. Appends(EntryOf(s)) /\ EntryOf(s).id = LedgerId(s)
      BY <2>4, LedgerGrows
    <3>4. QED
      BY <2>1, <2>2, <3>2, <3>3 DEF Appends, Recorded
  <2>5. ASSUME NEW w \in Writers, CommitRow(w), GivesBack(writer[w])
        PROVE  ~Recorded(LedgerId(r))'
    <3>1. /\ request[r] # None /\ request[r].phase = "commit"
          /\ request[r].subject \in PaymentIds \cup RefundIds
      BY <1>2, <2>1, WhereItIs, BeneficiaryIsUser, AmountIsNat
    <3>2. LedgerId(r) # None
      BY <3>1, NoneAssumption DEF LedgerId
    <3>3. Appends(CancelEntry(writer[w])) /\ CancelEntry(writer[w]).id = None
      BY <2>5, UpdateGrows
    <3>4. QED
      BY <2>1, <2>2, <3>2, <3>3 DEF Appends, Recorded
  <2>6. QED
    BY <2>3, <2>4, <2>5, LedgerChanges
<1>3. QED
  BY <1>1, <1>2, CommitsComeFrom

LEMMA LedgerInductive == Sound /\ LedgerInv /\ [Next]_vars => LedgerInv'
<1> SUFFICES ASSUME Sound, LedgerInv, [Next]_vars PROVE LedgerInv'
  OBVIOUS
<1>1. EntriesSound
  BY DEF LedgerInv
<1>2. QED
  BY <1>1, EntriesStaySound, OneEntryStays, OneCommitStays, CommitsStayNew DEF LedgerInv

LEMMA LedgerInitially == Init => LedgerInv
BY DEF Init, LedgerInv, EntriesSound, OneEntry, OneCommit, CommitsAreNew, At, Recorded
-----------------------------------------------------------------------------
\* What a commit does to its reference and to the ledger.
LEMMA CommitDoes ==
  ASSUME Sound, [Next]_vars, NEW r \in Requests, Commit(r),
         NEW x, x = request[r].reference, NEW kind, kind = request[r].kind,
         NEW id, id = request[r].subject
  PROVE  /\ x \in References /\ kind \in Kinds
         /\ \A y \in References : y # x => reference'[y] = reference[y]
         /\ reference'[x].status = StatusOf(kind) /\ reference'[x].open = reference[x].open
         /\ x \in Orders \cup TopUps /\ kind # "failed" =>
              /\ Beneficiary(r) # NoUser /\ Recorded(id)'
              /\ Entries(x, IF kind = "captured" THEN "CREDIT" ELSE "REFUND")' # {}
         /\ x \in Orders \cup TopUps /\ kind = "captured" => reference'[x].payment = id
<1>1. /\ TypeOK /\ request[r] # None /\ request[r].phase = "commit" /\ x \in References
      /\ kind \in Kinds /\ WhereItCanBe(request[r])
  BY WhereItIs DEF Commit
<1>2. PICK p : p = PaymentOf(IF kind = "refund" THEN "refunded" ELSE kind, id)
  OBVIOUS
<1>3. reference' = [reference EXCEPT ![x].status = StatusOf(kind),
                      ![x].payment = IF x \in Rides THEN @ ELSE p]
  BY <1>2 DEF Commit, updatePaymentStatus
<1>4. /\ \A y \in References : y # x => reference'[y] = reference[y]
      /\ reference'[x].status = StatusOf(kind) /\ reference'[x].open = reference[x].open
      /\ x \notin Rides => reference'[x].payment = p
  <2>1. reference[x] \in Row /\ reference \in [References -> Row]
    BY <1>1 DEF TypeOK
  <2>2. PICK s : s = StatusOf(kind)
    OBVIOUS
  <2>3. reference' = [reference EXCEPT ![x] = [reference[x] EXCEPT !.status = s,
                        !.payment = IF x \in Rides THEN reference[x].payment ELSE p]]
    BY <1>1, <1>3, <2>1, <2>2 DEF Row
  <2>4. /\ \A y \in References : y # x => reference'[y] = reference[y]
        /\ reference'[x] = [reference[x] EXCEPT !.status = s,
                             !.payment = IF x \in Rides THEN reference[x].payment ELSE p]
    BY <1>1, <2>1, <2>3
  <2>5. QED
    BY <2>1, <2>2, <2>4 DEF Row
<1>5. ASSUME x \in Orders \cup TopUps, kind # "failed"
      PROVE  /\ Recorded(id)' /\ Beneficiary(r) # NoUser
             /\ Entries(x, IF kind = "captured" THEN "CREDIT" ELSE "REFUND")' # {}
  <2>1. Beneficiary(r) # NoUser
    BY <1>1, <1>5, UsersAssumption DEF Beneficiary, Users, WhereItCanBe
  <2>2. /\ Len(ledger) + 1 \in DOMAIN ledger'
        /\ ledger'[Len(ledger) + 1] = EntryOf(r) /\ EntryOf(r).id = LedgerId(r)
    BY <2>1, LedgerGrows DEF Appends
  <2>3. /\ EntryOf(r).reference = x
        /\ EntryOf(r).type = IF kind = "captured" THEN "CREDIT" ELSE "REFUND"
    BY DEF EntryOf
  <2>4. PICK n : n \in DOMAIN ledger' /\ ledger'[n] = EntryOf(r)
    BY <2>2
  <2>5. /\ ledger'[n].id = id /\ ledger'[n].reference = x
        /\ ledger'[n].type = IF kind = "captured" THEN "CREDIT" ELSE "REFUND"
    BY <2>2, <2>3, <2>4 DEF LedgerId
  <2>6. n \in Entries(x, IF kind = "captured" THEN "CREDIT" ELSE "REFUND")'
    BY <2>4, <2>5 DEF Entries
  <2>7. Recorded(id)'
    BY <2>4, <2>5 DEF Recorded
  <2>8. QED
    BY <2>1, <2>6, <2>7
<1>6. x \in Orders \cup TopUps => x \notin Rides
  BY ReferencesAssumption
<1>7. kind = "captured" => p = id
  BY <1>2 DEF PaymentOf
<1>8. QED
  BY <1>1, <1>4, <1>5, <1>6, <1>7

\* Nothing else touches the row of an order or a top-up than a commit and the
\* writers of the orders service.
LEMMA RowChanges ==
  ASSUME Sound, [Next]_vars, NEW x \in References \ Rides
  PROVE  \/ reference'[x] = reference[x]
         \/ \E r \in Requests : Commit(r) /\ request[r].reference = x
         \/ \E w \in Writers : CommitRow(w) /\ writer[w].reference = x
<1>1. reference \in [References -> Row]
  BY DEF Sound, TypeOK
<1>2. ASSUME NEW y \in Rides, RideAccepted(y) PROVE reference'[x] = reference[x]
  BY <1>1, <1>2 DEF RideAccepted
<1>3. ASSUME NEW r \in Requests, Commit(r), request[r].reference # x PROVE reference'[x] = reference[x]
  BY <1>3, CommitDoes
<1>4. ASSUME NEW w \in Writers, CommitRow(w), writer[w].reference # x
      PROVE  reference'[x] = reference[x]
  BY <1>4, UpdateDoes
<1>5. CASE UNCHANGED reference
  BY <1>5
<1>6. QED
  BY <1>2, <1>3, <1>4, <1>5
     DEF Next, Handle, Provider, vars, postgres, Lookup, AcquireLock, Relookup, Recheck, Derive,
         createOrder, createRefund, ProviderRefuses, Read, Write, Remember, Unlock, Crash,
         TransactionFails, StartRefund, StartOrder, Deliver, Start, LockExpires, AnswerExpires,
         AttemptPayment, DashboardRefund, ReadRow, WriterFails

LEMMA EntriesChange ==
  ASSUME Sound, [Next]_vars, NEW x, NEW type
  PROVE  /\ Entries(x, type) \subseteq Entries(x, type)'
         /\ \/ Entries(x, type)' = Entries(x, type)
            \/ \E r \in Requests :
                 Commit(r) /\ request[r].reference = x /\ EntryOf(r).type = type
            \/ \E w \in Writers :
                 /\ CommitRow(w) /\ GivesBack(writer[w]) /\ writer[w].reference = x
                 /\ type = "REFUND"
<1>1. Entries(x, type) \subseteq Entries(x, type)'
  BY RecordedStays DEF Entries
<1>2. ASSUME NEW e, Appends(e), e.reference # x \/ e.type # type
      PROVE  Entries(x, type)' = Entries(x, type)
  BY <1>2 DEF Appends, Entries
<1>3. CASE UNCHANGED ledger
  BY <1>3 DEF Entries
<1>4. ASSUME NEW r \in Requests, Commit(r), Beneficiary(r) # NoUser
      PROVE  \/ Entries(x, type)' = Entries(x, type)
             \/ request[r].reference = x /\ EntryOf(r).type = type
  BY <1>2, <1>4, LedgerGrows
<1>5. ASSUME NEW w \in Writers, CommitRow(w), GivesBack(writer[w])
      PROVE  \/ Entries(x, type)' = Entries(x, type)
             \/ writer[w].reference = x /\ type = "REFUND"
  BY <1>2, <1>5, UpdateGrows
<1>6. QED
  BY <1>1, <1>3, <1>4, <1>5, LedgerChanges
-----------------------------------------------------------------------------
\* What the status of an order or a top-up says is in the ledger ...
StatusIsRecorded ==
  \A x \in Orders \cup TopUps :
    /\ reference[x].status = "PAID" =>
         Entries(x, "CREDIT") # {} /\ Recorded(reference[x].payment)
    /\ reference[x].status = "REFUNDED" => Entries(x, "REFUND") # {}

\* ... and the status says what is in the ledger, while no attempt failed and the
\* order is open.
LedgerIsStatus ==
  \A x \in Orders \cup TopUps :
    Entries(x, "CREDIT") # {} /\ reference[x].open /\ ~Declined(x) =>
      reference[x].status \in {"PAID", "REFUNDED"}

\* What a cancellation gives back, or is about to, was captured.
CancelsBacked ==
  /\ \A w \in Writers : writer[w] # None /\ GivesBack(writer[w]) =>
       Entries(writer[w].reference, "CREDIT") # {}
  /\ \A n \in DOMAIN ledger : ledger[n].id = None =>
       ledger[n].type = "REFUND" /\ Entries(ledger[n].reference, "CREDIT") # {}

StatusInv == StatusIsRecorded /\ LedgerIsStatus /\ CancelsBacked

LEMMA StatusStaysRecorded ==
  ASSUME Sound, StatusIsRecorded, [Next]_vars PROVE StatusIsRecorded'
<1> SUFFICES ASSUME NEW x \in Orders \cup TopUps
             PROVE  /\ reference'[x].status = "PAID" =>
                         Entries(x, "CREDIT")' # {} /\ Recorded(reference[x].payment)'
                    /\ reference'[x].status = "REFUNDED" => Entries(x, "REFUND")' # {}
  BY DEF StatusIsRecorded
<1>1. x \in References \ Rides
  BY ReferencesAssumption DEF References
<1>2. /\ Entries(x, "CREDIT") \subseteq Entries(x, "CREDIT")'
      /\ Entries(x, "REFUND") \subseteq Entries(x, "REFUND")'
      /\ \A id : Recorded(id) => Recorded(id)'
  BY EntriesChange, RecordedStays
<1>3. CASE reference'[x] = reference[x]
  <2>1. PICK id : id = reference[x].payment
    OBVIOUS
  <2>2. reference[x].status = "PAID" => Recorded(id)'
    BY <1>2, <2>1 DEF StatusIsRecorded
  <2>3. reference'[x].payment = id
    BY <1>3, <2>1
  <2>4. reference'[x].status = "PAID" => Recorded(reference[x].payment)'
    BY <1>3, <2>2, <2>3 DEF Recorded
  <2>5. QED
    BY <1>2, <1>3, <2>2, <2>3, <2>4 DEF StatusIsRecorded
<1>4. ASSUME NEW r \in Requests, Commit(r), request[r].reference = x
      PROVE  /\ reference'[x].status = "PAID" =>
                  Entries(x, "CREDIT")' # {} /\ Recorded(reference[x].payment)'
             /\ reference'[x].status = "REFUNDED" => Entries(x, "REFUND")' # {}
  <2>1. PICK kind : kind = request[r].kind
    OBVIOUS
  <2>2. PICK id : id = request[r].subject
    OBVIOUS
  <2>3. /\ kind \in Kinds /\ reference'[x].status = StatusOf(kind)
        /\ kind # "failed" =>
             /\ Recorded(id)'
             /\ Entries(x, IF kind = "captured" THEN "CREDIT" ELSE "REFUND")' # {}
        /\ kind = "captured" => reference'[x].payment = id
    BY <1>4, <2>1, <2>2, CommitDoes
  <2>4. kind # "order"
    BY <1>4, <2>1, WhereItIs DEF Commit
  <2>5. CASE kind = "captured"
    <3>1. Recorded(reference[x].payment)'
      BY <2>3, <2>5 DEF Recorded
    <3>2. QED
      BY <2>3, <2>5, <3>1 DEF StatusOf
  <2>6. CASE kind = "failed"
    BY <2>3, <2>6 DEF StatusOf
  <2>7. CASE kind \notin {"captured", "failed"}
    BY <2>3, <2>4, <2>7 DEF StatusOf
  <2>8. QED
    BY <2>5, <2>6, <2>7
<1>5. ASSUME NEW w \in Writers, CommitRow(w), writer[w].reference = x
      PROVE  /\ reference'[x].status # "PAID"
             /\ reference'[x].status = "REFUNDED" => Entries(x, "REFUND")' # {}
  <2>1. reference'[x].status = IF GivesBack(writer[w]) THEN "REFUNDED" ELSE "CANCELLED"
    BY <1>1, <1>5, UpdateDoes
  <2>2. GivesBack(writer[w]) => Entries(x, "REFUND")' # {}
    BY <1>5, UpdateGrows DEF Appends, Entries
  <2>3. QED
    BY <2>1, <2>2
<1>6. QED
  BY <1>1, <1>3, <1>4, <1>5, RowChanges

LEMMA LedgerStaysStatus ==
  ASSUME Sound, LedgerIsStatus, [Next]_vars PROVE LedgerIsStatus'
<1> SUFFICES ASSUME NEW x \in Orders \cup TopUps, Entries(x, "CREDIT")' # {}, reference'[x].open,
                    ~Declined(x)'
             PROVE  reference'[x].status \in {"PAID", "REFUNDED"}
  BY DEF LedgerIsStatus
<1>1. x \in References \ Rides /\ TypeOK /\ ProviderSound /\ ProviderGrows
  BY ReferencesAssumption, NextKeepsProvider DEF References, Sound
<1>2. ~Declined(x)
  BY <1>1, WhatPaysStays DEF Declined, Pays
<1>3. ASSUME NEW r \in Requests, Commit(r), request[r].reference = x
      PROVE  reference'[x].status \in {"PAID", "REFUNDED"}
  <2>1. /\ request[r].kind \in Kinds \ {"order"} /\ AboutAnEvent(request[r])
        /\ reference'[x].status = StatusOf(request[r].kind)
    BY <1>3, CommitDoes, WhereItIs DEF Commit
  <2>2. request[r].kind # "failed"
    BY <1>2, <1>3, <2>1 DEF AboutAnEvent, Declined
  <2>3. QED
    BY <2>1, <2>2 DEF Kinds, StatusOf
<1>4. ASSUME NEW w \in Writers, CommitRow(w), writer[w].reference = x PROVE FALSE
  BY <1>4, UpdateDoes
<1>5. CASE reference'[x] = reference[x] /\ Entries(x, "CREDIT")' = Entries(x, "CREDIT")
  BY <1>2, <1>5 DEF LedgerIsStatus
<1>6. QED
  BY <1>1, <1>3, <1>4, <1>5, RowChanges, EntriesChange

\* A cancellation that is to give back has just read a paid order, or was there
\* before.
LEMMA WritersComeFrom ==
  ASSUME Sound, [Next]_vars, NEW w \in Writers, writer'[w] # None
  PROVE  \/ writer'[w] = writer[w]
         \/ /\ writer'[w].seen = reference[writer'[w].reference]
            /\ writer'[w].kind \in OrderUpdates => writer'[w].reference \in Orders
<1>1. writer \in [Writers -> Update \cup {None}]
  BY DEF Sound, TypeOK
<1>2. ASSUME NEW v \in Writers, NEW kind \in OrderUpdates \cup RideUpdates,
             NEW x \in Orders \cup Rides, ReadRow(v, kind, x)
      PROVE  \/ writer'[w] = writer[w]
             \/ /\ writer'[w].seen = reference[writer'[w].reference]
                /\ writer'[w].kind \in OrderUpdates => writer'[w].reference \in Orders
  <2> DEFINE u == [ kind |-> kind, reference |-> x, seen |-> reference[x],
                    balance |-> Balance(Customer) ]
  <2>1. writer' = [writer EXCEPT ![v] = u] /\ (kind \in OrderUpdates => x \in Orders)
    BY <1>2 DEF ReadRow, MayUpdate
  <2>2. u.seen = reference[x] /\ u.reference = x /\ u.kind = kind
    OBVIOUS
  <2> HIDE DEF u
  <2>3. QED
    BY <1>1, <2>1, <2>2
<1>3. ASSUME NEW v \in Writers, writer' = [writer EXCEPT ![v] = None] PROVE writer'[w] = writer[w]
  BY <1>1, <1>3
<1>4. CASE UNCHANGED writer
  BY <1>4
<1>5. QED
  BY <1>2, <1>3, <1>4
     DEF Next, Handle, Provider, vars, Lookup, AcquireLock, Relookup, Recheck, Derive,
         createOrder, createRefund, ProviderRefuses, Read, Write, Commit, Remember, Unlock,
         Crash, TransactionFails, StartRefund, StartOrder, Deliver, Start, LockExpires,
         AnswerExpires, AttemptPayment, DashboardRefund, RideAccepted, CommitRow, WriterFails

LEMMA CancelsStayBacked ==
  ASSUME Sound, StatusInv, [Next]_vars PROVE CancelsBacked'
<1>1. \A x : Entries(x, "CREDIT") # {} => Entries(x, "CREDIT")' # {}
  BY EntriesChange
<1>2. ASSUME NEW w \in Writers, writer'[w] # None, GivesBack(writer[w])'
      PROVE  Entries(writer[w].reference, "CREDIT")' # {}
  <2>1. PICK u : u = writer'[w]
    OBVIOUS
  <2>2. GivesBack(u) /\ u # None /\ u.kind \in OrderUpdates
    BY <1>2, <2>1 DEF GivesBack, OrderUpdates
  <2>3. Entries(u.reference, "CREDIT") # {}
    <3>1. CASE u = writer[w]
      BY <2>2, <3>1 DEF StatusInv, CancelsBacked
    <3>2. CASE u.seen = reference[u.reference] /\ u.reference \in Orders
      BY <2>2, <3>2 DEF StatusInv, StatusIsRecorded, GivesBack
    <3>3. QED
      BY <1>2, <2>1, <2>2, <3>1, <3>2, WritersComeFrom
  <2>4. Entries(u.reference, "CREDIT")' # {}
    BY <1>1, <2>3
  <2>5. QED
    BY <2>1, <2>4 DEF Entries
<1>3. ASSUME NEW n \in DOMAIN ledger', ledger'[n].id = None
      PROVE  ledger'[n].type = "REFUND" /\ Entries(ledger[n].reference, "CREDIT")' # {}
  <2>1. PICK e : e = ledger'[n]
    OBVIOUS
  <2>2. e.type = "REFUND" /\ Entries(e.reference, "CREDIT") # {}
    <3>1. CASE n \in DOMAIN ledger /\ ledger'[n] = ledger[n]
      BY <1>3, <2>1, <3>1 DEF StatusInv, CancelsBacked
    <3>2. ASSUME NEW r \in Requests, Commit(r), Beneficiary(r) # NoUser, e = EntryOf(r) PROVE FALSE
      BY <1>3, <2>1, <3>2, LedgerGrows
    <3>3. ASSUME NEW w \in Writers, CommitRow(w), GivesBack(writer[w]), e = CancelEntry(writer[w])
          PROVE  e.type = "REFUND" /\ Entries(e.reference, "CREDIT") # {}
      BY <3>3, UpdateGrows DEF CommitRow, StatusInv, CancelsBacked
    <3>4. QED
      BY <2>1, <3>1, <3>2, <3>3, LedgerChanges DEF Appends
  <2>3. Entries(e.reference, "CREDIT")' # {}
    BY <1>1, <2>2
  <2>4. QED
    BY <2>1, <2>2, <2>3 DEF Entries
<1>4. QED
  BY <1>2, <1>3 DEF CancelsBacked

LEMMA StatusInductive == Sound /\ StatusInv /\ [Next]_vars => StatusInv'
<1> SUFFICES ASSUME Sound, StatusInv, [Next]_vars PROVE StatusInv'
  OBVIOUS
<1>1. StatusIsRecorded /\ LedgerIsStatus
  BY DEF StatusInv
<1>2. QED
  BY <1>1, StatusStaysRecorded, LedgerStaysStatus, CancelsStayBacked DEF StatusInv

LEMMA StatusInitially == Init => StatusInv
<1> SUFFICES ASSUME Init PROVE StatusInv
  OBVIOUS
<1>1. \A x \in Orders \cup TopUps : reference[x].status = "PENDING"
  BY DEF Init, References
<1>2. DOMAIN ledger = {} /\ \A x, type : Entries(x, type) = {}
  BY DEF Init, Entries
<1>3. \A w \in Writers : writer[w] = None
  BY DEF Init
<1>4. QED
  BY <1>1, <1>2, <1>3 DEF StatusInv, StatusIsRecorded, LedgerIsStatus, CancelsBacked

\* However often webhooks are replayed, and whoever else refunds or cancels
\* meanwhile, each payment and each refund of the provider changes the ledger
\* once, by its amount, and nothing is given back that was not captured.
THEOREM LedgerCorrect == Spec => []LedgerChangedOnce
<1>1. LedgerInv /\ StatusInv => LedgerChangedOnce
  BY DEF LedgerInv, EntriesSound, OneEntry, StatusInv, CancelsBacked, LedgerChangedOnce
<1>2. QED
  BY SoundInitially, SoundInductive, LedgerInitially, LedgerInductive, StatusInitially,
     StatusInductive, <1>1, PTL DEF Spec

\* The payment status of every order and top-up is backed by its ledger rows, and
\* shows them unless an attempt was declined or the order was cancelled.
THEOREM StatusCorrect == Spec => []StatusMatchesLedger
<1>1. StatusInv => StatusMatchesLedger
  BY DEF StatusInv, StatusIsRecorded, LedgerIsStatus, StatusMatchesLedger
<1>2. QED
  BY SoundInitially, SoundInductive, StatusInitially, StatusInductive, <1>1, PTL DEF Spec
-----------------------------------------------------------------------------
\* Refunds that staff make are of payments in the ledger, and not of rides.
StaffRefunds ==
  spent["dashboard"] = 0 =>
    /\ \A r \in Requests : At(r, "provider") /\ request[r].kind = "refund" =>
         Recorded(request[r].seen.payment) /\ request[r].reference \notin Rides
    /\ \A f \in RefundIds : refund[f] # None =>
         Recorded(refund[f].payment) /\ OrderOf(refund[f].payment).reference \notin Rides

\* A staff refund that is about to ask the provider has just read a paid row, or
\* was there before.
LEMMA StaffAsks ==
  ASSUME Sound, [Next]_vars, NEW r \in Requests, At(r, "provider")', request'[r].kind = "refund"
  PROVE  \/ At(r, "provider") /\ request'[r] = request[r]
         \/ /\ request'[r].seen = reference[request'[r].reference]
            /\ request'[r].seen.status = "PAID"
            /\ request'[r].reference \in References \ Rides
<1>1. CASE request'[r] = request[r]
  BY <1>1 DEF At
<1> SUFFICES ASSUME request'[r] # request[r]
             PROVE  /\ request'[r].seen = reference[request'[r].reference]
                    /\ request'[r].seen.status = "PAID"
                    /\ request'[r].reference \in References \ Rides
  BY <1>1
<1>2. TypeOK /\ request'[r] # None /\ request'[r].phase = "provider"
  BY DEF At, Sound
<1>3. ASSUME NEW s \in Requests, NEW phase \in Phases \ {"provider"}, request[s] # None,
             Goto(s, phase) \/ FailTo(s, phase)
      PROVE  FALSE
  BY <1>2, <1>3, GotoGoesOn DEF GoesOn, OthersStay
<1>4. ASSUME NEW s \in Requests, request' = [request EXCEPT ![s] = None] PROVE FALSE
  BY <1>2, <1>4, SlotFreed DEF OthersStay
<1>5. ASSUME NEW s \in Requests, NEW kind, NEW subject, NEW x, NEW phase \in {"lookup", "derive"},
             Start(s, kind, subject, x, phase)
      PROVE  FALSE
  BY <1>2, <1>5 DEF Start, TypeOK
<1>6. ASSUME NEW s \in Requests, NEW q \in Request, request' = [request EXCEPT ![s] = q],
             q.phase # "provider"
      PROVE  FALSE
  BY <1>2, <1>6 DEF TypeOK
<1>7. ASSUME NEW s \in Requests, Derive(s)
      PROVE  /\ request'[r].seen = reference[request'[r].reference]
             /\ request'[r].seen.status = "PAID"
             /\ request'[r].reference \in References \ Rides
  <2> DEFINE x == reference[request[s].reference]
             q == [request[s] EXCEPT !.seen = x, !.phase = "provider"]
  <2>1. /\ request[s] # None /\ request[s] \in Request /\ x \in Row
        /\ request[s].reference \in References /\ request[s].kind \in {"order", "refund"}
        /\ "unlock" \in Phases \ {"provider"}
    BY <1>2, <1>7, WhereItIs DEF Derive, TypeOK, Phases
  <2>2. request' = [request EXCEPT ![s] = q]
    BY <1>3, <1>4, <1>7, <2>1 DEF Derive, Answer
  <2>3. q \in Request /\ q.seen = x /\ q.reference = request[s].reference /\ q.kind = request[s].kind
    BY <2>1 DEF Request, Phases
  <2>4. s = r
    BY <1>2, <2>2 DEF TypeOK
  <2>5. request'[r] = q
    BY <1>2, <2>2, <2>3, <2>4 DEF TypeOK
  <2>6. request[s].kind = "refund"
    BY <2>3, <2>5
  <2>7. x.status = "PAID" /\ request[s].reference \notin Rides
    BY <1>4, <1>7, <2>6 DEF Derive, Answer
  <2>8. QED
    BY <2>1, <2>3, <2>5, <2>7
<1>8. ASSUME NEW s \in Requests, NEW f \in RefundIds, createRefund(s, f) PROVE FALSE
  <2> DEFINE q == [request[s] EXCEPT !.subject = f, !.phase = "read"]
  <2>1. request[s] \in Request
    BY <1>8, WhereItIs DEF createRefund
  <2>2. q \in Request /\ q.phase # "provider"
    BY <2>1 DEF Request, Subjects, Phases
  <2>3. request' = [request EXCEPT ![s] = q]
    BY <1>8 DEF createRefund
  <2>4. QED
    BY <1>6, <2>2, <2>3
<1>9. ASSUME NEW s \in Requests, Read(s) PROVE FALSE
  <2> DEFINE q == [request[s] EXCEPT !.seen = reference[request[s].reference], !.phase = "write"]
  <2>1. /\ request[s] # None /\ request[s] \in Request /\ reference[request[s].reference] \in Row
        /\ {"remember", "unlock"} \subseteq Phases \ {"provider"}
    BY <1>2, <1>9, WhereItIs DEF Read, TypeOK, Phases
  <2>2. q \in Request /\ q.phase # "provider"
    BY <2>1 DEF Request, Phases
  <2>3. request' # [request EXCEPT ![s] = q]
    BY <1>6, <2>2
  <2>4. QED
    BY <1>3, <1>9, <2>1, <2>3 DEF Read
<1>10. ASSUME NEW s \in Requests, Write(s) PROVE FALSE
  BY <1>2, <1>10, WriteIsTyped DEF GoesOn, OthersStay
<1>11. {"lock", "relookup", "recheck", "derive", "read", "remember", "unlock"}
         \subseteq Phases \ {"provider"}
  BY DEF Phases
<1>12. ASSUME NEW s \in Requests, Handle(s), ~Derive(s) PROVE FALSE
  BY <1>3, <1>4, <1>8, <1>9, <1>10, <1>11, <1>12
     DEF Handle, At, Answer, Lookup, AcquireLock, Relookup, Recheck, createOrder, ProviderRefuses,
         Commit, Remember, Unlock
<1>13. ASSUME NEW s \in Requests, Crash(s) \/ TransactionFails(s) PROVE FALSE
  BY <1>3, <1>4, <1>11, <1>13 DEF At, Crash, TransactionFails
<1>14. QED
  BY <1>5, <1>7, <1>12, <1>13
     DEF Next, Provider, vars, StartRefund, StartOrder, Deliver, LockExpires, AnswerExpires,
         AttemptPayment, DashboardRefund, RideAccepted,
         ReadRow, CommitRow, WriterFails

LEMMA StaffRefundsStay ==
  ASSUME Sound, StatusIsRecorded, StaffRefunds, [Next]_vars PROVE StaffRefunds'
<1> SUFFICES ASSUME spent'["dashboard"] = 0 PROVE StaffRefunds'
  BY DEF StaffRefunds
<1>1. TypeOK /\ ProviderSound /\ ProviderGrows /\ RequestsSound /\ "dashboard" \in FaultKinds
  BY NextKeepsProvider DEF Sound, FaultKinds
<1>2. spent["dashboard"] = 0
  <2>1. spent["dashboard"] \in Nat /\ spent["dashboard"] <= spent'["dashboard"]
    BY <1>1, HistoryIsTyped DEF TypeOK
  <2>2. QED
    BY <2>1
<1>3. \A id : Recorded(id) => Recorded(id)'
  BY RecordedStays
<1>4. ASSUME NEW r \in Requests, At(r, "provider")', request'[r].kind = "refund"
      PROVE  Recorded(request[r].seen.payment)' /\ request'[r].reference \notin Rides
  <2>1. PICK p : p = request'[r].seen.payment
    OBVIOUS
  <2>2. Recorded(p) /\ request'[r].reference \notin Rides
    <3>1. CASE At(r, "provider") /\ request'[r] = request[r]
      BY <1>2, <1>4, <2>1, <3>1 DEF StaffRefunds
    <3>2. CASE /\ request'[r].seen = reference[request'[r].reference]
               /\ request'[r].seen.status = "PAID"
               /\ request'[r].reference \in References \ Rides
      <4>1. PICK x \in References \ Rides : x = request'[r].reference
        BY <3>2
      <4>2. x \in Orders \cup TopUps
        BY DEF References
      <4>3. QED
        BY <2>1, <3>2, <4>1, <4>2 DEF StatusIsRecorded
    <3>3. QED
      BY <1>4, <3>1, <3>2, StaffAsks
  <2>3. Recorded(p)'
    BY <1>3, <2>2
  <2>4. QED
    BY <2>1, <2>2, <2>3 DEF Recorded
<1>5. ASSUME NEW f \in RefundIds, refund'[f] # None
      PROVE  \E p \in PaymentIds :
               /\ refund'[f].payment = p /\ payment[p] # None
               /\ Recorded(p) /\ OrderOf(p).reference \notin Rides
  <2>1. CASE refund'[f] = refund[f]
    BY <1>1, <1>2, <1>5, <2>1 DEF StaffRefunds, TypeOK, ProviderRefund, ProviderSound
  <2>2. ASSUME NEW r \in Requests, createRefund(r, f)
        PROVE  \E p \in PaymentIds :
                 /\ refund'[f].payment = p /\ payment[p] # None
                 /\ Recorded(p) /\ OrderOf(p).reference \notin Rides
    <3> DEFINE p == request[r].seen.payment
    <3>1. At(r, "provider") /\ request[r].kind = "refund" /\ request[r].seen \in Row
          /\ p # None /\ Pays(request[r].seen.payment, request[r].reference)
      BY <2>2, WhereItIs DEF createRefund, WhereItCanBe
    <3>2. p \in PaymentIds
      BY <3>1 DEF Row
    <3>3. Recorded(p) /\ request[r].reference \notin Rides
      BY <1>2, <3>1 DEF StaffRefunds
    <3>4. refund'[f].payment = p
      BY <1>1, <2>2 DEF createRefund, TypeOK
    <3>5. QED
      BY <3>1, <3>2, <3>3, <3>4 DEF Pays
  <2>3. ASSUME NEW r \in Requests, NEW g \in RefundIds, createRefund(r, g), g # f
        PROVE  refund'[f] = refund[f]
    BY <1>1, <2>3 DEF createRefund, TypeOK
  <2>4. ASSUME NEW g \in RefundIds, NEW p \in PaymentIds, DashboardRefund(g, p) PROVE FALSE
    <3>1. spent \in [FaultKinds -> Nat] /\ Spend("dashboard")
      BY <1>1, <2>4 DEF TypeOK, DashboardRefund
    <3>2. spent'["dashboard"] = 0 + 1
      BY <1>1, <1>2, <3>1 DEF Spend
    <3>3. QED
      BY <3>2
  <2>5. QED
    BY <2>1, <2>2, <2>3, <2>4
       DEF Next, Handle, Provider, vars, provider, Lookup, AcquireLock, Relookup, Recheck, Derive,
           createOrder, ProviderRefuses, Read, Write, Commit, Remember, Unlock, Crash,
           TransactionFails, StartRefund, StartOrder, Deliver, Start, LockExpires, AnswerExpires,
           AttemptPayment, RideAccepted,
         ReadRow, CommitRow, WriterFails
<1>6. ASSUME NEW f \in RefundIds, refund'[f] # None
      PROVE  Recorded(refund[f].payment)' /\ OrderOf(refund[f].payment)'.reference \notin Rides
  <2>1. PICK p \in PaymentIds :
          /\ refund'[f].payment = p /\ payment[p] # None
          /\ Recorded(p) /\ OrderOf(p).reference \notin Rides
    BY <1>5, <1>6
  <2>2. Recorded(p)' /\ OrderOf(p)' = OrderOf(p)
    BY <1>1, <1>3, <2>1, WhatPaysStays
  <2>3. QED
    BY <2>1, <2>2 DEF Recorded, OrderOf
<1>7. QED
  BY <1>4, <1>6 DEF StaffRefunds

LEMMA StaffRefundsInitially == Init => StaffRefunds
BY DEF Init, StaffRefunds, At

\* Behind everything that was given back there is a capture in the ledger.
LEMMA RefundFollowsCapture ==
  ASSUME Sound, LedgerInv, StatusInv, StaffRefunds, spent["dashboard"] = 0,
         NEW x, Entries(x, "REFUND") # {}
  PROVE  \E p \in PaymentIds : Pays(p, x) /\ payment[p].outcome = "captured" /\ Recorded(p)
<1>1. PICK n \in DOMAIN ledger : ledger[n].reference = x /\ ledger[n].type = "REFUND"
  BY DEF Entries
<1>2. PICK id : id = ledger[n].id
  OBVIOUS
<1>3. CASE id # None
  <2>1. id \in RefundIds /\ RefundPays(id, x)
    BY <1>1, <1>2, <1>3 DEF LedgerInv, EntriesSound
  <2>2. PICK p \in PaymentIds : p = refund[id].payment
    BY <2>1 DEF RefundPays, Sound, TypeOK, ProviderRefund
  <2>3. Pays(p, x) /\ payment[p].outcome = "captured" /\ Recorded(p)
    BY <2>1, <2>2 DEF RefundPays, Sound, ProviderSound, StaffRefunds
  <2>4. QED
    BY <2>3
<1>4. CASE id = None
  <2>1. PICK m \in DOMAIN ledger : ledger[m].reference = x /\ ledger[m].type = "CREDIT"
    BY <1>1, <1>2, <1>4 DEF StatusInv, CancelsBacked, Entries
  <2>2. ledger[m].id # None
    BY <2>1 DEF StatusInv, CancelsBacked
  <2>3. PICK p \in PaymentIds :
          p = ledger[m].id /\ Pays(p, x) /\ payment[p].outcome = "captured"
    BY <2>1, <2>2 DEF LedgerInv, EntriesSound
  <2>4. Recorded(p)
    BY <2>1, <2>3 DEF Recorded
  <2>5. QED
    BY <2>3, <2>4
<1>5. QED
  BY <1>3, <1>4

\* No replayed or late copy of the capture, and no cancellation, undoes a refund.
LEMMA RefundStays ==
  ASSUME Sound, LedgerInv, StatusInv, StaffRefunds, RefundIsFinal, [Next]_vars
  PROVE  RefundIsFinal'
<1> SUFFICES ASSUME spent'["dashboard"] = 0, NEW x \in Orders \cup TopUps,
                    Entries(x, "REFUND")' # {}, PaidOnce(x)'
             PROVE  reference'[x].status \in {"REFUNDED", "CANCELLED"}
  BY DEF RefundIsFinal
<1>1. /\ x \in References \ Rides /\ TypeOK /\ ProviderSound /\ ProviderGrows
      /\ "dashboard" \in FaultKinds
  BY ReferencesAssumption, NextKeepsProvider DEF References, Sound, FaultKinds
<1>2. spent["dashboard"] = 0
  <2>1. spent["dashboard"] \in Nat /\ spent["dashboard"] <= spent'["dashboard"]
    BY <1>1, HistoryIsTyped DEF TypeOK
  <2>2. QED
    BY <2>1
<1>3. PaidOnce(x)
  BY <1>1, WhatPaysStays DEF PaidOnce
<1>4. Entries(x, "REFUND") # {} => reference[x].status \in {"REFUNDED", "CANCELLED"}
  BY <1>2, <1>3 DEF RefundIsFinal
<1>5. ASSUME NEW w \in Writers, CommitRow(w), writer[w].reference = x
      PROVE  reference'[x].status \in {"REFUNDED", "CANCELLED"}
  BY <1>1, <1>5, UpdateDoes
<1>6. ASSUME NEW r \in Requests, Commit(r), request[r].reference = x
      PROVE  reference'[x].status \in {"REFUNDED", "CANCELLED"}
  <2>1. /\ reference'[x].status = StatusOf(request[r].kind)
        /\ request[r].kind # "failed" => Beneficiary(r) # NoUser
        /\ request[r].kind \in Kinds \ {"order"} /\ AboutAnEvent(request[r])
    BY <1>6, CommitDoes, WhereItIs DEF Commit
  <2>2. CASE request[r].kind \in {"refund", "refunded"}
    BY <2>1, <2>2 DEF StatusOf
  <2>3. CASE request[r].kind \in {"captured", "failed"}
    <3>1. EntryOf(r).type = "REFUND" => request[r].kind = "failed"
      BY <2>3 DEF EntryOf
    <3>2. request[r].kind = "failed" => UNCHANGED ledger
      BY <1>6 DEF Commit, WriteLedger, Beneficiary
    <3>3. Entries(x, "REFUND") # {}
      <4>1. CASE request[r].kind = "failed"
        BY <3>2, <4>1 DEF Entries
      <4>2. CASE request[r].kind = "captured"
        <5>1. Appends(EntryOf(r))
          BY <1>6, <2>1, <4>2, LedgerGrows
        <5>2. EntryOf(r).type # "REFUND"
          BY <4>2 DEF EntryOf
        <5>3. QED
          BY <5>1, <5>2 DEF Appends, Entries
      <4>3. QED
        BY <2>3, <4>1, <4>2
    <3>4. PICK p \in PaymentIds : Pays(p, x) /\ payment[p].outcome = "captured" /\ Recorded(p)
      BY <1>2, <3>3, RefundFollowsCapture
    <3>5. /\ request[r].subject \in PaymentIds /\ Pays(request[r].subject, x)
          /\ payment[request[r].subject].outcome = request[r].kind
      BY <1>6, <2>1, <2>3 DEF AboutAnEvent
    <3>6. request[r].subject = p
      BY <1>3, <3>4, <3>5 DEF PaidOnce
    <3>7. request[r].kind = "captured" /\ Recorded(LedgerId(r)) /\ Beneficiary(r) # NoUser
      BY <2>1, <2>3, <3>4, <3>5, <3>6 DEF LedgerId
    <3>8. QED
      BY <1>6, <3>7 DEF Commit, LedgerInv, CommitsAreNew
  <2>4. QED
    BY <2>1, <2>2, <2>3 DEF Kinds
<1>7. CASE reference'[x] = reference[x] /\ Entries(x, "REFUND")' = Entries(x, "REFUND")
  BY <1>4, <1>7
<1>8. QED
  BY <1>1, <1>5, <1>6, <1>7, RowChanges, EntriesChange

\* What was given back is not taken for paid again, for a reference that was paid
\* once and while no refund is made on the provider's dashboard.
THEOREM RefundsAreFinal == Spec => []RefundIsFinal
<1> DEFINE Inv == Sound /\ LedgerInv /\ StatusInv /\ StaffRefunds /\ RefundIsFinal
<1>1. Init => RefundIsFinal
  BY DEF Init, RefundIsFinal, Entries
<1>2. Init => Inv
  BY <1>1, SoundInitially, LedgerInitially, StatusInitially, StaffRefundsInitially
<1>3. Inv /\ [Next]_vars => Inv'
  BY SoundInductive, LedgerInductive, StatusInductive, StaffRefundsStay, RefundStays DEF StatusInv
<1>4. QED
  BY <1>2, <1>3, PTL DEF Spec
-----------------------------------------------------------------------------
\* A webhook that is about to be remembered is in the ledger.
DoneIsRecorded ==
  \A r \in Requests : At(r, "remember") /\ request[r].kind \in {"captured", "refunded"} =>
    Recorded(request[r].subject) \/ request[r].reference \in Rides

\* What is remembered is an event of the provider.
RememberedSound ==
  \A k \in remembered :
    /\ k[1] = "captured" => k[2] \in PaymentIds /\ payment[k[2]] # None
    /\ k[1] = "refunded" => k[2] \in RefundIds /\ refund[k[2]] # None

RememberedInv ==
  DoneIsRecorded /\ (EventsHaveIds => RememberedSound /\ RememberedIsRecorded)

\* A webhook comes to its "remember" from a commit, or because it saw its entry.
LEMMA DoneComesFrom ==
  ASSUME Sound, [Next]_vars, NEW r \in Requests, At(r, "remember")',
         request'[r].kind \in {"captured", "refunded"}
  PROVE  \/ At(r, "remember") /\ request'[r] = request[r]
         \/ /\ request[r] # None /\ GoesOn(r, "remember") /\ request[r].kind # "refund"
            /\ Commit(r) \/ Recorded(request[r].subject)
<1>1. CASE request'[r] = request[r]
  BY <1>1 DEF At
<1> SUFFICES ASSUME request'[r] # request[r]
             PROVE  /\ request[r] # None /\ GoesOn(r, "remember") /\ request[r].kind # "refund"
                    /\ Commit(r) \/ Recorded(request[r].subject)
  BY <1>1
<1>2. TypeOK /\ request'[r] # None /\ request'[r].phase = "remember"
  BY DEF At, Sound
<1>3. ASSUME NEW s \in Requests, NEW phase \in Phases \ {"remember"}, request[s] # None,
             Goto(s, phase) \/ FailTo(s, phase)
      PROVE  FALSE
  BY <1>2, <1>3, GotoGoesOn DEF GoesOn, OthersStay
<1>4. ASSUME NEW s \in Requests, request' = [request EXCEPT ![s] = None] PROVE FALSE
  BY <1>2, <1>4, SlotFreed DEF OthersStay
<1>5. ASSUME NEW s \in Requests, NEW kind, NEW subject, NEW x, NEW phase \in {"lookup", "derive"},
             Start(s, kind, subject, x, phase)
      PROVE  FALSE
  BY <1>2, <1>5 DEF Start, TypeOK
<1>6. ASSUME NEW s \in Requests, NEW q \in Request, request' = [request EXCEPT ![s] = q],
             q.phase # "remember"
      PROVE  FALSE
  BY <1>2, <1>6 DEF TypeOK
<1>7. ASSUME NEW s \in Requests, Goto(s, "remember"), request[s] # None
      PROVE  s = r /\ GoesOn(r, "remember") /\ request[r].kind \in {"captured", "refunded"}
  <2>1. "remember" \in Phases
    BY DEF Phases
  <2>2. GoesOn(s, "remember") /\ OthersStay(s)
    BY <1>2, <1>7, <2>1, GotoGoesOn
  <2>3. QED
    BY <2>2 DEF GoesOn, OthersStay
<1>8. ASSUME NEW s \in Requests, Derive(s) PROVE FALSE
  <2> DEFINE q == [request[s] EXCEPT !.seen = reference[request[s].reference], !.phase = "provider"]
  <2>1. /\ request[s] # None /\ request[s] \in Request /\ reference[request[s].reference] \in Row
        /\ "unlock" \in Phases \ {"remember"}
    BY <1>2, <1>8, WhereItIs DEF Derive, TypeOK, Phases
  <2>2. q \in Request /\ q.phase # "remember"
    BY <2>1 DEF Request, Phases
  <2>3. request' # [request EXCEPT ![s] = q]
    BY <1>6, <2>2
  <2>4. QED
    BY <1>3, <1>4, <1>8, <2>1, <2>3 DEF Derive, Answer
<1>9. ASSUME NEW s \in Requests, NEW f \in RefundIds, createRefund(s, f) PROVE FALSE
  <2> DEFINE q == [request[s] EXCEPT !.subject = f, !.phase = "read"]
  <2>1. request[s] \in Request
    BY <1>9, WhereItIs DEF createRefund
  <2>2. q \in Request /\ q.phase # "remember"
    BY <2>1 DEF Request, Subjects, Phases
  <2>3. request' = [request EXCEPT ![s] = q]
    BY <1>9 DEF createRefund
  <2>4. QED
    BY <1>6, <2>2, <2>3
<1>10. ASSUME NEW s \in Requests, NEW o \in ProviderOrders, createOrder(s, o) PROVE FALSE
  BY <1>7, <1>10 DEF createOrder, At
<1>11. ASSUME NEW s \in Requests, Read(s)
       PROVE  /\ s = r /\ request[r] # None /\ GoesOn(r, "remember") /\ request[r].kind # "refund"
              /\ Recorded(request[r].subject)
  <2> DEFINE q == [request[s] EXCEPT !.seen = reference[request[s].reference], !.phase = "write"]
  <2>1. /\ request[s] # None /\ request[s] \in Request /\ reference[request[s].reference] \in Row
        /\ "unlock" \in Phases \ {"remember"}
    BY <1>2, <1>11, WhereItIs DEF Read, TypeOK, Phases
  <2>2. q \in Request /\ q.phase # "remember"
    BY <2>1 DEF Request, Phases
  <2>3. request' # [request EXCEPT ![s] = q]
    BY <1>6, <2>2
  <2>4. Goto(s, "remember") /\ Recorded(LedgerId(s))
    BY <1>3, <1>11, <2>1, <2>3 DEF Read
  <2>5. QED
    BY <1>7, <2>1, <2>4 DEF LedgerId
<1>12. ASSUME NEW s \in Requests, Write(s) PROVE FALSE
  BY <1>2, <1>12, WriteIsTyped DEF GoesOn, OthersStay
<1>13. ASSUME NEW s \in Requests, Commit(s)
       PROVE  /\ s = r /\ request[r] # None /\ GoesOn(r, "remember") /\ request[r].kind # "refund"
  BY <1>4, <1>7, <1>13 DEF Commit, Answer, At
<1>14. {"lock", "relookup", "recheck", "derive", "read", "unlock"} \subseteq Phases \ {"remember"}
  BY DEF Phases
<1>15. ASSUME NEW s \in Requests, Handle(s), ~Read(s), ~Commit(s) PROVE FALSE
  BY <1>3, <1>4, <1>8, <1>9, <1>10, <1>12, <1>14, <1>15
     DEF Handle, At, Answer, Lookup, AcquireLock, Relookup, Recheck, ProviderRefuses, Remember,
         Unlock
<1>16. ASSUME NEW s \in Requests, Crash(s) \/ TransactionFails(s) PROVE FALSE
  BY <1>3, <1>4, <1>14, <1>16 DEF At, Crash, TransactionFails
<1>17. QED
  BY <1>5, <1>11, <1>13, <1>15, <1>16
     DEF Next, Provider, vars, StartRefund, StartOrder, Deliver, LockExpires, AnswerExpires,
         AttemptPayment, DashboardRefund, RideAccepted,
         ReadRow, CommitRow, WriterFails

LEMMA DoneStaysRecorded == ASSUME Sound, DoneIsRecorded, [Next]_vars PROVE DoneIsRecorded'
<1> SUFFICES ASSUME NEW r \in Requests, At(r, "remember")',
                    request'[r].kind \in {"captured", "refunded"}
             PROVE  Recorded(request[r].subject)' \/ request'[r].reference \in Rides
  BY DEF DoneIsRecorded
<1>1. \A id : Recorded(id) => Recorded(id)'
  BY RecordedStays
<1>2. PICK id : id = request'[r].subject
  OBVIOUS
<1>3. Recorded(id)' \/ request'[r].reference \in Rides
  <2>1. CASE At(r, "remember") /\ request'[r] = request[r]
    BY <1>1, <1>2, <2>1 DEF DoneIsRecorded
  <2>2. CASE /\ request[r] # None /\ GoesOn(r, "remember") /\ request[r].kind # "refund"
             /\ Commit(r) \/ Recorded(request[r].subject)
    <3>1. /\ id = request[r].subject /\ request'[r].reference = request[r].reference
          /\ request'[r].kind = request[r].kind
      BY <1>2, <2>2 DEF GoesOn
    <3>2. PICK x : x = request[r].reference
      OBVIOUS
    <3>3. PICK kind \in {"captured", "refunded"} : kind = request[r].kind
      BY <3>1
    <3>4. CASE Commit(r)
      BY <3>1, <3>2, <3>3, <3>4, CommitDoes DEF References
    <3>5. QED
      BY <1>1, <2>2, <3>1, <3>4
  <2>3. QED
    BY <2>1, <2>2, DoneComesFrom
<1>4. QED
  BY <1>2, <1>3 DEF Recorded

LEMMA RememberedStays ==
  ASSUME Sound, RememberedInv, EventsHaveIds, [Next]_vars
  PROVE  RememberedSound' /\ RememberedIsRecorded'
<1>1. TypeOK /\ ProviderSound /\ ProviderGrows /\ DoneIsRecorded
      /\ RememberedSound /\ RememberedIsRecorded
  BY NextKeepsProvider DEF Sound, RememberedInv
<1>2. \A id : Recorded(id) => Recorded(id)'
  BY RecordedStays
<1>3. ASSUME NEW r \in Requests, Remember(r), request[r].kind \in {"captured", "refunded"}
      PROVE  /\ RedisKey(r) = <<request[r].kind, request[r].subject>>
             /\ request[r].kind = "captured" =>
                  request[r].subject \in PaymentIds /\ payment[request[r].subject] # None
             /\ request[r].kind = "refunded" =>
                  request[r].subject \in RefundIds /\ refund[request[r].subject] # None
             /\ \/ Recorded(request[r].subject)
                \/ OrderOf(PaymentOf(request[r].kind, request[r].subject)).reference \in Rides
  <2>1. /\ At(r, "remember") /\ AboutAnEvent(request[r])
    BY <1>3, WhereItIs DEF Remember
  <2>2. RedisKey(r) = <<request[r].kind, request[r].subject>>
    BY DEF RedisKey
  <2>3. Recorded(request[r].subject) \/ request[r].reference \in Rides
    BY <1>1, <1>3, <2>1 DEF DoneIsRecorded
  <2>4. request[r].reference = OrderOf(PaymentOf(request[r].kind, request[r].subject)).reference
    BY <1>3, <2>1 DEF AboutAnEvent, RefundPays, Pays, PaymentOf
  <2>5. QED
    BY <1>3, <2>1, <2>2, <2>3, <2>4 DEF AboutAnEvent, RefundPays, Pays
<1>4. ASSUME NEW k \in remembered', k[1] \in {"captured", "refunded"}
      PROVE  /\ k[1] = "captured" => k[2] \in PaymentIds /\ payment[k[2]] # None
             /\ k[1] = "refunded" => k[2] \in RefundIds /\ refund[k[2]] # None
             /\ Recorded(k[2]) \/ OrderOf(PaymentOf(k[1], k[2])).reference \in Rides
  <2>1. CASE k \in remembered
    BY <1>1, <1>4, <2>1 DEF RememberedSound, RememberedIsRecorded
  <2>2. ASSUME NEW r \in Requests, Remember(r), request[r].kind # "refund", k = RedisKey(r)
        PROVE  /\ k[1] = "captured" => k[2] \in PaymentIds /\ payment[k[2]] # None
               /\ k[1] = "refunded" => k[2] \in RefundIds /\ refund[k[2]] # None
               /\ Recorded(k[2]) \/ OrderOf(PaymentOf(k[1], k[2])).reference \in Rides
    <3>1. k[1] = request[r].kind
      BY <2>2 DEF RedisKey
    <3>2. QED
      BY <1>3, <1>4, <2>2, <3>1
  <2>3. QED
    BY <2>1, <2>2
       DEF Next, Handle, Provider, vars, redis, Lookup, AcquireLock, Relookup, Recheck, Derive,
           createOrder, createRefund, ProviderRefuses, Read, Write, Commit, Remember, Unlock,
           Crash, TransactionFails, StartRefund, StartOrder, Deliver, Start, LockExpires,
           AnswerExpires, AttemptPayment, DashboardRefund, RideAccepted,
         ReadRow, CommitRow, WriterFails
<1>5. ASSUME NEW k \in remembered', k[1] \in {"captured", "refunded"}
      PROVE  /\ k[1] = "captured" => payment'[k[2]] # None
             /\ k[1] = "refunded" => refund'[k[2]] # None
             /\ Recorded(k[2])' \/ OrderOf(PaymentOf(k[1], k[2]))'.reference \in Rides
  <2>1. PICK p : p = PaymentOf(k[1], k[2])
    OBVIOUS
  <2>2. p \in PaymentIds /\ payment[p] # None /\ PaymentOf(k[1], k[2])' = p
    BY <1>1, <1>4, <1>5, <2>1, WhatPaysStays
       DEF PaymentOf, TypeOK, ProviderRefund, ProviderSound
  <2>3. OrderOf(p)' = OrderOf(p)
    BY <1>1, <2>2, WhatPaysStays
  <2>4. OrderOf(PaymentOf(k[1], k[2]))' = OrderOf(p)
    BY <2>2, <2>3 DEF OrderOf
  <2>5. QED
    BY <1>1, <1>2, <1>4, <1>5, <2>1, <2>4, WhatPaysStays
<1>6. QED
  BY <1>4, <1>5 DEF RememberedSound, RememberedIsRecorded

LEMMA RememberedInductive == Sound /\ RememberedInv /\ [Next]_vars => RememberedInv'
BY DoneStaysRecorded, RememberedStays DEF RememberedInv

LEMMA RememberedInitially == Init => RememberedInv
BY DEF Init, RememberedInv, DoneIsRecorded, RememberedSound, RememberedIsRecorded, At

\* When events have ids, a webhook of an order or a top-up is remembered as
\* processed only once it is in the ledger, so that no later delivery is dropped
\* for one that failed.
THEOREM RememberedCorrect == Spec => [](EventsHaveIds => RememberedIsRecorded)
<1>1. RememberedInv => (EventsHaveIds => RememberedIsRecorded)
  BY DEF RememberedInv
<1>2. QED
  BY SoundInitially, SoundInductive, RememberedInitially, RememberedInductive, <1>1, PTL DEF Spec
=============================================================================
