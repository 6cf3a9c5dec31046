------------------------------- MODULE Payments -------------------------------
(***************************************************************************)
(* PaymentsService and FinanceService: creating provider orders, handling  *)
(* the provider's webhooks and refunding, against PostgreSQL (payment      *)
(* status, ledger, cached wallet balances) and Redis (idempotency and      *)
(* processed keys, locks that expire).                                     *)
(*                                                                         *)
(* A task is one HTTP request: an "order" (createPaymentOrder), a "refund" *)
(* by staff (createRefund), or the webhook "captured", "failed" or         *)
(* "refunded".  Every await is a step.  A transaction reads, then writes   *)
(* (taking the lock of the reference's row and summing the ledger, still   *)
(* invisible to others), then commits.  The payment provider is external:  *)
(* it sends an event as often as it likes, at least until a 2xx answer.    *)
(*                                                                         *)
(* One customer pays references of one partner: the owner of the store or  *)
(* the driver of the ride.  The payment columns have other writers, the    *)
(* handlers of the orders and the rides service that close an order or a   *)
(* ride: a writer copies the row, then writes over it what it computed     *)
(* from the copy.  Orders paid from the wallet (OrderLifecycle), jobs of   *)
(* couriers and home services (Bookings), signature checks and the         *)
(* development-only mock capture are left out.                             *)
(***************************************************************************)
EXTENDS Integers, Sequences, FiniteSets, FiniteSetsExt

CONSTANTS
  Orders,          \* references of type ORDER
  Rides,           \* references of type RIDE
  TopUps,          \* references of type WALLET_TOPUP
  IdempotencyKeys, \* keys of createPaymentOrder
  ProviderOrders,  \* ids the provider gives to orders,
  PaymentIds,      \* ... to payment attempts
  RefundIds,       \* ... and to refunds
  Requests,        \* requests handled together
  Writers,         \* requests to the orders and rides services among them
  Customer, Partner, NoUser,
  None,            \* NULL, or nothing there
  EventsHaveIds,   \* whether webhook bodies carry an id of their own
  Fare, Fee, Part, \* amounts: payable, cancellation fee, partial refund
  Faults           \* bounds: how often each of FaultKinds happens

\* Orders and staff refunds asked for, needless repeats of a webhook, crashes,
\* failed transactions, expired locks and answers, dashboard refunds, declined
\* payments, orders and rides that are cancelled or completed.
FaultKinds ==
  {"creates", "retries", "crashes", "failures", "expiries", "dashboard", "declines",
   "updates"}

ASSUME AmountsAssumption ==
  {Fare, Fee, Part} \subseteq Nat \ {0} /\ Fee < Fare /\ Part < Fare
ASSUME FaultsAssumption == Faults \in [FaultKinds -> Nat] /\ EventsHaveIds \in BOOLEAN

References == Orders \cup Rides \cup TopUps
Users == {Customer, Partner}
PaymentStatus == {"PENDING", "PAID", "FAILED", "REFUNDED", "CANCELLED"}
Kinds == {"order", "refund", "captured", "failed", "refunded"}
Webhooks == {"captured", "failed", "refunded"}
Phases == {"lookup", "lock", "relookup", "recheck", "derive", "provider", "read", "write",
           "commit", "remember", "unlock"}
\* open: the status of the order or ride still allows its writers to close it.
Row == [status : PaymentStatus, payable : {Fare, Fee}, payment : PaymentIds \cup {None},
        partner : {Partner, NoUser}, open : BOOLEAN]
LedgerEntry == [id : PaymentIds \cup RefundIds \cup {None}, user : Users,
                type : {"CREDIT", "REFUND"}, amount : Nat, reference : References]
Subjects == IdempotencyKeys \cup PaymentIds \cup RefundIds \cup {None}
RedisKeys == Kinds \X Subjects
Request == [ kind : Kinds, subject : Subjects, reference : References, phase : Phases,
             seen : Row \cup {None}, balance : Nat, ok : BOOLEAN ]
OrderUpdates == {"cancelOrder", "cancelStaleOrder"}
RideUpdates == {"cancelRide", "cancelRideWithFee", "completeRide"}
Update == [ kind : OrderUpdates \cup RideUpdates, reference : Orders \cup Rides, seen : Row,
            balance : Nat ]
ProviderOrder == [reference : References, amount : Nat, key : IdempotencyKeys]
Attempt == [order : ProviderOrders, outcome : {"captured", "failed"}]
ProviderRefund == [payment : PaymentIds, amount : Nat]

ASSUME NoneAssumption ==
  /\ None \notin Row \cup Update \cup ProviderOrder \cup Attempt \cup ProviderRefund
  /\ None \notin PaymentIds \cup RefundIds
ASSUME UsersAssumption == NoUser \notin Users
ASSUME ReferencesAssumption == Rides \cap (Orders \cup TopUps) = {}
ASSUME IdsAssumption == PaymentIds \cap RefundIds = {}

VARIABLES
  reference,     \* Order, Ride and WalletTopUp rows: the payment columns
  ledger,        \* LedgerEntry rows, in the order they were committed
  cachedBalance, \* User.walletBalanceCached
  remembered,    \* Redis keys that hold an answer
  locks,         \* Redis locks held
  request,       \* requests in flight, None if the slot is free
  writer,        \* updates in flight in the orders and the rides service
  providerOrder, \* provider: its orders
  payment,       \* provider: attempts to pay
  refund,        \* provider: refunds made
  acked,         \* history: webhooks answered with 2xx
  spent          \* bounds used so far

postgres == <<reference, ledger, cachedBalance>>
redis == <<remembered, locks>>
provider == <<providerOrder, payment, refund>>
vars == <<postgres, redis, request, writer, provider, acked, spent>>

TypeOK ==
  /\ reference \in [References -> Row]
  /\ ledger \in Seq(LedgerEntry)
  /\ cachedBalance \in [Users -> Nat]
  /\ remembered \subseteq RedisKeys /\ locks \subseteq RedisKeys
  /\ request \in [Requests -> Request \cup {None}]
  /\ writer \in [Writers -> Update \cup {None}]
  /\ providerOrder \in [ProviderOrders -> ProviderOrder \cup {None}]
  /\ payment \in [PaymentIds -> Attempt \cup {None}]
  /\ refund \in [RefundIds -> ProviderRefund \cup {None}]
  /\ acked \subseteq Webhooks \X Subjects
  /\ spent \in [FaultKinds -> Nat]

Init ==
  /\ reference = [x \in References |->
       [status |-> "PENDING", payable |-> Fare, payment |-> None,
        partner |-> IF x \in Orders THEN Partner ELSE NoUser, open |-> TRUE]]
  /\ ledger = <<>>
  /\ cachedBalance = [u \in Users |-> 0]
  /\ remembered = {} /\ locks = {}
  /\ request = [r \in Requests |-> None]
  /\ writer = [w \in Writers |-> None]
  /\ providerOrder = [o \in ProviderOrders |-> None]
  /\ payment = [p \in PaymentIds |-> None]
  /\ refund = [f \in RefundIds |-> None]
  /\ acked = {}
  /\ spent = [k \in FaultKinds |-> 0]

At(r, phase) == request[r] # None /\ request[r].phase = phase
Goto(r, phase) == request' = [request EXCEPT ![r].phase = phase]
FailTo(r, phase) == request' = [request EXCEPT ![r].phase = phase, ![r].ok = FALSE]
Spend(k) == spent[k] < Faults[k] /\ spent' = [spent EXCEPT ![k] = @ + 1]

\* The request is answered.  A webhook answered with 2xx is acknowledged.
Answer(r, ok) ==
  /\ request' = [request EXCEPT ![r] = None]
  /\ acked' = IF ok /\ request[r].kind \in Webhooks
              THEN acked \cup {<<request[r].kind, request[r].subject>>} ELSE acked

\* The payment an event or a refund is about, and its reference.
PaymentOf(kind, subject) == IF kind = "refunded" THEN refund[subject].payment ELSE subject
OrderOf(p) == providerOrder[payment[p].order]

\* The Redis key that makes a request idempotent: event.id or fallbackEventId,
\* which takes the payment's id even for a refund; the client's key for an order.
RedisKey(r) ==
  LET kind == request[r].kind
      subject == request[r].subject
  IN  IF kind = "order" \/ EventsHaveIds THEN <<kind, subject>>
      ELSE <<kind, PaymentOf(kind, subject)>>
-----------------------------------------------------------------------------
Start(r, kind, subject, x, phase) ==
  /\ request[r] = None
  /\ request' = [request EXCEPT ![r] =
       [ kind |-> kind, subject |-> subject, reference |-> x, phase |-> phase,
         seen |-> None, balance |-> 0, ok |-> TRUE ]]
  /\ UNCHANGED <<postgres, redis, writer, provider, acked>>

StartOrder(r, k, x) == Start(r, "order", k, x, "lookup") /\ Spend("creates")
StartRefund(r, x) == Start(r, "refund", None, x, "derive") /\ Spend("creates")

\* The provider sends an event that happened; one already acknowledged comes
\* again only as often as the bound allows.
Deliver(r, kind, subject) ==
  /\ IF kind = "refunded" THEN subject \in RefundIds /\ refund[subject] # None
     ELSE /\ subject \in PaymentIds /\ payment[subject] # None
          /\ payment[subject].outcome = kind
  /\ Start(r, kind, subject, OrderOf(PaymentOf(kind, subject)).reference, "lookup")
  /\ IF <<kind, subject>> \in acked \/ \E q \in Requests :
          request[q] # None /\ request[q].kind = kind /\ request[q].subject = subject
     THEN Spend("retries") ELSE UNCHANGED spent
-----------------------------------------------------------------------------
Lookup(r) ==
  /\ At(r, "lookup")
  /\ IF RedisKey(r) \in remembered THEN Answer(r, TRUE)
     ELSE Goto(r, "lock") /\ UNCHANGED acked
  /\ UNCHANGED <<postgres, redis, writer, provider, spent>>

\* A webhook that finds the lock taken answers "processing", with 2xx.
AcquireLock(r) ==
  /\ At(r, "lock")
  /\ IF RedisKey(r) \notin locks
     THEN /\ locks' = locks \cup {RedisKey(r)}
          /\ Goto(r, IF request[r].kind = "order" THEN "derive" ELSE "recheck")
          /\ UNCHANGED acked
     ELSE /\ IF request[r].kind = "order" THEN Goto(r, "relookup") /\ UNCHANGED acked
             ELSE Answer(r, TRUE)
          /\ UNCHANGED locks
  /\ UNCHANGED <<postgres, remembered, writer, provider, spent>>

\* createPaymentOrder after it lost the lock.
Relookup(r) ==
  /\ At(r, "relookup")
  /\ Answer(r, RedisKey(r) \in remembered)
  /\ UNCHANGED <<postgres, redis, writer, provider, spent>>

\* A webhook looks again once it has the lock.
Recheck(r) ==
  /\ At(r, "recheck")
  /\ Goto(r, IF RedisKey(r) \in remembered THEN "unlock" ELSE "read")
  /\ UNCHANGED <<postgres, redis, writer, provider, acked, spent>>

\* derivePaymentReference outside a transaction, and what each caller demands.
Derive(r) ==
  /\ At(r, "derive")
  /\ LET x == reference[request[r].reference] IN
       IF request[r].kind = "order"
       THEN IF x.status = "PAID" THEN FailTo(r, "unlock") /\ UNCHANGED acked
            ELSE /\ request' = [request EXCEPT ![r].seen = x, ![r].phase = "provider"]
                 /\ UNCHANGED acked
       ELSE IF x.status # "PAID" \/ x.payment = None \/ request[r].reference \in Rides
            THEN Answer(r, FALSE)
            ELSE /\ request' = [request EXCEPT ![r].seen = x, ![r].phase = "provider"]
                 /\ UNCHANGED acked
  /\ UNCHANGED <<postgres, redis, writer, provider, spent>>

createOrder(r, o) ==
  /\ At(r, "provider") /\ request[r].kind = "order"
  /\ providerOrder[o] = None
  /\ providerOrder' = [providerOrder EXCEPT ![o] =
       [ reference |-> request[r].reference, amount |-> request[r].seen.payable,
         key |-> request[r].subject ]]
  /\ Goto(r, "remember")
  /\ UNCHANGED <<postgres, redis, writer, payment, refund, acked, spent>>

Refunded(p) ==
  MapThenSumSet(LAMBDA f : refund[f].amount,
                {f \in RefundIds : refund[f] # None /\ refund[f].payment = p})

\* The provider refunds no more than it captured.
createRefund(r, f) ==
  /\ At(r, "provider") /\ request[r].kind = "refund"
  /\ refund[f] = None
  /\ LET p == request[r].seen.payment
         amount == request[r].seen.payable
     IN  /\ payment[p].outcome = "captured" /\ Refunded(p) + amount <= OrderOf(p).amount
         /\ refund' = [refund EXCEPT ![f] = [payment |-> p, amount |-> amount]]
         /\ request' = [request EXCEPT ![r].subject = f, ![r].phase = "read"]
  /\ UNCHANGED <<postgres, redis, writer, providerOrder, payment, acked, spent>>

\* The provider refuses, or cannot be reached: the exception ends the request.
ProviderRefuses(r) ==
  /\ At(r, "provider")
  /\ FailTo(r, "unlock")
  /\ UNCHANGED <<postgres, redis, writer, provider, acked, spent>>
-----------------------------------------------------------------------------
\* markPaymentCaptured, markPaymentFailed and recordRefund.

\* The ledger id a transaction looks for and inserts, and whether it is there.
LedgerId(r) == request[r].subject
Recorded(id) == \E n \in DOMAIN ledger : ledger[n].id = id

AmountOf(r) ==
  IF request[r].kind = "captured" THEN OrderOf(request[r].subject).amount
  ELSE refund[request[r].subject].amount

Read(r) ==
  /\ At(r, "read")
  /\ LET x == reference[request[r].reference]
         kind == request[r].kind
     IN  IF kind # "failed" /\ Recorded(LedgerId(r)) THEN Goto(r, "remember")
         ELSE IF kind = "captured" /\ AmountOf(r) # x.payable THEN FailTo(r, "unlock")
         ELSE request' = [request EXCEPT ![r].seen = x, ![r].phase = "write"]
  /\ UNCHANGED <<postgres, redis, writer, provider, acked, spent>>

\* Whom the transaction credits: the partner the reference had when it was
\* read, who a ride may not have yet; the customer for a top-up or a refund.
WrongBeneficiary(r) ==
  IF request[r].kind = "captured" THEN request[r].seen.partner ELSE NoUser

Beneficiary(r) ==
  IF request[r].kind = "failed" THEN NoUser
  ELSE IF request[r].kind = "captured" /\ request[r].reference \notin TopUps
       THEN request[r].seen.partner
       ELSE Customer

\* computeWalletBalanceInTx: CREDIT and REFUND entries add.
Balance(u) ==
  SumFunctionOnSet([n \in DOMAIN ledger |-> ledger[n].amount],
                   {n \in DOMAIN ledger : ledger[n].user = u})

RowLocked(x) == \E q \in Requests : At(q, "commit") /\ request[q].reference = x

\* @@unique([paymentId]) of LedgerEntry.
WrongLedgerIdFree(id) == id # None
LedgerIdFree(id) == ~Recorded(id)

\* The update waits for the row; an id taken since the read ends the transaction.
Write(r) ==
  /\ At(r, "write")
  /\ ~RowLocked(request[r].reference)
  /\ LET u == Beneficiary(r) IN
       IF u = NoUser THEN Goto(r, "commit")
       ELSE IF ~LedgerIdFree(LedgerId(r)) THEN FailTo(r, "unlock")
       ELSE request' = [request EXCEPT ![r].balance = Balance(u) + AmountOf(r),
                                       ![r].phase = "commit"]
  /\ UNCHANGED <<postgres, redis, writer, provider, acked, spent>>

StatusOf(kind) ==
  CASE kind = "captured" -> "PAID" [] kind = "failed" -> "FAILED" [] OTHER -> "REFUNDED"

\* updatePaymentStatus: no condition on the status; a ride keeps no payment id.
updatePaymentStatus(r) ==
  LET x == request[r].reference IN
    reference' = [reference EXCEPT
      ![x].status = StatusOf(request[r].kind),
      ![x].payment = IF x \in Rides THEN @ ELSE PaymentOf(
        IF request[r].kind = "refund" THEN "refunded" ELSE request[r].kind,
        request[r].subject)]

\* The ledger row, and reconcileWalletBalanceInTx with the sum read before.
WriteLedger(r) ==
  IF Beneficiary(r) = NoUser THEN UNCHANGED <<ledger, cachedBalance>>
  ELSE /\ ledger' = Append(ledger,
            [ id |-> LedgerId(r), user |-> Beneficiary(r), amount |-> AmountOf(r),
              type |-> IF request[r].kind = "captured" THEN "CREDIT" ELSE "REFUND",
              reference |-> request[r].reference ])
       /\ cachedBalance' = [cachedBalance EXCEPT ![Beneficiary(r)] = request[r].balance]

Commit(r) ==
  /\ At(r, "commit")
  /\ updatePaymentStatus(r)
  /\ WriteLedger(r)
  /\ IF request[r].kind = "refund" THEN Answer(r, TRUE)
     ELSE Goto(r, "remember") /\ UNCHANGED acked
  /\ UNCHANGED <<redis, writer, provider, spent>>

\* PostgreSQL refuses a statement or the connection drops: all rolled back.
WrongTransactionFails(r) ==
  /\ At(r, "read") \/ At(r, "write") \/ At(r, "commit")
  /\ Spend("failures")
  /\ Goto(r, "remember")
  /\ UNCHANGED <<postgres, redis, writer, provider, acked>>

TransactionFails(r) ==
  /\ At(r, "read") \/ At(r, "write") \/ At(r, "commit")
  /\ Spend("failures")
  /\ FailTo(r, "unlock")
  /\ UNCHANGED <<postgres, redis, writer, provider, acked>>
-----------------------------------------------------------------------------
\* setJson of the answer.  A refund by staff has none and ends at "remember"
\* only when its row was there.
Remember(r) ==
  /\ At(r, "remember")
  /\ IF request[r].kind = "refund" THEN Answer(r, TRUE) /\ UNCHANGED remembered
     ELSE /\ remembered' = remembered \cup {RedisKey(r)}
          /\ Goto(r, "unlock") /\ UNCHANGED acked
  /\ UNCHANGED <<postgres, locks, writer, provider, spent>>

\* The finally block: the lock goes, the answer is sent.  A refund by staff
\* that failed holds no lock.
WrongUnlock(r) ==
  /\ At(r, "unlock")
  /\ Answer(r, TRUE)
  /\ locks' = locks \ {RedisKey(r)}
  /\ UNCHANGED <<postgres, remembered, writer, provider, spent>>

Unlock(r) ==
  /\ At(r, "unlock")
  /\ Answer(r, request[r].ok)
  /\ locks' = IF request[r].kind = "refund" THEN locks ELSE locks \ {RedisKey(r)}
  /\ UNCHANGED <<postgres, remembered, writer, provider, spent>>

Crash(r) ==
  /\ request[r] # None
  /\ Spend("crashes")
  /\ request' = [request EXCEPT ![r] = None]
  /\ UNCHANGED <<postgres, redis, writer, provider, acked>>

LockExpires(k) ==
  /\ k \in locks
  /\ Spend("expiries")
  /\ locks' = locks \ {k}
  /\ UNCHANGED <<postgres, remembered, request, writer, provider, acked>>

\* Redis evicts or expires a remembered answer.
AnswerExpires(k) ==
  /\ k \in remembered
  /\ Spend("expiries")
  /\ remembered' = remembered \ {k}
  /\ UNCHANGED <<postgres, locks, request, writer, provider, acked>>
-----------------------------------------------------------------------------
\* The customer pays, or fails to: a provider order is captured at most once.
AttemptPayment(p, o, outcome) ==
  /\ payment[p] = None
  /\ providerOrder[o] # None
  /\ \A q \in PaymentIds : payment[q] # None => ~(payment[q].order = o /\ payment[q].outcome = "captured")
  /\ payment' = [payment EXCEPT ![p] = [order |-> o, outcome |-> outcome]]
  /\ IF outcome = "failed" THEN Spend("declines") ELSE UNCHANGED spent
  /\ UNCHANGED <<postgres, redis, request, writer, providerOrder, refund, acked>>

\* A partial refund made on the provider's dashboard.
DashboardRefund(f, p) ==
  /\ refund[f] = None
  /\ payment[p] # None /\ payment[p].outcome = "captured"
  /\ Refunded(p) + Part <= OrderOf(p).amount
  /\ Spend("dashboard")
  /\ refund' = [refund EXCEPT ![f] = [payment |-> p, amount |-> Part]]
  /\ UNCHANGED <<postgres, redis, request, writer, providerOrder, payment, acked>>

\* acceptRide: one guarded UPDATE.
RideAccepted(x) ==
  /\ ~RowLocked(x)
  /\ reference[x].open /\ reference[x].partner = NoUser
  /\ reference' = [reference EXCEPT ![x].partner = Partner]
  /\ UNCHANGED <<ledger, cachedBalance, redis, request, writer, provider, acked, spent>>

\* The writers' transactions: the row as they find it, and their checks.
MayUpdate(kind, x) ==
  /\ reference[x].open
  /\ kind \in OrderUpdates => x \in Orders
  /\ kind \in RideUpdates => x \in Rides
  /\ kind = "cancelStaleOrder" => reference[x].status = "PENDING"
  /\ kind \in {"cancelRideWithFee", "completeRide"} => reference[x].partner = Partner

\* refundOrderIfNeeded goes by the status that was read.
GivesBack(u) == u.kind = "cancelOrder" /\ u.seen.status = "PAID"

\* The row is read, and the ledger summed for what will be given back.
ReadRow(w, kind, x) ==
  /\ writer[w] = None
  /\ MayUpdate(kind, x)
  /\ Spend("updates")
  /\ writer' = [writer EXCEPT ![w] =
       [kind |-> kind, reference |-> x, seen |-> reference[x], balance |-> Balance(Customer)]]
  /\ UNCHANGED <<postgres, redis, request, provider, acked>>

\* The UPDATE by id, whatever the row holds by then.  cancelRide marks the fee of
\* a ride that is paid online PAID and writes no ledger row for it; completeRide
\* writes the payment status back that it read.
UpdatedRow(u, row) ==
  CASE u.kind = "cancelOrder" ->
         [row EXCEPT !.status = IF u.seen.status = "PAID" THEN "REFUNDED" ELSE "CANCELLED",
                     !.open = FALSE]
    [] u.kind \in {"cancelStaleOrder", "cancelRide"} ->
         [row EXCEPT !.status = "CANCELLED", !.open = FALSE]
    [] u.kind = "cancelRideWithFee" ->
         [row EXCEPT !.status = "PAID", !.payable = Fee, !.open = FALSE]
    [] u.kind = "completeRide" ->
         [row EXCEPT !.status = u.seen.status, !.payable = Fare, !.open = FALSE]

\* The ledger row of a cancellation has no paymentId.
CancelEntry(u) ==
  [ id |-> None, user |-> Customer, type |-> "REFUND", amount |-> u.seen.payable,
    reference |-> u.reference ]

CommitRow(w) ==
  /\ writer[w] # None
  /\ LET u == writer[w] IN
       /\ ~RowLocked(u.reference)
       /\ reference' = [reference EXCEPT ![u.reference] = UpdatedRow(u, @)]
       /\ IF GivesBack(u)
          THEN /\ ledger' = Append(ledger, CancelEntry(u))
               /\ cachedBalance' = [cachedBalance EXCEPT ![Customer] = u.balance + u.seen.payable]
          ELSE UNCHANGED <<ledger, cachedBalance>>
  /\ writer' = [writer EXCEPT ![w] = None]
  /\ UNCHANGED <<redis, request, provider, acked, spent>>

\* A writer's transaction fails, or its process dies: all rolled back.
WriterFails(w) ==
  /\ writer[w] # None
  /\ writer' = [writer EXCEPT ![w] = None]
  /\ UNCHANGED <<postgres, redis, request, provider, acked, spent>>
-----------------------------------------------------------------------------
Handle(r) ==
  \/ Lookup(r) \/ AcquireLock(r) \/ Relookup(r) \/ Recheck(r) \/ Derive(r)
  \/ \E o \in ProviderOrders : createOrder(r, o)
  \/ \E f \in RefundIds : createRefund(r, f)
  \/ ProviderRefuses(r)
  \/ Read(r) \/ Write(r) \/ Commit(r) \/ Remember(r) \/ Unlock(r)

Provider ==
  \/ \E p \in PaymentIds, o \in ProviderOrders, outcome \in {"captured", "failed"} :
       AttemptPayment(p, o, outcome)
  \/ \E f \in RefundIds, p \in PaymentIds : DashboardRefund(f, p)

Next ==
  \/ \E r \in Requests :
       \/ Handle(r) \/ Crash(r) \/ TransactionFails(r)
       \/ \E x \in References :
            StartRefund(r, x) \/ \E k \in IdempotencyKeys : StartOrder(r, k, x)
       \/ \E kind \in Webhooks, subject \in PaymentIds \cup RefundIds : Deliver(r, kind, subject)
  \/ Provider
  \/ \E k \in RedisKeys : LockExpires(k) \/ AnswerExpires(k)
  \/ \E x \in Rides : RideAccepted(x)
  \/ \E w \in Writers :
       \/ CommitRow(w) \/ WriterFails(w)
       \/ \E kind \in OrderUpdates \cup RideUpdates, x \in Orders \cup Rides : ReadRow(w, kind, x)

Spec == Init /\ [][Next]_vars

\* Running handlers go on, and the provider repeats an event until a 2xx answer.
FairSpec ==
  /\ Spec
  /\ \A r \in Requests : WF_vars(Handle(r))
  /\ \A kind \in Webhooks, subject \in PaymentIds \cup RefundIds :
       WF_vars(<<kind, subject>> \notin acked /\ \E r \in Requests : Deliver(r, kind, subject))
-----------------------------------------------------------------------------
Entries(x, type) == {n \in DOMAIN ledger : ledger[n].reference = x /\ ledger[n].type = type}

\* However often a webhook is replayed and whoever else refunds at the same
\* time, a payment or a refund of the provider changes the ledger once, by its
\* amount; and a cancellation gives back only what was captured before.
LedgerChangedOnce ==
  \A n \in DOMAIN ledger :
    IF ledger[n].id = None
    THEN Entries(ledger[n].reference, "CREDIT") # {}
    ELSE /\ \A m \in DOMAIN ledger : ledger[m].id = ledger[n].id => m = n
         /\ IF ledger[n].type = "CREDIT"
            THEN /\ payment[ledger[n].id].outcome = "captured"
                 /\ ledger[n].amount = OrderOf(ledger[n].id).amount
            ELSE ledger[n].amount = refund[ledger[n].id].amount

Pays(p, x) == payment[p] # None /\ OrderOf(p).reference = x
PaidOnce(x) == \A p, q \in PaymentIds : Pays(p, x) /\ Pays(q, x) => p = q
Declined(x) == \E p \in PaymentIds : Pays(p, x) /\ payment[p].outcome = "failed"

\* The payment status of an order or a top-up and its ledger rows tell the same
\* story, with two exceptions that the code makes: the late report of a declined
\* attempt, or a cancellation that read the row before the capture, hides a
\* payment that is in the ledger.  PAID and REFUNDED are backed in any case.
StatusMatchesLedger ==
  \A x \in Orders \cup TopUps :
    /\ reference[x].status = "PAID" => Entries(x, "CREDIT") # {}
    /\ reference[x].status = "REFUNDED" => Entries(x, "REFUND") # {}
    /\ Entries(x, "CREDIT") # {} /\ reference[x].open /\ ~Declined(x) =>
         reference[x].status \in {"PAID", "REFUNDED"}

\* An acknowledged webhook is recorded, or a request is still at it.
AckedIsRecorded ==
  \A e \in acked : e[1] \in {"captured", "refunded"} =>
    \/ Recorded(e[2])
    \/ \E r \in Requests : request[r] # None /\ request[r].kind = e[1] /\ request[r].subject = e[2]

\* A webhook of an order or a top-up is remembered as processed only once it is
\* in the ledger: no later delivery is dropped for one that failed.
RememberedIsRecorded ==
  \A k \in remembered : k[1] \in {"captured", "refunded"} =>
    Recorded(k[2]) \/ OrderOf(PaymentOf(k[1], k[2])).reference \in Rides

\* What was given back, by staff, by the provider or by a cancellation, is not
\* taken for paid again: replays and late copies of the capture and stale copies
\* of the row come and go.  (A second payment of the reference does make it PAID,
\* and a refund from the dashboard may come before the capture it refunds.)
RefundIsFinal ==
  spent["dashboard"] = 0 =>
    \A x \in Orders \cup TopUps : Entries(x, "REFUND") # {} /\ PaidOnce(x) =>
      reference[x].status \in {"REFUNDED", "CANCELLED"}

\* Every payment and refund of an order or a top-up that the provider reports gets
\* into the ledger in the end, though transactions fail on the way.  (A ride may be
\* paid before a driver accepts it, with nobody to credit, or end with a fee, which
\* is not what was paid.)
EventSettles ==
  /\ \A p \in PaymentIds :
       (payment[p] # None /\ payment[p].outcome = "captured" /\ OrderOf(p).reference \notin Rides)
         ~> Recorded(p)
  /\ \A f \in RefundIds : (refund[f] # None) ~> Recorded(f)
=============================================================================
