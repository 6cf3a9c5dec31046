# MoveX: a TLA+ verification project

MoveX is a TypeScript monorepo for a super-app: marketplace orders (food, grocery,
pharmacy), rides, couriers, home services, a wallet and provider payments. One NestJS
API (`src/backend/api`) runs in any number of processes against PostgreSQL (Prisma) and
Redis; a worker (`src/backend/workers`) drains an outbox; a Next.js site calls the API.
`src/packages/shared` holds the status machines and the request schemas.

This directory models the part of it where order of steps matters: several API processes,
a timer, the outbox workers and two providers reading and writing the same rows with
nothing but PostgreSQL's READ COMMITTED (once SERIALIZABLE) and Redis keys that expire
between them.

    StatusMachines <-- OrderLifecycle <-- MCOrderLifecycle (TLC), OrderLifecycleProofs (TLAPS)
                   <-- Bookings       <-- MCBookings       (TLC), BookingsProofs       (TLAPS)
                       Checkout       <-- MCCheckout       (TLC), CheckoutProofs       (TLAPS)
                       Payments       <-- MCPayments       (TLC), PaymentsProofs       (TLAPS)
                       Payouts        <-- MCPayouts        (TLC), PayoutsProofs        (TLAPS)
    Sessions       <-- Partners       <-- MCPartners       (TLC), PartnersProofs       (TLAPS)
    Stores         <-- Outbox         <-- MCOutbox         (TLC), OutboxProofs         (TLAPS)
    Delivery       <-- Outbox (by INSTANCE: Outbox implements Delivery)
    SumTheorems    <-- CheckoutProofs, PaymentsProofs, PayoutsProofs

Two modules compose others: `Outbox` runs the store edits of `Stores` next to the workers
that index them, `Partners` runs the document and review handlers inside the requests of
`Sessions`. Run the checks with `tlc -config X.cfg MCModule` and the proofs with `tlapm M.tla`.

## Inventory

API paths are under `src/backend/api/src/`.

| Component | State | Operations | What is hard |
|---|---|---|---|
| Status machines (`packages/shared/src/state-machines.ts`) | none | `canTransition` over four tables | nothing; everything else relies on it |
| Order lifecycle (`modules/orders/orders.service.ts`, `order-maintenance.scheduler.ts`) | `Order` row (status, timeline, payment status, prescription and items as JSON, partner), ledger, outbox, stock | store and delivery transitions, accept delivery, cancel, auto-cancel timer, prescription verdict, propose and decide substitutions, rate | check-then-write on one row by requests, the timer, and the payment webhooks |
| Cart and checkout (same service, `marketplace.service.ts` `adjustStock`) | Redis cart, lock and answer of a key; stock, coupon counter, order and ledger rows | cart endpoints, `checkout` | repeated and concurrent requests, lock expiry, crash after commit, last unit, last coupon |
| Payments and finance (`modules/payments/*`) | payment columns, ledger, cached balance; Redis keys and locks; the provider's own records | `createPaymentOrder`, `createRefund`, webhooks captured, failed, refunded | duplicates, reordering, acknowledgement before recording, failing transactions |
| Redis store (`infrastructure/redis/redis-store.service.ts`) | keys with expiry, sets, geo, an in-memory fallback | get, set, `SET NX`, increment | a process that falls back to its own memory |
| Rides, courier, home services (`modules/rides/rides.service.ts`) | one row per booking with a version and a handoff code | create, accept, arrive, start, complete, cancel, rate | guarded accept, unguarded transitions, fee from an old read |
| Wallet, payouts, reconciliation (`modules/finance/finance-surface.service.ts`) | payouts, settled flags of ledger entries, idempotency record, the provider's transfers | `adjustWallet`, `sweepPayouts` (Serializable, three attempts), `markPayout`, `queuePayout` | overlapping and repeated sweeps, a death between commit and transfer, double transfer |
| Outbox and worker (`modules/outbox`, `backend/workers`) | outbox rows with attempts; Redis locks and done keys; notification rows; search index | publish with the change, process a batch, three handlers per event, up to ten attempts | at-least-once handling, expired lock, partly handled event, syncs out of order |
| Stores (`modules/marketplace/marketplace.service.ts`) | `Store` and `MenuItem` rows | create, update, open and close, menu edits, request approval, review, suspend | a review that races the owner's edits; the event written after the change |
| Sessions and OTP (`modules/identity`) | session rows, Redis copies of session and user, OTP challenges | login, resolve, touch, rotate, logout, revoke all, ban | a cached copy that outlives a revocation or shows an old user |
| Partner documents and approval (`partner-documents.service.ts`, `users.service.ts`) | document rows, object store, verification, the user's approval | upload, remove, submit, review | table against object store, concurrent versions, a review in three writes |
| Reviews and ratings | ratings, aggregate per store and partner | rate | lost update of the aggregate |
| Profiles, addresses, search queries, trust, platform, ops, realtime, maps, HTTP guards, web frontend | single rows, none, or a provider's | edits, queries, pass-through | no protocol of their own |

How they meet: `checkout` creates the row that the order handlers and the webhooks then
change; a cancellation writes the ledger that payments and payouts read; a review of a
partner decides whose payouts a sweep can make, and closes sessions; a booking's
partner is the beneficiary of its capture; `paymentStatus` is written by checkout, cancel,
auto-cancel, the cancellation and completion of rides and all three webhooks; the rating of an
order changes the store that the search index shows; every status change writes an outbox
row in its transaction; each lock is a Redis key that anyone may delete.

What makes each correct: statuses follow their machine and every row's history agrees with
its status; goods and money of a cancelled order return once; nothing is sold, discounted or
spent beyond its limit; one idempotency key, one order; one payment, one ledger entry;
whatever is acknowledged is recorded; locks are given back; open work is finished; a
revoked session or a banned user is refused; what is earned is paid out once; an event is
settled only when everybody has been told.

`PROJECT.json` lists every hazard with its line and the properties that address it, or why
none does yet.

## What the modules model

### OrderLifecycle

`order` is the `Order` table, `request` the handlers between read and write, `ledger` the
`LedgerEntry` rows of an order counted by what they record, `referral` the `Referral` row,
`restocked` the calls of `restoreOrderStock`, `announced` the outbox events.

A handler is two steps, because READ COMMITTED makes it two: *Read...* copies the row and
passes the checks, *Commit...* writes the handler's columns from the copy. So
`transitionStoreOrder` is `ReadStoreTransition` then `CommitStoreTransition`, and `cancelOrder`
is `ReadCancel` then `CommitCancel`, which restores stock, refunds according to the payment
status that was *read*, and writes status, timeline, payment status and outbox event in one
transaction. `acceptDeliveryOrder` is one step, being one guarded `updateMany`. The webhooks
appear as the three column writes they make on an order; `Payments` has them in full.
`createPaymentOrder` asks for no payment method, so an order of any method can be paid online
unless it is PAID. Loyalty is written only when the points of the total do not round to 0
(`earns`), a referral may not exist. What
the handlers compute from a stale copy (`timeline`, `pay`, `items`, `prescription`) is
taken from the copy; what they leave alone (partner) is taken from the table.
`Rollback` drops any request in flight, as a failing transaction or a dying process does.

### Checkout

Every await of `checkout` is a step: look up the answer, take the lock, (look up again if it
is taken), read the cart, quote, place, remember the answer, clear the cart, unlock. The
transaction is `Quote` (the reads of `buildCheckoutQuote`) and `PlaceOrder` (the guarded
stock and coupon updates, the inserts); `FailToPlace` is any reason it rolls back. The
`finally` is `Unlock`, which deletes the lock whoever holds it. `Crash`, `LockExpires` and
`FillCart` happen in between. Prices are unit prices, so that a wrong sum shows.

### Payments

A task is one HTTP request at a phase, one phase for each await. A transaction is `Read`
(find the ledger row, derive the reference), `Write` (take the row lock, check the unique
id, sum the ledger) and `Commit` (status, ledger row, cached balance). The provider is external:
it creates orders and refunds when asked, records attempts to pay, and delivers a webhook until
it gets a 2xx answer, and then perhaps again. The orders and the rides service write the same
columns: `RideAccepted` is one guarded update; a `writer` is any other of their handlers
between `ReadRow` and `CommitRow`, that is `cancelOrder`, `cancelStaleOrder`, `cancelRide` with
or without a fee, or a ride's completion, which writes back the payment status it read.

### Bookings

Rides, courier jobs and home-service jobs are three copies of one design in `rides.service.ts`;
here they are one table whose `service` says where they differ: who is charged at completion
(a cash ride is not written to the ledger, a cash job is), a cancellation's fee (rides only),
and what a cancelled payment becomes. Read and Commit are as in `OrderLifecycle`; a
cancellation has a third step in front, `ReadCancel`, the read outside the transaction that
the fee comes from. `create` and `accept` are one step each, `ReadRating` and `CommitRating`
the aggregate's read-modify-write under the unique review. `overwrote` remembers the
bookings written from a copy whose status had moved on. A booking of any method can be paid
online (`createPaymentOrder`, `PaymentWebhook`), as neither asks for the method; `captured`
remembers those that were. `deliverOrder` is the orders service crediting the same referral.

### Stores, Outbox and Delivery

`Stores` is one partner's store. `updateMyStore` and opening are a Read and a Commit step, for
they decide by the approval they read (`updateMyStore` even writes it back); the others write
constants. Each ends with an `enqueue` step, because `enqueueStoreSearchSync` is a write of its
own, before which the process may die (`lost`). `applyStoreRating`, a part of `rateOrder`, reads
and writes the rating that the search document shows, and enqueues nothing (`rated`).

`Outbox` is the table and the workers of `backend/workers`. A worker goes through the phases of
`processEvent`, one for each await: take the lock, count the attempt, then for each handler
check the done key, do its work (find, create and send a notification; publish; drop, which may
fail unnoticed, read and write the index), mark it done; finish; unlock. `fail` is the catch block at any of them,
`crash` the death of the process, `expireLive` the lock's TTL running out under a slow worker. It
EXTENDS `Stores`, whose edits publish the events it indexes.

`Delivery` says in three actions what the outbox promises: publish, deliver to a channel any
number of times, settle only after all channels were reached. `Outbox` instantiates it with
`published` and `settled` computed from the table; `Delivers == D!Spec` is the refinement.

### Sessions and Partners

`Sessions` has the rows, the copies in Redis, each of which holds the *user* as it was when
cached, and requests that go through `resolveToken` before their handler: `lookup`,
`findActiveSession`, `cacheSession`, and then the handler with the copy it found in `seen`.
`createSession`, `revokeToken` and `revokeAllForUser` are as many steps as they have awaits
(`insert`, `cache`; `revoke`, `drop`; `collect`, `revokeAll`, `drop`).

`Partners` adds the handlers of a partner's verification, which run with that `seen`, so a stale
copy decides whether documents may be edited. A document row is named by its object. An
upload is `findLatest`, `putObject`, `supersede`, `createDocument` or `undoUpload`; a
review `reviewPartner`, `reviewVerification`, `reviewDocuments` and the revocation.

### Payouts

Entries and payouts are numbered as they are made; an entry is worth 1 and a payout what it
sums up. The sweep's serializable transaction is `ReadSweep` (snapshot) and `CommitSweep`, which
requires that the rows it read are unchanged and the key's record absent; otherwise
`RetrySweep` starts again, three times in all. After the commit `tasks` has one `queuePayout`
for each payout, in any order: read, send, write. `markPayout` reads and then notes, queues or
inspects. `sent` counts transfers at the provider, which the database does not know.

### StatusMachines

The four tables as sets of pairs, `canTransition`, and `LegalPath`, a history that takes only
allowed steps. The three booking tables are one with a different busy status.

## Runs

All runs finish within four minutes on two workers.
`CHECK_DEADLOCK FALSE` everywhere: requests are bounded, and a system that has served them
all stops. `TypeOK` of each module was checked on these instances and is proved for every
instance; the runs leave it out.

| Run | Instance | Shows |
|---|---|---|
| `order_races` | one order (pharmacy paid online, or food paid by wallet and then perhaps online too), two requests at a time, six in all, a timer, two partners, one payment order; 7.4 million states | what survives every race: timelines are legal and announced, a handoff has a partner who never changes, a cancelled order gave its stock back, REFUNDED has a ledger entry, an accepted prescription was verified at some time, a delivery is rewarded once |
| `order_stale` | a cash or online order, timer, one request at a time, two payment orders, fair; 39 thousand states | an order that stays unpaid does not stay PLACED |
| `order_status_race` | two requests | *disagreement 1* |
| `order_substitutions` | a cash grocery order, two requests at a time | *disagreement 2* |
| `checkout` | two customers, two units of an item, one coupon use, one key each, three checkouts, one crash, refill and expiry, fair; 1.2 million states | stock, coupon counter and wallet ledger are exact; every answer is the client's own order; one order per key unless a lock expired or a cart was refilled; every lock is given back unless a process died |
| `payments_replay` | one order, two attempts to pay it of which one may be declined, its refund by staff and by webhook, one cancellation by a user or the timer from an old read; a repeat, a crash, a failed transaction, an expired key; 7.7 million states | the ledger changes once per provider id, a cancellation gives back only what was captured, status and ledger agree but for captures that (d) and (v) below hide, only recorded events are remembered, a refund is final |
| `payments_settle` | one order, one top-up and one ride with a late driver, one writer of order or ride, a dashboard refund, a decline, a failing transaction, fair; 1.0 million states | every payment and refund of order and top-up reaches the ledger; none of them, nor the ride's, twice |
| `payments_processing_ack` | one order, a crash, a repeat | *disagreement 3* |
| `booking_races` | a booking of any service and method, two partners, two requests at a time, eight in all, two payment orders; 3.2 million states | what a wallet pays reaches the partner; rewards are paid once and ratings not doubled; wrong charges and illegal statuses come from stale copies alone |
| `outbox` | two workers, two events, batches of two, two attempts, failures at will; two store edits or ratings at once, two notices, an edit next to a rebuild, or an event of either kind with a crash and an expired lock; fair; 1.6 million states | events are settled only after they got out (refinement), attempts are bounded and used up or succeed, one notification row per event, the index ends up as the store is but for ratings after the last edit, open stores are reviewed ones |
| `partners` | one user, two sessions, two objects, two requests at a time, four in all, each may die at every step; 4.1 million states up to symmetry | a revoked session has no copy and a copy shows no overruled user, except after the races named; a finished review is whole; one live document; table and object store agree |
| `payouts` | two partners, two entries, one key, two requests, repeated sweeps not counted, two aborts, failures or deaths, fair; 1.1 million states | no entry is paid twice or settled unpaid; one set of payouts per key; a payout is transferred once, except those read while another request had them in hand; a sweep repeated with its key finishes what the first left |

**Why the bounds are enough.** The races found are between two writers of one row, so two
requests in flight plus the timer and the webhooks meet; the shortest path to a delivery takes
five requests and the sixth races it. Two checkouts contend for a key, a unit, a coupon or a
balance; a third meets what they left. A lock is lost once by crash or expiry: each further
loss repeats the same situation. Orders of different rows share only the customer's referral,
which `CommitDelivery` checks and writes after it has the row, and the beneficiary's
balance. Three requests complete a
booking, so eight complete it and race its completion, cancellation and both ratings; what
another ride or an order of the customer shares with it is the referral, which `deliverOrder`
credits at any time. Two payment orders can be for the fare and for a fee, or one of them fail.
The order of `payments_replay` and the ride of `payments_settle` are apart because nothing but the
partner's balance joins them. Every bound is a CONSTANT
(`MaxRequests`, `MaxOffers`, `MaxCheckouts`, `MaxRefills`, `MaxCrashes`, `MaxExpiries`, `Faults`,
`MaxFaults`, `MaxEntries`, `MaxEvents`, `Budgets`) and is checked in the guard it limits. Two
workers meet over one event and pass each other over two; `Budgets` splits the outbox's
instance into scenarios, each with one kind of trouble at full depth. Two sweeps overlap each
other or one repeats the other, over entries of one partner or of two. An upload takes five
steps and a review four, so two requests at a time interleave in every way; the two before
them set the scene (an approval, a document, a login). Symmetry is used only in runs without liveness and only
over identities nothing orders.

**Fairness.** `OrderLifecycle!FairSpec`: the scheduler fires every interval, so its read
happens again and again while an order is stale, although payments may disable it in between;
its commit may fail but not each time (strong fairness). Nothing is assumed of requests.
`Checkout!FairSpec`: a handler that runs goes on (weak); clients need not retry, locks need
not expire, and `LockIsReleased` promises nothing once a process died. `Payments!FairSpec`: handlers
go on, and the provider repeats an event until it is acknowledged (weak); failing
transactions are bounded by `Faults`, that is, they fail finitely often.
`Outbox!FairSpec`: a worker polls and goes on (weak; `index.ts` loops for ever and a
supervisor restarts it), the key of a dead worker expires, and some worker gets to count an
attempt again and again (strong), as the update is only refused while the database is away.
Handlers may fail every time: an event then uses up its attempts. `Payouts!FairSpec`: handlers
that have started go on (weak), and nobody has to start one: `RepeatFinishesSweep` says what a
repetition achieves if it comes, not that it comes (w).

**What the properties leave open.** Where the code breaks a promise, the property excepts exactly
that: `OneOrderPerKey` a refilled cart (c below) or an expired lock; `StatusMatchesLedger` orders
with a declined attempt (d) and, for a capture behind CANCELLED, closed ones (v);
`RefundIsFinal` a second payment (f) and dashboard refunds, which can come before the capture;
`EventSettles` of payments rides (e); `WalletMoneyArrives` bookings that were captured online,
for which nothing is debited until they complete (x); `ChargedExactly` a stale copy
(`overwrote`, j); `OneNotification` a lock that expired under a worker (`overlapped`); `IndexFresh`
that, a lost event (`lost`, t), two workers between query and write (u), and of the document the
rating if one came after the last edit (`rated`, y); `OpenStoresAreReviewed` a handler that wrote
after its approval changed (`overtaken`, m); `RevokedIsRefused` and `NoStaleAccess` copies written
late (`raced`, n); `ReviewIsWhole` a torn review (`torn`, o); `OneLiveDocument` a removal during an
upload (`deletedAmid`); `TransferredOnce` and `RepeatFinishesSweep` the payouts in `excused` (q).
Dropping an exception, or raising a bound of zero, shows the failure.

## Where code and text disagree

Checked by a run each:

1. `order_status_race`: `transitionStoreOrder` checks the status it read and then updates by
   id (orders.service.ts:736), so a cancelled order becomes ACCEPTED; the test of the shared
   package says that cannot be. `TimelinesAreLegal` shows how far it goes: the
   row is overwritten with a history that is consistent with itself.
2. `order_substitutions`: `proposeSubstitutions` writes the items by id after checks on an older
   read (orders.service.ts:501). When a pickup checks the items in between and commits after it,
   the order is handed over with an undecided substitution, which 1304 says needs a decision
   "before this handoff".
3. `payments_processing_ack`: a webhook that meets the lock of a dead attempt is answered with
   2xx (payments.service.ts:204) and nobody records it.

Seen in the models while they were written, without a run:
(a) a second coupon order passes `perUserLimit` if it counts before the first is inserted (955);
(b) a crash between commit and `setJson` (395) lets the retry order again;
(c) `checkout` does not look up the key again after taking the lock (297), and neither does
`createPaymentOrder` (payments.service.ts:67);
(d) `markPaymentFailed` overwrites PAID when an earlier attempt's webhook comes late
(finance.service.ts:234);
(e) a ride paid before a driver accepts is PAID with no ledger row (193);
(f) two provider orders of one reference can both be captured (176);
(g) two refunds of a payment share `fallbackEventId` (payments.service.ts:301);
(h) a refund is paid out by the provider and credited to the wallet as well (262);
(i) a decision on substitutions is stored over a later proposal, which it does not know
(orders.service.ts:526);
(j) two completions of a booking that race (a repeated tap of the partner) both write the
payment ledger, whose rows have no unique id, and charge the customer twice
(rides.service.ts:758); `ChargedExactly` holds only because it excepts the bookings that a
stale copy was written over;
(k) a paid online courier or home-service booking is marked REFUNDED when it is cancelled,
and a paid ride CANCELLED, with no refund in the ledger or at the provider (287, 644);
(l) a wallet booking sets nothing aside: two can be made with one balance (104), and two
checkouts with different keys spend one balance twice (orders.service.ts:896);
(m) `updateMyStore` writes the approval it read over a review made meanwhile, and
`setMyStoreOpen` opens a store that was just rejected (marketplace.service.ts:135, 148);
(n) a request that resolves or touches a session while it is revoked puts its copy back, and
the session works until the copy expires (session.service.ts:80, 95); a session opened between
the query and the update of `revokeAllUserSessions` keeps its copy (identity.repository.ts:523);
(o) a review that dies after its first write leaves a user approved whose verification is
not (users.service.ts:444), so a partner gets work and no payout;
(p) documents can be changed under review, for `assertDocumentsEditable` looks at a copy that a
submission does not refresh (partner-documents.service.ts:313);
(q) two `queuePayout` calls, or one whose answer was lost, transfer a payout twice, and
`markPayout` with a status and no reference erases one written meanwhile
(finance-surface.service.ts:369, 202);
(r) a repeated sweep answers without `duplicate`, for the record holds only the payouts (118);
one partner without an approved verification fails a sweep of all (400); cash fares are
paid out again, and refunds are not deducted (122);
(s) of two captures that credit one user, the later overwrites the cached balance with a sum
that misses the earlier, for `reconcileWalletBalanceInTx` sums before it locks
(finance.service.ts:296);
(t) an edit whose process dies before `enqueueStoreSearchSync` never reaches the search
index (marketplace.service.ts:140), nor does an event that used up its attempts;
(u) two syncs of a store can write the older document last (search-indexer.ts:75);
(v) a cancellation that read PENDING and commits after a capture leaves the order CANCELLED
with the capture in the ledger and no refund (orders.service.ts:640, 787), and staff cannot
refund it, because `createRefund` demands PAID;
(w) the payouts of a sweep whose process dies before `queuePayout` stay PENDING until staff send
each with `markPayout`: nothing looks for them, and the console makes a new key for every sweep
(frontend/web/src/components/ops/finance-pages.tsx:69);
(x) an order or booking to be paid in cash or from the wallet can be paid online as well, and its
completion charges it all the same (payments.service.ts:86, rides.service.ts:774);
(y) the rating of an order reaches the search index only with the next edit of its store
(orders.service.ts:1487).

## Proofs

Every invariant and action property that a passing run checks is also a theorem, for every
value of the constants and with the same exceptions (one, `RememberedIsRecorded`, under a
hypothesis): any number of orders, customers, workers, requests in flight and
faults. All have one shape: an invariant strong enough to be inductive, lemmas that sum up
what each action does, and a preservation proof from these summaries.

### OrderLifecycleProofs

- `TypeCorrect`: `Spec => []TypeOK`. `ReadKeepsTypes` treats the seven ways to read,
  `CommitKeepsTypes` the seven commits, `DirectWriteKeepsTypes` the one-step writes; they
  rest on what the shared operators do (`WriteStatusEffect`, `HoldEffect`, `ReleaseEffect`).
- `TimelinesAreLegal`: `TimelineLegal` is not inductive: a
  commit writes the copy a request holds, not the row. `TimelineInv` adds `InFlightLegal`:
  the copy is itself a legal row, and its status may be followed by the one the handler will
  write. Reads establish it (`ReadKeepsTimelines`), since the row is legal and the check
  was passed; commits append an allowed status to a legal history (`AppendLegal`,
  `CommitKeepsTimelines`). That the row has moved on meanwhile does not matter, which is why
  this holds although `StatusFollowsMachine` does not.
- The other seven properties of `order_races`, from one invariant, `FactsInv`
  (`FactsAreKept`). What a row may record depends on *facts*: the order has a partner, its
  prescription was verified at some time, its stock was restored, a refund is in the ledger,
  an event was announced. No step ever takes a fact back (`FactsGrow`): partners are written
  by one guarded update, and counters and announcements only grow. So a fact that held when
  a handler read the row still holds when it writes, however old its copy is: this is why
  these properties survive every race although the checks of the handlers do not.
  `RecordsBacked` says that what a row's timeline records is backed by its fact,
  `InFlightBacked` the same of every copy in flight, with what the handler's target status
  needs of earlier steps; `VerdictsBacked` and `RewardsCounted` are about verdicts and
  rewards. `StepEffect` sums up every action as what it does to the table, to one slot of
  the requests and to the facts.

### CheckoutProofs

- `TypeCorrect`; `AnswersCorrect`, from `InFlightOwn` (the order a request has placed is its
  session's) and the fact that orders are only appended (`OrdersKept`).
- `StockCorrect` holds inductively as it stands: `PlaceOrder` tests again, in the transaction,
  what `Quote` read. `WalletCorrect` sums orders; `Balances` is the same with the orders
  named, and a new order adds what it comes to to the sums that count it.
- `OrdersOncePerKey`, from `OneOrderInv`, which holds while no lock expired and no cart was
  refilled (`Undisturbed`): holders have the lock and are alone, who is about to place is the
  first, and after an order the cart is empty or the lock is held by one that will only
  clear it (`OrderedIsOver`). A dead process leaves its lock taken, which is why crashes
  need no exception.

### PaymentsProofs

- `TypeCorrect`, from `Sound`: where each kind of request can be, what it is about at the
  provider, that the provider forgets nothing (`ProviderGrows`), and what the writers have read
  (`WritersSound`).
- `LedgerCorrect`, from `LedgerInv`: every entry is the effect of its capture or refund
  (`EntriesSound`), ids are unique, at most one request per reference is past its row lock
  (`OneCommit`), and what that one will commit is not recorded yet (`CommitsAreNew`). The entries
  of cancellations have no id: `CancelsBacked` says that such an entry, or a writer about to make
  it, is of an order whose capture is in the ledger.
- `StatusCorrect`, from `StatusInv`: PAID and REFUNDED are recorded (`StatusIsRecorded`), whoever
  wrote them, because a writer that gives back read PAID and entries never go; and what is
  recorded shows (`LedgerIsStatus`) while the order is open and no attempt was declined, because
  every writer but those of the webhooks closes it.
- `RefundsAreFinal`: `StaffRefunds` says that a staff refund is of a payment the ledger has, so
  that the capture cannot come after it, and a cancellation closes the order, after which no
  other can write PAID back.
- `RememberedCorrect`: `Spec => [](EventsHaveIds => RememberedIsRecorded)`. Without event ids two
  refunds of a payment share a key and one is dropped (g).

### BookingsProofs

- `TypeCorrect`, from `Sound`: what a request has read stays true of the booking but for its
  status and payment. The five writers of a row are one summary, `Writes`; what they do to the
  ledger another, `Charged`.
- `RewardsCorrect` holds as it stands. `MachineIsLeftStale`: a handler that finds the status it
  read writes one that the machine allows after it; the others are in `overwrote`.
- `WalletCorrect` needs that nothing is charged before the booking exists (`NothingYet`), and
  that no handler writes PAID without a debit, only the webhook does, which marks `captured`.
- `ChargedCorrect`, from `ChargeInv`: while a booking is not in `overwrote`, it has no final
  fare before it ends, and no copy in flight has one.
- `RatingsCorrect`, from `RatingInv`: the count a rating has read is at most the number of
  reviews, so writing it plus one under a new review stays below.

### OutboxProofs

Of `Stores`: `OpenReviewed`, from `InFlightChecked`: while nothing was overtaken, an open in
flight saw APPROVED and still finds it. Of `Outbox`:

- `TypeCorrect`, and `OpenReviewedNextToWorkers`, because every step of `Outbox` is a step of
  `Stores` or leaves its variables alone (`StepOfStores`).
- `Implements`: `Spec => Delivers`, the refinement. `WorkersInv` says where each worker is in its
  event (`WorkerOK`) and what of it has got out already (`DeliveryOK`), and that a done key
  implies delivery; all of these speak of facts that only grow (`Grows`), so what the other
  workers do, even with the same event, does not matter. `StepDelivers` maps each action to
  publishing, delivering, settling or a stutter.
- `NotifiedOnce`, from the mutual exclusion that an unexpired lock gives (`Exclusive`), and
  `AttemptsAreBounded`, whose inductive form counts the workers that have polled the event and
  may still add an attempt (`Prepaid`).
- `IndexIsFresh`, from `FreshInv`: while nothing of what the property excepts has happened
  (`Clean`), either the index shows the store and whoever is about to write it will write the
  store as it is (`Shown`), or somebody owes it an event: a handler that has changed the store
  and not yet enqueued, or an event that is not marked done and whose worker, if it has read
  the store, read it as it is (`Owing`). `MarkedInv` says that only what is marked is settled,
  so once all is settled nothing is owed.

### PartnersProofs

It is about `Partners`, and so about the `Sessions` inside it.

- `TypeCorrect`, `RevokedAreRefused` and `StaleIsNotAccepted`. `RevokedIsRefused` says itself who
  still has to drop a copy; `NoStaleAccess` needs `StaleIsOverruled`: what is cached of an
  active session, or a request read and may still cache, grants nothing more than the row
  does (`Harmless`), or somebody who has changed the row is still there to revoke that
  session. `Effect` sums up every action as what it does to the table, the cache and one
  request, and the invariant is proved from the summary.
- `ReviewsAreWhole`, from `ReviewInv`: one review is in hand at a time, or it is excused, and
  what it has still to write is what it has written.
- `OneDocumentCounts`, from `VersionInv`: the version an upload in hand will insert is the next
  one or already taken, so of two uploads that read the same latest version the unique key
  fails one, and a later upload supersedes all that it can see.
- `StorageMatches`, from `ObjectInv`: an object without a row, or a row without its object, is
  in one request's hand.

### PayoutsProofs

From one invariant, `PayoutsInv`. `SweepsOncePerKey` holds as it stands: the record of a key
is committed with the payouts. `TransfersOnce` needs `InOneHand`: a payout that is not excused
is past its check in at most one request, which either has not sent it or sent it once and
will write so. `PayoutsAreCovered` needs `Numbered`, and shows on the way that the bound on
identifiers never stops a sweep that has entries to settle. `PayoutsMatch` adds that settled
entries have an owner (`MatchInv`): a commit settles entries that still are what the
snapshot read, and the payouts it makes sum them up, by partner.

### SumTheorems

What the proofs need of `SumFunctionOnSet` of the community modules, which is a fold: that it
is an integer, that a new element adds its value (`SumAdds`), that functions that agree on the
set have the same sum (`SumOfSame`). The fold is defined by recursion over subsets, so these
rest on an induction over finite sets (`SubsetInduction`) stated for sets of sets instead of
for predicates, which the provers can instantiate.

### Assumptions

On the constants: profiles are services with methods (`ProfilesAssumption`); the values for
nothing (`None`, `Idle`, `NoPartner`, `NoUser`, `NoBooking`, `NoStore`, `NoRequest`) are no values
of their columns (`NoneAssumption` and its like); limits, amounts and bounds are numbers
(`BoundsAssumption`, `OutboxAssumption`, `FaultsAssumption`, `AmountsAssumption`, which also has
fees and parts below fares); there are finitely many workers and items (`MenuAssumption`); the
store's owner is no customer (`OwnerAssumption`: who buys from their own store pays
themselves); ids of rides, payments and refunds are different (`ReferencesAssumption`,
`IdsAssumption`); a transfer provider answers with statuses of a payout
(`StatusesAssumption`). TLC evaluates them on every run.

### Only model-checked

Liveness, since fairness and ENABLED are out of the prover's reach: `StaleOrderSettles`,
`LockIsReleased`, `RepeatFinishesSweep` and the `EventSettles` of payments and of the outbox. The
three disagreements are counterexamples of TLC. That each mutant of the code breaks its property is
also TLC's word.

## Not modelled

- `rateOrder` but for its store rating, the cart's endpoints one by one, opening hours, the queues of partners.
- Fare estimates, surge, and offers to nearby partners: no state that a handler reads back.
- OTP challenges, staff tokens, session expiry; invoices and reconciliation reports; the
  store's memory fallback; the expiry of done keys.
- Search queries, favourites, trust, ops, realtime, maps, frontend and the HTTP layer but for
  its session guard: queries, single-row edits and pass-through.
- Rejections that change nothing (roles, handoff codes, approvals), money formats, the
  texts of notifications.

## Plan

1. *Done*: orders, checkout, payments, bookings, stores, outbox, sessions, partners and payouts
   as above; every invariant and every action property that a passing run checks is proved.
2. Cart edits and order ratings as lost-update models, OTP challenges next to `Sessions`, and
   the memory fallback of the Redis store.
3. An abstract order ledger (a set of histories with money and goods owed) implemented by
   `OrderLifecycle`; an abstract booking implemented by each vertical.
4. Proofs: the refinements of 3.
