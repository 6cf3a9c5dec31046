------------------------------- MODULE Checkout -------------------------------
(***************************************************************************)
(* OrdersService.checkout: one order per idempotency key, built from the   *)
(* customer's cart in Redis, under a Redis lock that expires, with stock,  *)
(* coupon and wallet in PostgreSQL.                                        *)
(*                                                                         *)
(* Every await of the handler is a step.  The transaction (READ COMMITTED) *)
(* is a Quote step, which reads what buildCheckoutQuote reads, and a       *)
(* PlaceOrder step, which makes the guarded writes and inserts.  A crash   *)
(* of the API process drops the request, its finally block included.       *)
(* An item costs one unit, delivery another, and a coupon takes one off.   *)
(* The outbox row goes in with the order row and is left out; so are the   *)
(* checks that read only the store and the address, which a cart that      *)
(* fails them leaves at Quote as it does for missing stock.                *)
(***************************************************************************)
EXTENDS Integers, Sequences, FiniteSets, FiniteSetsExt

CONSTANTS
  Customers,
  Keys,          \* idempotency keys a customer's client generates
  Items,         \* menu items of one open store
  Requests,      \* checkout requests in flight together
  NoRequest,     \* the slot is free
  Owner,         \* the owner of the store
  Stock,         \* units of each item
  Funds,         \* wallet balance of each customer
  CouponLimit,   \* usageLimit of the coupon
  PerUserLimit,  \* perUserLimit of the coupon
  MaxCheckouts,  \* bound: checkout requests that start
  MaxRefills,    \* bound: carts filled again after the first time
  MaxCrashes,    \* bound: requests dropped by a crash
  MaxExpiries    \* bound: locks that expire

ASSUME BoundsAssumption ==
  /\ {Stock, Funds, CouponLimit, PerUserLimit} \subseteq Nat
  /\ {MaxCheckouts, MaxRefills, MaxCrashes, MaxExpiries} \subseteq Nat
ASSUME MenuAssumption == IsFiniteSet(Items)
ASSUME OwnerAssumption == Owner \notin Customers

Methods == {"WALLET", "ONLINE"}
Cart == [items : SUBSET Items, coupon : BOOLEAN]
EmptyCart == [items |-> {}, coupon |-> FALSE]
PlacedOrder == [customer : Customers, key : Keys, cart : Cart, method : Methods]
Phases == {"lookup", "lock", "relookup", "readCart", "quote", "place", "remember",
           "clearCart", "unlock"}
Request == [ phase : Phases, customer : Customers, key : Keys, method : Methods,
             cart : Cart, order : Nat ]

ASSUME NoRequestAssumption == NoRequest \notin Request

VARIABLES
  cart,       \* Redis cart:<customer>
  lock,       \* Redis orders:checkout:<customer>:<key>:lock
  cached,     \* Redis orders:checkout:<customer>:<key>: order number, 0 if none
  request,    \* requests in flight; order is the order it placed, 0 if none
  orders,     \* Order rows, in the order they were inserted
  stock,      \* MenuItem.stock
  couponUses, \* Coupon.usageCount
  wallet,     \* what the ledger entries of a user add up to
  answered,   \* history: replies that returned an order
  spent       \* bounds: checkouts, refills, crashes and expiries so far

vars == <<cart, lock, cached, request, orders, stock, couponUses, wallet, answered, spent>>
redis == <<cart, lock, cached>>
postgres == <<orders, stock, couponUses, wallet>>

Sessions == Customers \X Keys

TypeOK ==
  /\ cart \in [Customers -> Cart]
  /\ lock \in [Sessions -> BOOLEAN]
  /\ cached \in [Sessions -> Nat]
  /\ request \in [Requests -> Request \cup {NoRequest}]
  /\ orders \in Seq(PlacedOrder)
  /\ stock \in [Items -> Nat]
  /\ couponUses \in Nat
  /\ wallet \in [Customers \cup {Owner} -> Int]
  /\ answered \subseteq [customer : Customers, key : Keys, order : Nat]
  /\ spent \in [checkouts : Nat, refills : Nat, crashes : Nat, expiries : Nat]

Init ==
  /\ cart \in [Customers -> {c \in Cart : c.items # {}}]
  /\ lock = [s \in Sessions |-> FALSE]
  /\ cached = [s \in Sessions |-> 0]
  /\ request = [r \in Requests |-> NoRequest]
  /\ orders = <<>>
  /\ stock = [i \in Items |-> Stock]
  /\ couponUses = 0
  /\ wallet = [u \in Customers \cup {Owner} |-> IF u = Owner THEN 0 ELSE Funds]
  /\ answered = {}
  /\ spent = [checkouts |-> 0, refills |-> 0, crashes |-> 0, expiries |-> 0]

At(r, phase) == request[r] # NoRequest /\ request[r].phase = phase
Session(r) == <<request[r].customer, request[r].key>>
Goto(r, phase) == request' = [request EXCEPT ![r].phase = phase]

\* The handler returns order n to its client.
Answer(r, n) ==
  /\ request' = [request EXCEPT ![r] = NoRequest]
  /\ answered' = answered \cup
       {[customer |-> request[r].customer, key |-> request[r].key, order |-> n]}
-----------------------------------------------------------------------------
\* A client sends a checkout, for the first time or again.
Arrive(r, c, k, method) ==
  /\ request[r] = NoRequest
  /\ spent.checkouts < MaxCheckouts
  /\ spent' = [spent EXCEPT !.checkouts = @ + 1]
  /\ request' = [request EXCEPT ![r] =
       [ phase |-> "lookup", customer |-> c, key |-> k, method |-> method,
         cart |-> EmptyCart, order |-> 0 ]]
  /\ UNCHANGED <<redis, postgres, answered>>

Lookup(r) ==
  /\ At(r, "lookup")
  /\ IF cached[Session(r)] # 0
     THEN Answer(r, cached[Session(r)])
     ELSE Goto(r, "lock") /\ UNCHANGED answered
  /\ UNCHANGED <<redis, postgres, spent>>

\* SET NX: taken by whoever comes first; nobody records who.
WrongAcquireLock(r) ==
  /\ At(r, "lock")
  /\ Goto(r, "readCart")
  /\ lock' = [lock EXCEPT ![Session(r)] = TRUE]
  /\ UNCHANGED <<cart, cached, postgres, answered, spent>>

acquireLock(r) ==
  /\ At(r, "lock")
  /\ IF lock[Session(r)] THEN Goto(r, "relookup") /\ UNCHANGED lock
     ELSE Goto(r, "readCart") /\ lock' = [lock EXCEPT ![Session(r)] = TRUE]
  /\ UNCHANGED <<cart, cached, postgres, answered, spent>>

\* Somebody holds the lock: answer from the cache, or "already in progress".
Relookup(r) ==
  /\ At(r, "relookup")
  /\ IF cached[Session(r)] # 0
     THEN Answer(r, cached[Session(r)])
     ELSE request' = [request EXCEPT ![r] = NoRequest] /\ UNCHANGED answered
  /\ UNCHANGED <<redis, postgres, spent>>

readCart(r) ==
  /\ At(r, "readCart")
  /\ LET c == cart[request[r].customer] IN
       request' = [request EXCEPT ![r].cart = c,
                                  ![r].phase = IF c.items = {} THEN "unlock" ELSE "quote"]
  /\ UNCHANGED <<redis, postgres, answered, spent>>
-----------------------------------------------------------------------------
Amount(c) == 1 + Cardinality(c.items) - (IF c.coupon THEN 1 ELSE 0)
UsesOfCoupon(c) == Cardinality({n \in DOMAIN orders : orders[n].customer = c /\ orders[n].cart.coupon})

\* buildCheckoutQuote: stock, coupon and balance as they are at the read.
CouponAccepted(c) == couponUses < CouponLimit /\ UsesOfCoupon(c) < PerUserLimit

QuoteAccepted(q) ==
  /\ \A i \in q.cart.items : stock[i] >= 1
  /\ q.cart.coupon => CouponAccepted(q.customer)
  /\ q.method = "WALLET" => wallet[q.customer] >= Amount(q.cart)

Quote(r) ==
  /\ At(r, "quote")
  /\ Goto(r, IF QuoteAccepted(request[r]) THEN "place" ELSE "unlock")
  /\ UNCHANGED <<redis, postgres, answered, spent>>

\* The rest of the transaction.  decrementStock and incrementCouponUsage check
\* again in their UPDATE and make the transaction fail; the wallet entries and
\* the per-user limit are not checked again.
WrongWritesPossible(q) == q.cart.coupon => couponUses < CouponLimit

WritesPossible(q) ==
  /\ \A i \in q.cart.items : stock[i] >= 1
  /\ q.cart.coupon => couponUses < CouponLimit

WrongPlaceOrder(r) ==
  /\ At(r, "place")
  /\ LET q == request[r] IN
       /\ WritesPossible(q)
       /\ orders' = Append(orders, [ customer |-> q.customer, key |-> q.key,
                                     cart |-> q.cart, method |-> q.method ])
       /\ stock' = [i \in Items |-> IF i \in q.cart.items THEN stock[i] - 1 ELSE stock[i]]
       /\ couponUses' = IF q.cart.coupon THEN couponUses + 1 ELSE couponUses
       /\ wallet' = IF q.method = "WALLET" /\ ~q.cart.coupon
                    THEN [wallet EXCEPT ![q.customer] = @ - Amount(q.cart),
                                        ![Owner] = @ + Amount(q.cart)]
                    ELSE wallet
       /\ request' = [request EXCEPT ![r].order = Len(orders) + 1, ![r].phase = "remember"]
  /\ UNCHANGED <<redis, answered, spent>>

PlaceOrder(r) ==
  /\ At(r, "place")
  /\ LET q == request[r] IN
       /\ WritesPossible(q)
       /\ orders' = Append(orders, [ customer |-> q.customer, key |-> q.key,
                                     cart |-> q.cart, method |-> q.method ])
       /\ stock' = [i \in Items |-> IF i \in q.cart.items THEN stock[i] - 1 ELSE stock[i]]
       /\ couponUses' = IF q.cart.coupon THEN couponUses + 1 ELSE couponUses
       /\ wallet' = IF q.method = "WALLET"
                    THEN [wallet EXCEPT ![q.customer] = @ - Amount(q.cart),
                                        ![Owner] = @ + Amount(q.cart)]
                    ELSE wallet
       /\ request' = [request EXCEPT ![r].order = Len(orders) + 1, ![r].phase = "remember"]
  /\ UNCHANGED <<redis, answered, spent>>

\* A guarded write that matched no row, or PostgreSQL rolled the transaction
\* back (a deadlock between two carts, the client's time limit).
FailToPlace(r) ==
  /\ At(r, "place")
  /\ Goto(r, "unlock")
  /\ UNCHANGED <<redis, postgres, answered, spent>>
-----------------------------------------------------------------------------
\* setJson of the response, after the transaction.
WrongRemember(r) ==
  /\ At(r, "remember")
  /\ cached' = [s \in Sessions |->
       IF s[2] = request[r].key THEN request[r].order ELSE cached[s]]
  /\ Goto(r, "clearCart")
  /\ UNCHANGED <<cart, lock, postgres, answered, spent>>

Remember(r) ==
  /\ At(r, "remember")
  /\ cached' = [cached EXCEPT ![Session(r)] = request[r].order]
  /\ Goto(r, "clearCart")
  /\ UNCHANGED <<cart, lock, postgres, answered, spent>>

ClearCart(r) ==
  /\ At(r, "clearCart")
  /\ cart' = [cart EXCEPT ![request[r].customer] = EmptyCart]
  /\ Goto(r, "unlock")
  /\ UNCHANGED <<lock, cached, postgres, answered, spent>>

\* The finally block deletes the lock key, even one another request took after
\* this request's lock expired.
WrongUnlock(r) ==
  /\ At(r, "unlock")
  /\ request[r].order # 0
  /\ lock' = [lock EXCEPT ![Session(r)] = FALSE]
  /\ Answer(r, request[r].order)
  /\ UNCHANGED <<cart, cached, postgres, spent>>

Unlock(r) ==
  /\ At(r, "unlock")
  /\ lock' = [lock EXCEPT ![Session(r)] = FALSE]
  /\ IF request[r].order # 0 THEN Answer(r, request[r].order)
     ELSE request' = [request EXCEPT ![r] = NoRequest] /\ UNCHANGED answered
  /\ UNCHANGED <<cart, cached, postgres, spent>>

\* The customer fills the cart again: whatever the cart endpoints last wrote.
FillCart(c, content) ==
  /\ spent.refills < MaxRefills
  /\ cart[c] # content
  /\ content.items # {}
  /\ cart' = [cart EXCEPT ![c] = content]
  /\ spent' = [spent EXCEPT !.refills = @ + 1]
  /\ UNCHANGED <<lock, cached, request, postgres, answered>>

\* The API process dies.
Crash(r) ==
  /\ request[r] # NoRequest
  /\ spent.crashes < MaxCrashes
  /\ request' = [request EXCEPT ![r] = NoRequest]
  /\ spent' = [spent EXCEPT !.crashes = @ + 1]
  /\ UNCHANGED <<redis, postgres, answered>>

\* The lock's TTL runs out, whether or not its request still runs.
LockExpires(s) ==
  /\ lock[s]
  /\ spent.expiries < MaxExpiries
  /\ lock' = [lock EXCEPT ![s] = FALSE]
  /\ spent' = [spent EXCEPT !.expiries = @ + 1]
  /\ UNCHANGED <<cart, cached, request, postgres, answered>>
-----------------------------------------------------------------------------
checkout(r) ==
  \/ Lookup(r) \/ acquireLock(r) \/ Relookup(r) \/ readCart(r)
  \/ Quote(r) \/ PlaceOrder(r) \/ FailToPlace(r)
  \/ Remember(r) \/ ClearCart(r) \/ Unlock(r)

Next ==
  \/ \E r \in Requests :
       \/ \E c \in Customers, k \in Keys, method \in Methods : Arrive(r, c, k, method)
       \/ checkout(r)
       \/ Crash(r)
  \/ \E c \in Customers, content \in Cart : FillCart(c, content)
  \/ \E s \in Sessions : LockExpires(s)

Spec == Init /\ [][Next]_vars

\* A running handler goes on; a client may never come back, a lock may never
\* expire and nothing has to crash.
FairSpec == Spec /\ \A r \in Requests : WF_vars(checkout(r))
-----------------------------------------------------------------------------
OrdersWith(i) == Cardinality({n \in DOMAIN orders : i \in orders[n].cart.items})
CouponOrders == Cardinality({n \in DOMAIN orders : orders[n].cart.coupon})

\* However many checkouts quoted the same last unit or the last use of the
\* coupon, neither is given out more often than there was of it, and a failed
\* checkout takes nothing of either.
StockAccounted ==
  /\ \A i \in Items : OrdersWith(i) <= Stock /\ stock[i] = Stock - OrdersWith(i)
  /\ couponUses = CouponOrders /\ CouponOrders <= CouponLimit

Total(N) == SumFunctionOnSet([n \in DOMAIN orders |-> Amount(orders[n].cart)], N)
WalletOrders == {n \in DOMAIN orders : orders[n].method = "WALLET"}

\* The ledger agrees with the orders: a customer has paid for the customer's
\* wallet orders and for nothing else, and the store's owner has received it,
\* whatever crashed, failed or was retried.
WalletAccounted ==
  /\ \A c \in Customers :
       wallet[c] = Funds - Total({n \in WalletOrders : orders[n].customer = c})
  /\ wallet[Owner] = Total(WalletOrders)

\* Whatever a client is told, and whatever is cached for its retry, is an order
\* this customer placed with this key.
AnswersAreOwnOrders ==
  /\ \A a \in answered :
       /\ a.order \in DOMAIN orders
       /\ orders[a.order].customer = a.customer /\ orders[a.order].key = a.key
  /\ \A s \in Sessions : cached[s] # 0 =>
       /\ cached[s] \in DOMAIN orders
       /\ orders[cached[s]].customer = s[1] /\ orders[cached[s]].key = s[2]

\* An idempotency key gives one order, however often and close together it is
\* sent, and though its process may die; unless the lock expired under a
\* checkout, or the customer filled the cart again before a late copy got to it.
OneOrderPerKey ==
  spent.expiries = 0 /\ spent.refills = 0 =>
    \A m, n \in DOMAIN orders :
      orders[m].customer = orders[n].customer /\ orders[m].key = orders[n].key => m = n

\* A key is never locked out: unless the process died, whoever took its lock
\* ends and gives it back, with an order or without one.
LockIsReleased == \A s \in Sessions : lock[s] ~> (~lock[s] \/ spent.crashes > 0)
=============================================================================
