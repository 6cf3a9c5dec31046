---------------------------- MODULE CheckoutProofs ----------------------------
(***************************************************************************)
(* Theorems about Checkout, for any number of customers, keys, items and   *)
(* checkouts in flight, and whatever crashes and expires.                  *)
(***************************************************************************)
EXTENDS Checkout, SumTheorems, SequenceTheorems

\* The order that PlaceOrder appends for r.
OrderFrom(q) == [customer |-> q.customer, key |-> q.key, cart |-> q.cart, method |-> q.method]

LEMMA RequestIsNot == \A q \in Request : q # NoRequest
BY NoRequestAssumption

LEMMA CartIsCart == EmptyCart \in Cart
BY DEF EmptyCart, Cart

LEMMA AmountIsInt == \A c \in Cart : Amount(c) \in Int
<1> SUFFICES ASSUME NEW c \in Cart PROVE Amount(c) \in Int
  OBVIOUS
<1>1. IsFiniteSet(c.items)
  BY MenuAssumption, FS_Subset DEF Cart
<1>2. Cardinality(c.items) \in Nat
  BY <1>1, FS_CardinalityType
<1>3. QED
  BY <1>2 DEF Amount

LEMMA TypesInitially == Init => TypeOK
BY CartIsCart, BoundsAssumption DEF Init, TypeOK, Cart, PlacedOrder, Sessions

\* Orders are only appended.
LEMMA PlaceOrderAppends ==
  ASSUME TypeOK, NEW r \in Requests, PlaceOrder(r)
  PROVE  /\ request[r] \in Request
         /\ OrderFrom(request[r]) \in PlacedOrder
         /\ Len(orders) \in Nat
         /\ orders' \in Seq(PlacedOrder)
         /\ DOMAIN orders = 1 .. Len(orders)
         /\ DOMAIN orders' = 1 .. Len(orders) + 1
         /\ \A n \in DOMAIN orders : orders'[n] = orders[n]
         /\ orders'[Len(orders) + 1] = OrderFrom(request[r])
<1>1. request[r] \in Request /\ orders \in Seq(PlacedOrder)
  BY DEF PlaceOrder, At, TypeOK
<1>2. OrderFrom(request[r]) \in PlacedOrder
  BY <1>1 DEF OrderFrom, Request, PlacedOrder
<1>3. orders' = Append(orders, OrderFrom(request[r]))
  BY DEF PlaceOrder, OrderFrom
<1>4. QED
  BY <1>1, <1>2, <1>3, AppendProperties

\* What moving one request on, or freeing its slot, does to the requests.
LEMMA RequestsChange ==
  ASSUME TypeOK, NEW r \in Requests, NEW q \in Request \cup {NoRequest},
         request' = [request EXCEPT ![r] = q]
  PROVE  /\ request' \in [Requests -> Request \cup {NoRequest}]
         /\ request'[r] = q
         /\ \A s \in Requests : s # r => request'[s] = request[s]
BY DEF TypeOK

LEMMA GotoChanges ==
  ASSUME TypeOK, NEW r \in Requests, NEW phase \in Phases, request[r] # NoRequest,
         Goto(r, phase)
  PROVE  /\ request' \in [Requests -> Request \cup {NoRequest}]
         /\ request[r] \in Request
         /\ request'[r] = [request[r] EXCEPT !.phase = phase]
         /\ request'[r] \in Request
         /\ \A s \in Requests : s # r => request'[s] = request[s]
<1>1. request[r] \in Request
  BY DEF TypeOK
<1>2. [request[r] EXCEPT !.phase = phase] \in Request
  BY <1>1 DEF Request
<1>3. request' = [request EXCEPT ![r] = [request[r] EXCEPT !.phase = phase]]
  BY DEF Goto
<1>4. QED
  BY <1>1, <1>2, <1>3, RequestsChange

LEMMA SlotFreed ==
  ASSUME TypeOK, NEW r \in Requests, request' = [request EXCEPT ![r] = NoRequest]
  PROVE  /\ request' \in [Requests -> Request \cup {NoRequest}]
         /\ request'[r] = NoRequest
         /\ \A s \in Requests : s # r => request'[s] = request[s]
BY DEF TypeOK

\* The session of a request in flight.
LEMMA SessionIsSession ==
  ASSUME TypeOK, NEW r \in Requests, request[r] # NoRequest
  PROVE  /\ request[r] \in Request
         /\ request[r].customer \in Customers /\ request[r].key \in Keys
         /\ request[r].cart \in Cart /\ request[r].order \in Nat
         /\ Session(r) = <<request[r].customer, request[r].key>>
         /\ Session(r) \in Sessions
<1>1. request[r] \in Request
  BY DEF TypeOK
<1>2. QED
  BY <1>1 DEF Request, Session, Sessions

LEMMA AnswerIsTyped ==
  ASSUME TypeOK, NEW r \in Requests, request[r] # NoRequest, NEW n \in Nat, Answer(r, n)
  PROVE  /\ request' \in [Requests -> Request \cup {NoRequest}]
         /\ answered' \subseteq [customer : Customers, key : Keys, order : Nat]
<1>1. [customer |-> request[r].customer, key |-> request[r].key, order |-> n]
        \in [customer : Customers, key : Keys, order : Nat]
  BY SessionIsSession
<1>2. QED
  BY <1>1, SlotFreed DEF Answer, TypeOK

LEMMA PlacedIsRequest ==
  \A q \in Request, n \in Nat : [q EXCEPT !.order = n, !.phase = "remember"] \in Request
BY DEF Request, Phases

LEMMA SpentIsTyped ==
  ASSUME NEW x \in [checkouts : Nat, refills : Nat, crashes : Nat, expiries : Nat]
  PROVE  /\ [x EXCEPT !.checkouts = @ + 1] \in [checkouts : Nat, refills : Nat, crashes : Nat, expiries : Nat]
         /\ [x EXCEPT !.refills = @ + 1] \in [checkouts : Nat, refills : Nat, crashes : Nat, expiries : Nat]
         /\ [x EXCEPT !.crashes = @ + 1] \in [checkouts : Nat, refills : Nat, crashes : Nat, expiries : Nat]
         /\ [x EXCEPT !.expiries = @ + 1] \in [checkouts : Nat, refills : Nat, crashes : Nat, expiries : Nat]
<1>1. /\ x.checkouts + 1 \in Nat /\ x.refills + 1 \in Nat
      /\ x.crashes + 1 \in Nat /\ x.expiries + 1 \in Nat
  OBVIOUS
<1>2. QED
  BY <1>1

LEMMA TypesInductive == TypeOK /\ [Next]_vars => TypeOK'
<1> SUFFICES ASSUME TypeOK, [Next]_vars PROVE TypeOK'
  OBVIOUS
<1> USE DEF redis, postgres
<1>1. ASSUME NEW r \in Requests, NEW c \in Customers, NEW k \in Keys, NEW method \in Methods,
             Arrive(r, c, k, method)
      PROVE  TypeOK'
  <2> DEFINE new == [ phase |-> "lookup", customer |-> c, key |-> k, method |-> method,
                      cart |-> EmptyCart, order |-> 0 ]
  <2>1. new \in Request
    BY CartIsCart DEF Request, Phases
  <2>2. request' = [request EXCEPT ![r] = new]
    BY <1>1 DEF Arrive
  <2>3. request' \in [Requests -> Request \cup {NoRequest}]
    BY <2>1, <2>2, RequestsChange
  <2>4. spent' \in [checkouts : Nat, refills : Nat, crashes : Nat, expiries : Nat]
    BY <1>1, SpentIsTyped DEF Arrive, TypeOK
  <2>5. QED
    BY <1>1, <2>3, <2>4 DEF Arrive, TypeOK
<1>2. ASSUME NEW r \in Requests, Lookup(r) PROVE TypeOK'
  <2>1. request[r] # NoRequest /\ "lock" \in Phases
    BY <1>2 DEF Lookup, At, Phases
  <2>2. cached[Session(r)] \in Nat
    BY <2>1, SessionIsSession DEF TypeOK
  <2>3. request' \in [Requests -> Request \cup {NoRequest}]
        /\ answered' \subseteq [customer : Customers, key : Keys, order : Nat]
    BY <1>2, <2>1, <2>2, AnswerIsTyped, GotoChanges DEF Lookup, TypeOK
  <2>4. QED
    BY <1>2, <2>3 DEF Lookup, TypeOK
<1>3. ASSUME NEW r \in Requests, acquireLock(r) PROVE TypeOK'
  <2>1. request[r] # NoRequest /\ {"relookup", "readCart"} \subseteq Phases
    BY <1>3 DEF acquireLock, At, Phases
  <2>2. request' \in [Requests -> Request \cup {NoRequest}]
    BY <1>3, <2>1, GotoChanges DEF acquireLock
  <2>3. lock' \in [Sessions -> BOOLEAN]
    BY <1>3 DEF acquireLock, TypeOK
  <2>4. QED
    BY <1>3, <2>2, <2>3 DEF acquireLock, TypeOK
<1>4. ASSUME NEW r \in Requests, Relookup(r) PROVE TypeOK'
  <2>1. request[r] # NoRequest
    BY <1>4 DEF Relookup, At
  <2>2. cached[Session(r)] \in Nat
    BY <2>1, SessionIsSession DEF TypeOK
  <2>3. request' \in [Requests -> Request \cup {NoRequest}]
        /\ answered' \subseteq [customer : Customers, key : Keys, order : Nat]
    BY <1>4, <2>1, <2>2, AnswerIsTyped, SlotFreed DEF Relookup, TypeOK
  <2>4. QED
    BY <1>4, <2>3 DEF Relookup, TypeOK
<1>5. ASSUME NEW r \in Requests, readCart(r) PROVE TypeOK'
  <2> DEFINE c == cart[request[r].customer]
             q == [request[r] EXCEPT !.cart = c,
                                     !.phase = IF c.items = {} THEN "unlock" ELSE "quote"]
  <2>1. request[r] \in Request /\ c \in Cart
    BY <1>5, SessionIsSession DEF readCart, At, TypeOK
  <2>2. q \in Request
    BY <2>1 DEF Request, Phases
  <2>3. request' = [request EXCEPT ![r] = q]
    BY <1>5 DEF readCart
  <2>4. request' \in [Requests -> Request \cup {NoRequest}]
    BY <2>2, <2>3, RequestsChange
  <2>5. QED
    BY <1>5, <2>4 DEF readCart, TypeOK
<1>6. ASSUME NEW r \in Requests, Quote(r) PROVE TypeOK'
  <2>1. request[r] # NoRequest /\ {"place", "unlock"} \subseteq Phases
    BY <1>6 DEF Quote, At, Phases
  <2>2. request' \in [Requests -> Request \cup {NoRequest}]
    BY <1>6, <2>1, GotoChanges DEF Quote
  <2>3. QED
    BY <1>6, <2>2 DEF Quote, TypeOK
<1>7. ASSUME NEW r \in Requests, PlaceOrder(r) PROVE TypeOK'
  <2>1. request[r] \in Request /\ orders' \in Seq(PlacedOrder) /\ Len(orders) \in Nat
    BY <1>7, PlaceOrderAppends
  <2>2. Amount(request[r].cart) \in Int
    BY <2>1, AmountIsInt DEF Request
  <2>3. wallet' \in [Customers \cup {Owner} -> Int]
    <3>1. request[r].customer \in Customers /\ wallet \in [Customers \cup {Owner} -> Int]
      BY <2>1 DEF TypeOK, Request
    <3>2. \/ wallet' = wallet
          \/ wallet' = [wallet EXCEPT ![request[r].customer] = @ - Amount(request[r].cart),
                                      ![Owner] = @ + Amount(request[r].cart)]
      BY <1>7 DEF PlaceOrder
    <3>3. QED
      BY <2>2, <3>1, <3>2
  <2>4. \A i \in request[r].cart.items : stock[i] >= 1
    BY <1>7 DEF PlaceOrder, WritesPossible
  <2>5. stock' = [i \in Items |-> IF i \in request[r].cart.items THEN stock[i] - 1 ELSE stock[i]]
        /\ couponUses' \in Nat
    BY <1>7 DEF PlaceOrder, TypeOK
  <2>6. stock' \in [Items -> Nat]
    BY <2>4, <2>5 DEF TypeOK
  <2> DEFINE q == [request[r] EXCEPT !.order = Len(orders) + 1, !.phase = "remember"]
  <2>7. q \in Request
    <3>1. Len(orders) + 1 \in Nat
      BY <2>1
    <3>2. QED
      BY <2>1, <3>1, PlacedIsRequest
  <2>8. request' = [request EXCEPT ![r] = q]
    BY <1>7 DEF PlaceOrder
  <2>9. request' \in [Requests -> Request \cup {NoRequest}]
    BY <2>7, <2>8, RequestsChange
  <2>10. UNCHANGED <<cart, lock, cached, answered, spent>>
    BY <1>7 DEF PlaceOrder
  <2>11. QED
    BY <2>1, <2>3, <2>5, <2>6, <2>9, <2>10 DEF TypeOK
<1>8. ASSUME NEW r \in Requests, FailToPlace(r) PROVE TypeOK'
  <2>1. request[r] # NoRequest /\ "unlock" \in Phases
    BY <1>8 DEF FailToPlace, At, Phases
  <2>2. request' \in [Requests -> Request \cup {NoRequest}]
    BY <1>8, <2>1, GotoChanges DEF FailToPlace
  <2>3. QED
    BY <1>8, <2>2 DEF FailToPlace, TypeOK
<1>9. ASSUME NEW r \in Requests, Remember(r) PROVE TypeOK'
  <2>1. request[r] # NoRequest /\ "clearCart" \in Phases
    BY <1>9 DEF Remember, At, Phases
  <2>2. request' \in [Requests -> Request \cup {NoRequest}]
    BY <1>9, <2>1, GotoChanges DEF Remember
  <2>3. cached' \in [Sessions -> Nat]
    BY <1>9, <2>1, SessionIsSession DEF Remember, TypeOK
  <2>4. QED
    BY <1>9, <2>2, <2>3 DEF Remember, TypeOK
<1>10. ASSUME NEW r \in Requests, ClearCart(r) PROVE TypeOK'
  <2>1. request[r] # NoRequest /\ "unlock" \in Phases
    BY <1>10 DEF ClearCart, At, Phases
  <2>2. request' \in [Requests -> Request \cup {NoRequest}]
    BY <1>10, <2>1, GotoChanges DEF ClearCart
  <2>3. QED
    BY <1>10, <2>2, CartIsCart DEF ClearCart, TypeOK
<1>11. ASSUME NEW r \in Requests, Unlock(r) PROVE TypeOK'
  <2>1. request[r] # NoRequest
    BY <1>11 DEF Unlock, At
  <2>2. request[r].order \in Nat
    BY <2>1, SessionIsSession
  <2>3. request' \in [Requests -> Request \cup {NoRequest}]
        /\ answered' \subseteq [customer : Customers, key : Keys, order : Nat]
    BY <1>11, <2>1, <2>2, AnswerIsTyped, SlotFreed DEF Unlock, TypeOK
  <2>4. QED
    BY <1>11, <2>3 DEF Unlock, TypeOK
<1>12. ASSUME NEW r \in Requests, Crash(r) PROVE TypeOK'
  BY <1>12, SlotFreed, SpentIsTyped DEF Crash, TypeOK
<1>13. ASSUME NEW c \in Customers, NEW content \in Cart, FillCart(c, content) PROVE TypeOK'
  BY <1>13, SpentIsTyped DEF FillCart, TypeOK
<1>14. ASSUME NEW s \in Sessions, LockExpires(s) PROVE TypeOK'
  BY <1>14, SpentIsTyped DEF LockExpires, TypeOK
<1>15. CASE UNCHANGED vars
  BY <1>15 DEF vars, TypeOK
<1>16. QED
  BY <1>1, <1>2, <1>3, <1>4, <1>5, <1>6, <1>7, <1>8, <1>9, <1>10, <1>11, <1>12, <1>13, <1>14, <1>15
     DEF Next, checkout

\* Every reachable state of carts, locks, remembered answers, requests, orders,
\* stock and wallets is well typed.
THEOREM TypeCorrect == Spec => []TypeOK
BY TypesInitially, TypesInductive, PTL DEF Spec
-----------------------------------------------------------------------------
\* Order n is one that customer c placed with key k.
IsOrder(n, c, k) == n \in DOMAIN orders /\ orders[n].customer = c /\ orders[n].key = k

\* The order a request remembers having placed is one.
InFlightOwn ==
  \A r \in Requests : request[r] # NoRequest /\ request[r].order # 0 =>
    IsOrder(request[r].order, request[r].customer, request[r].key)

AnswersInv == TypeOK /\ InFlightOwn /\ AnswersAreOwnOrders

LEMMA OrdersKept ==
  ASSUME TypeOK, [Next]_vars
  PROVE  \A n \in DOMAIN orders : n \in DOMAIN orders' /\ orders'[n] = orders[n]
<1>1. ASSUME NEW r \in Requests, PlaceOrder(r)
      PROVE  \A n \in DOMAIN orders : n \in DOMAIN orders' /\ orders'[n] = orders[n]
  BY <1>1, PlaceOrderAppends
<1>2. CASE \A r \in Requests : ~PlaceOrder(r)
  <2>1. orders' = orders
    BY <1>2 DEF Next, checkout, vars, postgres, Arrive, Lookup, acquireLock, Relookup, readCart,
                Quote, FailToPlace, Remember, ClearCart, Unlock, FillCart, Crash, LockExpires
  <2>2. QED
    BY <2>1
<1>3. QED
  BY <1>1, <1>2

LEMMA OwnOrdersKept ==
  ASSUME TypeOK, [Next]_vars, NEW n, NEW c, NEW k, IsOrder(n, c, k)
  PROVE  IsOrder(n, c, k)'
BY OrdersKept DEF IsOrder

\* A request keeps its session, and the order it has, until it ends or places one.
LEMMA RequestsGoOn ==
  ASSUME TypeOK, [Next]_vars, NEW r \in Requests, request'[r] # NoRequest
  PROVE  \/ request'[r].order = 0
         \/ /\ request[r] # NoRequest /\ request'[r].order = request[r].order
            /\ request'[r].customer = request[r].customer /\ request'[r].key = request[r].key
         \/ PlaceOrder(r)
<1> DEFINE Goal == \/ request'[r].order = 0
                   \/ /\ request[r] # NoRequest /\ request'[r].order = request[r].order
                      /\ request'[r].customer = request[r].customer
                      /\ request'[r].key = request[r].key
                   \/ PlaceOrder(r)
<1>1. CASE request'[r] = request[r]
  BY <1>1
<1>2. ASSUME NEW q \in Requests, request'[r] # request[r],
             \E c \in Customers, k \in Keys, method \in Methods : Arrive(q, c, k, method)
      PROVE  Goal
  BY <1>2 DEF Arrive, TypeOK
<1>3. ASSUME NEW q \in Requests, request'[r] # request[r], NEW phase \in Phases,
             request[q] # NoRequest, Goto(q, phase)
      PROVE  Goal
  <2>1. q = r /\ request[r] \in Request /\ request'[r] = [request[r] EXCEPT !.phase = phase]
    BY <1>3, GotoChanges
  <2>2. QED
    BY <1>3, <2>1 DEF Request
<1>4. ASSUME NEW q \in Requests, request'[r] # request[r],
             request' = [request EXCEPT ![q] = NoRequest]
      PROVE  Goal
  BY <1>4, SlotFreed
<1>5. ASSUME NEW q \in Requests, request'[r] # request[r], readCart(q)
      PROVE  Goal
  <2> DEFINE c == cart[request[q].customer]
             new == [request[q] EXCEPT !.cart = c,
                                       !.phase = IF c.items = {} THEN "unlock" ELSE "quote"]
  <2>1. request[q] \in Request /\ request[q] # NoRequest
        /\ request' = [request EXCEPT ![q] = new]
    BY <1>5, SessionIsSession DEF readCart, At
  <2>2. q = r /\ request'[r] = new
    BY <1>5, <2>1 DEF TypeOK
  <2>3. QED
    BY <2>1, <2>2 DEF Request
<1>6. ASSUME NEW q \in Requests, request'[r] # request[r], PlaceOrder(q)
      PROVE  Goal
  BY <1>6 DEF PlaceOrder, TypeOK
<1>7. {"lock", "relookup", "readCart", "place", "unlock", "clearCart"} \subseteq Phases
  BY DEF Phases
<1>8. CASE request' = request
  BY <1>8, <1>1
<1>9. QED
  BY <1>1, <1>2, <1>3, <1>4, <1>5, <1>6, <1>7, <1>8
     DEF Next, checkout, vars, At, Answer, Lookup, acquireLock, Relookup, Quote, FailToPlace,
         Remember, ClearCart, Unlock, FillCart, Crash, LockExpires

\* Only the three replies of the handler, and what it remembers, are news.
LEMMA AnswersComeFrom ==
  ASSUME TypeOK, [Next]_vars, NEW a \in answered', a \notin answered
  PROVE  \E r \in Requests :
           /\ request[r] # NoRequest
           /\ a.customer = request[r].customer /\ a.key = request[r].key
           /\ \/ a.order = cached[Session(r)] /\ cached[Session(r)] # 0
              \/ a.order = request[r].order /\ request[r].order # 0
<1>1. PICK r \in Requests : Lookup(r) \/ Relookup(r) \/ Unlock(r)
  BY DEF Next, checkout, vars, Arrive, acquireLock, readCart, Quote, PlaceOrder, FailToPlace,
         Remember, ClearCart, FillCart, Crash, LockExpires
<1>2. request[r] # NoRequest
  BY <1>1 DEF Lookup, Relookup, Unlock, At
<1>3. \/ Answer(r, cached[Session(r)]) /\ cached[Session(r)] # 0
      \/ Answer(r, request[r].order) /\ request[r].order # 0
  BY <1>1 DEF Lookup, Relookup, Unlock
<1>4. QED
  BY <1>1, <1>2, <1>3 DEF Answer

LEMMA CacheComesFrom ==
  ASSUME TypeOK, [Next]_vars, NEW s \in Sessions, cached'[s] # cached[s]
  PROVE  \E r \in Requests :
           /\ request[r] # NoRequest
           /\ s = <<request[r].customer, request[r].key>> /\ cached'[s] = request[r].order
<1>1. PICK r \in Requests : Remember(r)
  BY DEF Next, checkout, vars, redis, Arrive, Lookup, acquireLock, Relookup, readCart, Quote,
         PlaceOrder, FailToPlace, ClearCart, Unlock, FillCart, Crash, LockExpires
<1>2. request[r] # NoRequest /\ cached' = [cached EXCEPT ![Session(r)] = request[r].order]
  BY <1>1 DEF Remember, At
<1>3. QED
  BY <1>2 DEF TypeOK, Session

LEMMA AnswersInductive == AnswersInv /\ [Next]_vars => AnswersInv'
<1> SUFFICES ASSUME AnswersInv, [Next]_vars PROVE AnswersInv'
  OBVIOUS
<1>1. TypeOK /\ TypeOK'
  BY TypesInductive DEF AnswersInv
<1>2. InFlightOwn'
  <2> SUFFICES ASSUME NEW r \in Requests, request'[r] # NoRequest, request'[r].order # 0
               PROVE  IsOrder(request[r].order, request[r].customer, request[r].key)'
    BY DEF InFlightOwn
  <2>1. CASE PlaceOrder(r)
    <3>1. request'[r] = [request[r] EXCEPT !.order = Len(orders) + 1, !.phase = "remember"]
      BY <1>1, <2>1 DEF PlaceOrder, TypeOK
    <3>2. request[r] \in Request
      BY <1>1, <2>1, PlaceOrderAppends
    <3>3. /\ request'[r].order = Len(orders) + 1
          /\ request'[r].customer = request[r].customer /\ request'[r].key = request[r].key
      BY <3>1, <3>2 DEF Request
    <3>4. /\ Len(orders) + 1 \in DOMAIN orders'
          /\ orders'[Len(orders) + 1].customer = request[r].customer
          /\ orders'[Len(orders) + 1].key = request[r].key
      <4>1. /\ orders'[Len(orders) + 1] = OrderFrom(request[r])
            /\ Len(orders) \in Nat /\ DOMAIN orders' = 1 .. Len(orders) + 1
        BY <1>1, <2>1, PlaceOrderAppends
      <4>2. QED
        BY <4>1 DEF OrderFrom
    <3>5. QED
      BY <3>3, <3>4 DEF IsOrder
  <2>2. CASE /\ request[r] # NoRequest /\ request'[r].order = request[r].order
             /\ request'[r].customer = request[r].customer /\ request'[r].key = request[r].key
    <3>1. IsOrder(request[r].order, request[r].customer, request[r].key)
      BY <2>2 DEF AnswersInv, InFlightOwn
    <3>2. QED
      BY <1>1, <2>2, <3>1, OrdersKept DEF IsOrder
  <2>3. QED
    BY <1>1, <2>1, <2>2, RequestsGoOn
<1>3. \A r \in Requests : request[r] # NoRequest /\ request[r].order # 0 =>
        IsOrder(request[r].order, request[r].customer, request[r].key)
  BY DEF AnswersInv, InFlightOwn
<1>4. \A s \in Sessions : cached[s] # 0 => IsOrder(cached[s], s[1], s[2])
  BY DEF AnswersInv, AnswersAreOwnOrders, IsOrder
<1>5. ASSUME NEW a \in answered' PROVE IsOrder(a.order, a.customer, a.key)'
  <2>1. CASE a \in answered
    <3>1. IsOrder(a.order, a.customer, a.key)
      BY <2>1 DEF AnswersInv, AnswersAreOwnOrders, IsOrder
    <3>2. QED
      BY <1>1, <3>1, OwnOrdersKept
  <2>2. CASE a \notin answered
    <3>1. PICK r \in Requests :
            /\ request[r] # NoRequest
            /\ a.customer = request[r].customer /\ a.key = request[r].key
            /\ \/ a.order = cached[Session(r)] /\ cached[Session(r)] # 0
               \/ a.order = request[r].order /\ request[r].order # 0
      BY <1>1, <1>5, <2>2, AnswersComeFrom
    <3>2. Session(r) \in Sessions /\ Session(r) = <<a.customer, a.key>>
      BY <1>1, <3>1, SessionIsSession
    <3>3. IsOrder(a.order, a.customer, a.key)
      BY <1>3, <1>4, <3>1, <3>2
    <3>4. QED
      BY <1>1, <3>3, OwnOrdersKept
  <2>3. QED
    BY <2>1, <2>2
<1>6. ASSUME NEW s \in Sessions, cached'[s] # 0 PROVE IsOrder(cached[s], s[1], s[2])'
  <2>1. CASE cached'[s] = cached[s]
    BY <1>1, <1>4, <1>6, <2>1, OrdersKept DEF IsOrder
  <2>2. CASE cached'[s] # cached[s]
    <3>1. PICK r \in Requests :
            /\ request[r] # NoRequest
            /\ s = <<request[r].customer, request[r].key>> /\ cached'[s] = request[r].order
      BY <1>1, <2>2, CacheComesFrom
    <3>2. IsOrder(cached'[s], s[1], s[2])
      BY <1>3, <1>6, <3>1
    <3>3. QED
      BY <1>1, <3>2, OrdersKept DEF IsOrder
  <2>3. QED
    BY <2>1, <2>2
<1>7. AnswersAreOwnOrders'
  BY <1>5, <1>6 DEF AnswersAreOwnOrders, IsOrder
<1>8. QED
  BY <1>1, <1>2, <1>7 DEF AnswersInv

LEMMA AnswersInitially == Init => AnswersInv
BY TypesInitially DEF Init, AnswersInv, InFlightOwn, AnswersAreOwnOrders

\* Whatever a client is told and whatever is cached for its retry is an order
\* this customer placed with this key, through every crash and expired lock.
THEOREM AnswersCorrect == Spec => []AnswersAreOwnOrders
<1>1. AnswersInv => AnswersAreOwnOrders
  BY DEF AnswersInv
<1>2. QED
  BY AnswersInitially, AnswersInductive, <1>1, PTL DEF Spec
-----------------------------------------------------------------------------
\* The orders that are in A.
Among(A) == {n \in DOMAIN orders : orders[n] \in A}

LEMMA AmongIsFinite == ASSUME TypeOK, NEW A PROVE IsFiniteSet(Among(A))
<1>1. DOMAIN orders = 1 .. Len(orders) /\ Len(orders) \in Nat
  BY DEF TypeOK
<1>2. IsFiniteSet(DOMAIN orders)
  BY <1>1, FS_Interval
<1>3. QED
  BY <1>2, FS_Subset DEF Among

LEMMA AmongGrows ==
  ASSUME TypeOK, NEW r \in Requests, PlaceOrder(r), NEW A
  PROVE  /\ Len(orders) + 1 \notin Among(A)
         /\ Among(A)' = IF OrderFrom(request[r]) \in A THEN Among(A) \cup {Len(orders) + 1}
                                                       ELSE Among(A)
<1>1. /\ Len(orders) \in Nat
      /\ DOMAIN orders = 1 .. Len(orders) /\ DOMAIN orders' = 1 .. Len(orders) + 1
      /\ \A n \in DOMAIN orders : orders'[n] = orders[n]
      /\ orders'[Len(orders) + 1] = OrderFrom(request[r])
  BY PlaceOrderAppends
<1>2. /\ DOMAIN orders' = DOMAIN orders \cup {Len(orders) + 1}
      /\ Len(orders) + 1 \notin DOMAIN orders
  BY <1>1
<1>3. QED
  BY <1>1, <1>2 DEF Among

LEMMA AmongCounted ==
  ASSUME TypeOK, NEW r \in Requests, PlaceOrder(r), NEW A
  PROVE  /\ Cardinality(Among(A)) \in Nat
         /\ Cardinality(Among(A)') = IF OrderFrom(request[r]) \in A
                                     THEN Cardinality(Among(A)) + 1 ELSE Cardinality(Among(A))
<1>1. IsFiniteSet(Among(A))
  BY AmongIsFinite
<1>2. Cardinality(Among(A)) \in Nat
  BY <1>1, FS_CardinalityType
<1>3. CASE OrderFrom(request[r]) \in A
  <2>1. Among(A)' = Among(A) \cup {Len(orders) + 1} /\ Len(orders) + 1 \notin Among(A)
    BY <1>3, AmongGrows
  <2>2. QED
    BY <1>1, <1>2, <1>3, <2>1, FS_AddElement
<1>4. CASE OrderFrom(request[r]) \notin A
  <2>1. Among(A)' = Among(A)
    BY <1>4, AmongGrows
  <2>2. QED
    BY <1>2, <1>4, <2>1
<1>5. QED
  BY <1>3, <1>4

\* Nobody but PlaceOrder touches what PostgreSQL keeps.
LEMMA PostgresUntouched ==
  ASSUME [Next]_vars, \A r \in Requests : ~PlaceOrder(r)
  PROVE  UNCHANGED postgres
BY DEF Next, checkout, vars, postgres, Arrive, Lookup, acquireLock, Relookup, readCart,
       Quote, FailToPlace, Remember, ClearCart, Unlock, FillCart, Crash, LockExpires

HasItem(i) == {o \in PlacedOrder : i \in o.cart.items}
HasCoupon == {o \in PlacedOrder : o.cart.coupon}

LEMMA CountsAreAmong ==
  ASSUME TypeOK
  PROVE  /\ \A i \in Items : OrdersWith(i) = Cardinality(Among(HasItem(i)))
         /\ CouponOrders = Cardinality(Among(HasCoupon))
<1>1. \A n \in DOMAIN orders : orders[n] \in PlacedOrder
  BY DEF TypeOK
<1>2. \A i \in Items : {n \in DOMAIN orders : i \in orders[n].cart.items} = Among(HasItem(i))
  BY <1>1 DEF Among, HasItem
<1>3. {n \in DOMAIN orders : orders[n].cart.coupon} = Among(HasCoupon)
  BY <1>1 DEF Among, HasCoupon
<1>4. QED
  BY <1>2, <1>3 DEF OrdersWith, CouponOrders

LEMMA StockInductive == TypeOK /\ StockAccounted /\ [Next]_vars => StockAccounted'
<1> SUFFICES ASSUME TypeOK, StockAccounted, [Next]_vars PROVE StockAccounted'
  OBVIOUS
<1>1. TypeOK'
  BY TypesInductive
<1>2. \A n \in DOMAIN orders' : orders'[n] \in PlacedOrder
  BY <1>1 DEF TypeOK
<1>3. CASE \A r \in Requests : ~PlaceOrder(r)
  <2>1. UNCHANGED postgres
    BY <1>3, PostgresUntouched
  <2>2. QED
    BY <2>1 DEF StockAccounted, OrdersWith, CouponOrders, postgres
<1>4. ASSUME NEW r \in Requests, PlaceOrder(r) PROVE StockAccounted'
  <2> DEFINE q == request[r]
             o == OrderFrom(q)
  <2>1. /\ o \in PlacedOrder
        /\ o.cart = q.cart
    BY <1>4, PlaceOrderAppends DEF OrderFrom
  <2>2. /\ WritesPossible(q)
        /\ stock' = [i \in Items |-> IF i \in q.cart.items THEN stock[i] - 1 ELSE stock[i]]
        /\ couponUses' = IF q.cart.coupon THEN couponUses + 1 ELSE couponUses
    BY <1>4 DEF PlaceOrder
  <2>3. Stock \in Nat /\ CouponLimit \in Nat
    BY BoundsAssumption
  <2>4. ASSUME NEW i \in Items
        PROVE  (OrdersWith(i) <= Stock /\ stock[i] = Stock - OrdersWith(i))'
    <3>1. OrdersWith(i) = Cardinality(Among(HasItem(i)))
      BY CountsAreAmong
    <3>2. OrdersWith(i)' = Cardinality(Among(HasItem(i))')
      <4>1. {n \in DOMAIN orders' : i \in orders'[n].cart.items} = Among(HasItem(i))'
        BY <1>2 DEF Among, HasItem
      <4>2. QED
        BY <4>1 DEF OrdersWith
    <3>3. o \in HasItem(i) <=> i \in q.cart.items
      BY <2>1 DEF HasItem
    <3>4. /\ OrdersWith(i) \in Nat
          /\ OrdersWith(i)' = IF i \in q.cart.items THEN OrdersWith(i) + 1 ELSE OrdersWith(i)
      BY <1>4, <3>1, <3>2, <3>3, AmongCounted
    <3>5. OrdersWith(i) <= Stock /\ stock[i] = Stock - OrdersWith(i)
      BY DEF StockAccounted
    <3>6. i \in q.cart.items => stock[i] >= 1
      BY <2>2 DEF WritesPossible
    <3>7. stock'[i] = IF i \in q.cart.items THEN stock[i] - 1 ELSE stock[i]
      BY <2>2
    <3>8. QED
      BY <2>3, <3>4, <3>5, <3>6, <3>7
  <2>5. (couponUses = CouponOrders /\ CouponOrders <= CouponLimit)'
    <3>1. CouponOrders = Cardinality(Among(HasCoupon))
      BY CountsAreAmong
    <3>2. CouponOrders' = Cardinality(Among(HasCoupon)')
      <4>1. {n \in DOMAIN orders' : orders'[n].cart.coupon} = Among(HasCoupon)'
        BY <1>2 DEF Among, HasCoupon
      <4>2. QED
        BY <4>1 DEF CouponOrders
    <3>3. o \in HasCoupon <=> q.cart.coupon
      BY <2>1 DEF HasCoupon
    <3>4. /\ CouponOrders \in Nat
          /\ CouponOrders' = IF q.cart.coupon THEN CouponOrders + 1 ELSE CouponOrders
      BY <1>4, <3>1, <3>2, <3>3, AmongCounted
    <3>5. couponUses = CouponOrders /\ CouponOrders <= CouponLimit
      BY DEF StockAccounted
    <3>6. q.cart.coupon => couponUses < CouponLimit
      BY <2>2 DEF WritesPossible
    <3>7. QED
      BY <2>2, <2>3, <3>4, <3>5, <3>6
  <2>6. QED
    BY <2>4, <2>5 DEF StockAccounted
<1>5. QED
  BY <1>3, <1>4

LEMMA StockInitially == Init => StockAccounted
<1> SUFFICES ASSUME Init PROVE StockAccounted
  OBVIOUS
<1>1. DOMAIN orders = {}
  BY DEF Init
<1>2. CouponOrders = 0 /\ \A i \in Items : OrdersWith(i) = 0
  BY <1>1, FS_EmptySet DEF CouponOrders, OrdersWith
<1>3. QED
  BY <1>2, BoundsAssumption DEF Init, StockAccounted

\* However many checkouts quoted the same last unit or the last use of the
\* coupon, neither is given out more often than there was of it, and a failed
\* checkout takes nothing of either.
THEOREM StockCorrect == Spec => []StockAccounted
BY TypesInitially, TypesInductive, StockInitially, StockInductive, PTL DEF Spec
-----------------------------------------------------------------------------
\* A new order adds what it comes to to the totals that count it.
LEMMA TotalGrows ==
  ASSUME TypeOK, NEW r \in Requests, PlaceOrder(r), NEW A
  PROVE  /\ Total(Among(A)) \in Int
         /\ Total(Among(A))' =
              IF OrderFrom(request[r]) \in A THEN Total(Among(A)) + Amount(request[r].cart)
                                             ELSE Total(Among(A))
<1> DEFINE f == [n \in DOMAIN orders |-> Amount(orders[n].cart)]
           g == [n \in DOMAIN orders' |-> Amount(orders'[n].cart)]
           N == Among(A)
           new == Len(orders) + 1
<1>1. /\ new \in DOMAIN orders' /\ DOMAIN orders \subseteq DOMAIN orders'
      /\ \A n \in DOMAIN orders : orders'[n] = orders[n]
      /\ orders'[new].cart = request[r].cart
      /\ request[r].cart \in Cart
  <2>1. /\ Len(orders) \in Nat
        /\ DOMAIN orders = 1 .. Len(orders) /\ DOMAIN orders' = 1 .. Len(orders) + 1
        /\ \A n \in DOMAIN orders : orders'[n] = orders[n]
        /\ orders'[Len(orders) + 1] = OrderFrom(request[r])
        /\ request[r] \in Request
    BY PlaceOrderAppends
  <2>2. QED
    BY <2>1 DEF OrderFrom, Request
<1>2. IsFiniteSet(N) /\ N \subseteq DOMAIN orders
  BY AmongIsFinite DEF Among
<1>3. \A n \in N : f[n] \in Int
  <2>1. \A n \in N : orders[n].cart \in Cart
    <3>1. \A n \in DOMAIN orders : orders[n] \in PlacedOrder
      BY DEF TypeOK
    <3>2. QED
      BY <1>2, <3>1 DEF PlacedOrder
  <2>2. QED
    BY <1>2, <2>1, AmountIsInt
<1>4. \A n \in N : f[n] = g[n]
  BY <1>1, <1>2
<1>5. Amount(request[r].cart) \in Int /\ g[new] = Amount(request[r].cart)
  BY <1>1, AmountIsInt
<1>6. SumFunctionOnSet(f, N) \in Int
  BY <1>2, <1>3, SumIsInt
<1>7. SumFunctionOnSet(f, N) = SumFunctionOnSet(g, N)
  BY <1>2, <1>4, SumOfSame
<1>8. new \notin N
      /\ N' = IF OrderFrom(request[r]) \in A THEN N \cup {new} ELSE N
  BY AmongGrows
<1>9. SumFunctionOnSet(g, N \cup {new}) = SumFunctionOnSet(g, N) + g[new]
  <2>1. \A n \in N \cup {new} : g[n] \in Int
    BY <1>3, <1>4, <1>5
  <2>2. QED
    BY <1>2, <1>8, <2>1, SumAdds
<1>10. Total(N)' = SumFunctionOnSet(g, N')
  BY DEF Total, Amount
<1>11. Total(N) = SumFunctionOnSet(f, N)
  BY DEF Total
<1>12. CASE OrderFrom(request[r]) \in A
  BY <1>5, <1>6, <1>7, <1>8, <1>9, <1>10, <1>11, <1>12
<1>13. CASE OrderFrom(request[r]) \notin A
  BY <1>6, <1>7, <1>8, <1>10, <1>11, <1>13
<1>14. QED
  BY <1>12, <1>13

Paid == {o \in PlacedOrder : o.method = "WALLET"}
PaidBy(c) == {o \in PlacedOrder : o.method = "WALLET" /\ o.customer = c}

LEMMA PaidAreAmong ==
  ASSUME TypeOK
  PROVE  /\ WalletOrders = Among(Paid)
         /\ \A c \in Customers :
              {n \in WalletOrders : orders[n].customer = c} = Among(PaidBy(c))
BY DEF TypeOK, WalletOrders, Among, Paid, PaidBy

\* The balances, with the orders they are made of.
Balances ==
  /\ \A c \in Customers : wallet[c] = Funds - Total(Among(PaidBy(c)))
  /\ wallet[Owner] = Total(Among(Paid))

LEMMA BalancesAreAccounted == TypeOK => (WalletAccounted <=> Balances)
BY PaidAreAmong DEF WalletAccounted, Balances

LEMMA BalancesInductive == TypeOK /\ Balances /\ [Next]_vars => Balances'
<1> SUFFICES ASSUME TypeOK, Balances, [Next]_vars PROVE Balances'
  OBVIOUS
<1>1. CASE \A r \in Requests : ~PlaceOrder(r)
  <2>1. UNCHANGED postgres
    BY <1>1, PostgresUntouched
  <2>2. QED
    BY <2>1 DEF Balances, Total, Among, Amount, postgres, PaidBy, Paid, PlacedOrder, Cart, Methods
<1>2. ASSUME NEW r \in Requests, PlaceOrder(r) PROVE Balances'
  <2> DEFINE q == request[r]
             o == OrderFrom(q)
             a == Amount(q.cart)
  <2>1. /\ q \in Request /\ o \in PlacedOrder
        /\ o.method = q.method /\ o.customer = q.customer
    BY <1>2, PlaceOrderAppends DEF OrderFrom
  <2>2. q.customer \in Customers /\ a \in Int
    BY <2>1, AmountIsInt DEF Request
  <2>3. wallet' = IF q.method = "WALLET"
                  THEN [wallet EXCEPT ![q.customer] = @ - a, ![Owner] = @ + a]
                  ELSE wallet
    BY <1>2 DEF PlaceOrder
  <2>4. wallet \in [Customers \cup {Owner} -> Int] /\ Funds \in Nat /\ Owner \notin Customers
    BY BoundsAssumption, OwnerAssumption DEF TypeOK
  <2>5. ASSUME NEW c \in Customers PROVE wallet'[c] = Funds - Total(Among(PaidBy(c)))'
    <3>1. o \in PaidBy(c) <=> q.method = "WALLET" /\ q.customer = c
      BY <2>1 DEF PaidBy
    <3>2. /\ Total(Among(PaidBy(c))) \in Int
          /\ Total(Among(PaidBy(c)))' = IF o \in PaidBy(c) THEN Total(Among(PaidBy(c))) + a
                                                           ELSE Total(Among(PaidBy(c)))
      BY <1>2, TotalGrows DEF PaidBy
    <3>3. wallet[c] = Funds - Total(Among(PaidBy(c)))
      BY DEF Balances
    <3>4. wallet'[c] = IF q.method = "WALLET" /\ q.customer = c THEN wallet[c] - a ELSE wallet[c]
      BY <2>2, <2>3, <2>4
    <3>5. QED
      BY <2>2, <2>4, <3>1, <3>2, <3>3, <3>4
  <2>6. wallet'[Owner] = Total(Among(Paid))'
    <3>1. o \in Paid <=> q.method = "WALLET"
      BY <2>1 DEF Paid
    <3>2. /\ Total(Among(Paid)) \in Int
          /\ Total(Among(Paid))' = IF o \in Paid THEN Total(Among(Paid)) + a
                                                 ELSE Total(Among(Paid))
      BY <1>2, TotalGrows DEF Paid
    <3>3. wallet[Owner] = Total(Among(Paid))
      BY DEF Balances
    <3>4. wallet'[Owner] = IF q.method = "WALLET" THEN wallet[Owner] + a ELSE wallet[Owner]
      BY <2>2, <2>3, <2>4
    <3>5. QED
      BY <2>2, <2>4, <3>1, <3>2, <3>3, <3>4
  <2>7. QED
    BY <2>5, <2>6 DEF Balances, PaidBy
<1>3. QED
  BY <1>1, <1>2

LEMMA BalancesInitially == Init => Balances
<1> SUFFICES ASSUME Init PROVE Balances
  OBVIOUS
<1>1. \A A : Among(A) = {}
  BY DEF Init, Among
<1>2. Total({}) = 0
  BY SumOfNothing DEF Total
<1>3. QED
  <2>1. Total(Among(Paid)) = 0 /\ \A c \in Customers : Total(Among(PaidBy(c))) = 0
    <3>1. Among(Paid) = {} /\ \A c \in Customers : Among(PaidBy(c)) = {}
      BY <1>1
    <3>2. QED
      BY <1>2, <3>1, Zenon
  <2>2. wallet[Owner] = 0 /\ \A c \in Customers : wallet[c] = Funds
    BY OwnerAssumption DEF Init
  <2>3. QED
    BY <2>1, <2>2, BoundsAssumption DEF Balances

\* The ledger agrees with the orders: a customer has paid for the customer's
\* wallet orders and for nothing else, and the store's owner has received it,
\* whatever crashed, failed or was retried.
THEOREM WalletCorrect == Spec => []WalletAccounted
<1>1. TypeOK /\ Balances => WalletAccounted
  BY BalancesAreAccounted
<1>2. QED
  BY TypesInitially, TypesInductive, BalancesInitially, BalancesInductive, <1>1, PTL DEF Spec
-----------------------------------------------------------------------------
\* The phases between taking the session's lock and giving it back.
Critical == {"readCart", "quote", "place", "remember", "clearCart", "unlock"}
Holds(r) == request[r] # NoRequest /\ request[r].phase \in Critical
Ordered(c, k) == \E n \in DOMAIN orders : orders[n].customer = c /\ orders[n].key = k

HoldersHaveLock == \A r \in Requests : Holds(r) => lock[Session(r)]
OneHolder ==
  \A r, s \in Requests : Holds(r) /\ Holds(s) /\ Session(r) = Session(s) => r = s

\* Who is about to place an order is the first of its session.
NoOrderBefore ==
  \A r \in Requests : At(r, "quote") \/ At(r, "place") =>
    ~Ordered(request[r].customer, request[r].key)

\* After the order of a session, its cart is empty, or nobody reads it: the lock
\* is taken, and not by a request that has not placed the order.
OrderedIsOver ==
  \A c \in Customers, k \in Keys : Ordered(c, k) =>
    \/ cart[c].items = {}
    \/ /\ lock[<<c, k>>]
       /\ \A r \in Requests : Holds(r) /\ Session(r) = <<c, k>> =>
            request[r].phase \in {"remember", "clearCart"}

OneEach ==
  \A m, n \in DOMAIN orders :
    orders[m].customer = orders[n].customer /\ orders[m].key = orders[n].key => m = n

Undisturbed == spent.expiries = 0 /\ spent.refills = 0
OneOrderInv == HoldersHaveLock /\ OneHolder /\ NoOrderBefore /\ OrderedIsOver /\ OneEach

\* The locks and the orders of the other requests do not depend on what r does.
LEMMA OthersStay ==
  ASSUME NEW r \in Requests, \A s \in Requests : s # r => request'[s] = request[s]
  PROVE  \A s \in Requests : s # r =>
           /\ Holds(s)' = Holds(s) /\ Session(s)' = Session(s)
           /\ At(s, "quote")' = At(s, "quote") /\ At(s, "place")' = At(s, "place")
BY DEF Holds, Session, At

\* A request that moves on keeps its session.
LEMMA MovesOn ==
  ASSUME TypeOK, NEW r \in Requests, NEW phase \in Phases, request[r] # NoRequest, Goto(r, phase)
  PROVE  /\ request'[r] # NoRequest /\ request'[r].phase = phase
         /\ request'[r].customer = request[r].customer /\ request'[r].key = request[r].key
         /\ Session(r)' = Session(r)
         /\ Holds(r)' = (phase \in Critical)
         /\ \A s \in Requests : s # r =>
              /\ request'[s] = request[s]
              /\ Holds(s)' = Holds(s) /\ Session(s)' = Session(s)
              /\ At(s, "quote")' = At(s, "quote") /\ At(s, "place")' = At(s, "place")
<1>1. /\ request[r] \in Request /\ request'[r] \in Request
      /\ request'[r] = [request[r] EXCEPT !.phase = phase]
      /\ \A s \in Requests : s # r => request'[s] = request[s]
  BY GotoChanges
<1>2. /\ request'[r].phase = phase
      /\ request'[r].customer = request[r].customer /\ request'[r].key = request[r].key
  BY <1>1 DEF Request
<1>3. request'[r] # NoRequest
  BY <1>1, RequestIsNot
<1>4. Session(r)' = Session(r) /\ Holds(r)' = (phase \in Critical)
  BY <1>2, <1>3 DEF Session, Holds
<1>5. QED
  BY <1>1, <1>2, <1>3, <1>4, OthersStay

\* Steps before the lock, and those that end a request without giving it back.
LEMMA OutsideTheLock ==
  ASSUME TypeOK, OneOrderInv, NEW r \in Requests, UNCHANGED <<orders, cart, lock>>,
         \A s \in Requests : s # r => request'[s] = request[s],
         request'[r] = NoRequest \/ request'[r].phase \notin Critical
  PROVE  OneOrderInv'
<1>1. ~Holds(r)' /\ ~At(r, "quote")' /\ ~At(r, "place")'
  BY DEF Holds, At, Critical
<1>2. \A s \in Requests : s # r =>
        /\ Holds(s)' = Holds(s) /\ Session(s)' = Session(s)
        /\ At(s, "quote")' = At(s, "quote") /\ At(s, "place")' = At(s, "place")
  BY OthersStay
<1>3. HoldersHaveLock' /\ OneHolder'
  BY <1>1, <1>2 DEF OneOrderInv, HoldersHaveLock, OneHolder
<1>4. NoOrderBefore'
  BY <1>1, <1>2 DEF OneOrderInv, NoOrderBefore, Ordered
<1>5. OrderedIsOver'
  BY <1>1, <1>2 DEF OneOrderInv, OrderedIsOver, Ordered
<1>6. QED
  BY <1>3, <1>4, <1>5 DEF OneOrderInv, OneEach

\* A request that had no lock takes one that nobody has.
LEMMA LockTaken ==
  ASSUME TypeOK, OneOrderInv, NEW r \in Requests, request[r] # NoRequest,
         ~lock[Session(r)], Goto(r, "readCart"), lock' = [lock EXCEPT ![Session(r)] = TRUE],
         UNCHANGED <<orders, cart>>
  PROVE  OneOrderInv'
<1>1. /\ request'[r] # NoRequest /\ request'[r].phase = "readCart"
      /\ Session(r)' = Session(r) /\ Holds(r)'
      /\ \A s \in Requests : s # r =>
           /\ request'[s] = request[s]
           /\ Holds(s)' = Holds(s) /\ Session(s)' = Session(s)
           /\ At(s, "quote")' = At(s, "quote") /\ At(s, "place")' = At(s, "place")
  BY MovesOn DEF Phases, Critical
<1>2. Session(r) \in Sessions /\ lock \in [Sessions -> BOOLEAN]
  BY SessionIsSession DEF TypeOK
<1>3. \A s \in Requests : request[s] # NoRequest => Session(s) \in Sessions
  BY SessionIsSession
<1>4. \A s \in Requests : Holds(s) => lock[Session(s)]
  BY DEF OneOrderInv, HoldersHaveLock
<1>5. HoldersHaveLock'
  <2> SUFFICES ASSUME NEW s \in Requests, Holds(s)' PROVE lock'[Session(s)']
    BY DEF HoldersHaveLock
  <2>1. CASE s = r
    BY <1>1, <1>2, <2>1
  <2>2. CASE s # r
    <3>1. Holds(s) /\ Session(s)' = Session(s) /\ Session(s) \in Sessions
      BY <1>1, <1>3, <2>2 DEF Holds
    <3>2. QED
      BY <1>2, <1>4, <3>1
  <2>3. QED
    BY <2>1, <2>2
<1>6. OneHolder'
  BY <1>1, <1>4 DEF OneOrderInv, OneHolder
<1>7. NoOrderBefore'
  <2>1. ~At(r, "quote")' /\ ~At(r, "place")'
    BY <1>1 DEF At
  <2>2. QED
    BY <1>1, <2>1 DEF OneOrderInv, NoOrderBefore, Ordered
<1>8. OrderedIsOver'
  <2> SUFFICES ASSUME NEW c \in Customers, NEW k \in Keys, Ordered(c, k), cart[c].items # {}
               PROVE  /\ lock'[<<c, k>>]
                      /\ \A s \in Requests : Holds(s)' /\ Session(s)' = <<c, k>> =>
                           request'[s].phase \in {"remember", "clearCart"}
    BY DEF OrderedIsOver, Ordered
  <2>1. /\ lock[<<c, k>>]
        /\ \A s \in Requests : Holds(s) /\ Session(s) = <<c, k>> =>
             request[s].phase \in {"remember", "clearCart"}
    BY DEF OneOrderInv, OrderedIsOver
  <2>2. Session(r) # <<c, k>>
    BY <2>1
  <2>3. lock'[<<c, k>>]
    BY <1>2, <2>1 DEF Sessions
  <2>4. QED
    BY <1>1, <2>1, <2>2, <2>3
<1>9. QED
  BY <1>5, <1>6, <1>7, <1>8 DEF OneOrderInv, OneEach

\* A request that has the lock goes on, to a phase in which it has it, but not
\* to the transaction after the order.
LEMMA UnderTheLock ==
  ASSUME TypeOK, OneOrderInv, NEW r \in Requests, Holds(r), UNCHANGED <<orders, cart, lock>>,
         \A s \in Requests : s # r => request'[s] = request[s],
         Holds(r)', Session(r)' = Session(r),
         request'[r].customer = request[r].customer, request'[r].key = request[r].key,
         At(r, "quote")' \/ At(r, "place")' => ~Ordered(request[r].customer, request[r].key),
         \/ request'[r].phase \in {"remember", "clearCart"}
         \/ cart[request[r].customer].items = {}
         \/ ~Ordered(request[r].customer, request[r].key)
  PROVE  OneOrderInv'
<1>1. \A s \in Requests : s # r =>
        /\ Holds(s)' = Holds(s) /\ Session(s)' = Session(s)
        /\ At(s, "quote")' = At(s, "quote") /\ At(s, "place")' = At(s, "place")
  BY OthersStay
<1>2. HoldersHaveLock' /\ OneHolder'
  BY <1>1 DEF OneOrderInv, HoldersHaveLock, OneHolder
<1>3. NoOrderBefore'
  BY <1>1 DEF OneOrderInv, NoOrderBefore, Ordered
<1>4. OrderedIsOver'
  <2> SUFFICES ASSUME NEW c \in Customers, NEW k \in Keys, Ordered(c, k), cart[c].items # {}
               PROVE  /\ lock[<<c, k>>]
                      /\ \A s \in Requests : Holds(s)' /\ Session(s)' = <<c, k>> =>
                           request'[s].phase \in {"remember", "clearCart"}
    BY DEF OrderedIsOver, Ordered
  <2>1. /\ lock[<<c, k>>]
        /\ \A s \in Requests : Holds(s) /\ Session(s) = <<c, k>> =>
             request[s].phase \in {"remember", "clearCart"}
    BY DEF OneOrderInv, OrderedIsOver
  <2>2. Session(r) = <<c, k>> => request'[r].phase \in {"remember", "clearCart"}
    BY DEF Session
  <2>3. QED
    BY <1>1, <2>1, <2>2
<1>5. QED
  BY <1>2, <1>3, <1>4 DEF OneOrderInv, OneEach

\* The order is placed by the one request that has the lock, once.
LEMMA PlacedUnderTheLock ==
  ASSUME TypeOK, OneOrderInv, NEW r \in Requests, PlaceOrder(r)
  PROVE  OneOrderInv'
<1> DEFINE q == request[r]
           new == [q EXCEPT !.order = Len(orders) + 1, !.phase = "remember"]
<1>1. /\ q \in Request /\ q # NoRequest /\ q.phase = "place"
      /\ request' = [request EXCEPT ![r] = new]
      /\ UNCHANGED <<cart, lock>>
  BY PlaceOrderAppends DEF PlaceOrder, At, redis
<1>2. /\ request'[r] = new /\ \A s \in Requests : s # r => request'[s] = request[s]
  BY <1>1 DEF TypeOK
<1>3. new.phase = "remember" /\ new.customer = q.customer /\ new.key = q.key
  BY <1>1 DEF Request
<1>4. new # NoRequest
  <2>1. Len(orders) + 1 \in Nat
    BY PlaceOrderAppends
  <2>2. QED
    BY <1>1, <2>1, PlacedIsRequest, RequestIsNot
<1>5. /\ Holds(r) /\ Holds(r)' /\ Session(r)' = Session(r) /\ Session(r) = <<q.customer, q.key>>
      /\ ~At(r, "quote")' /\ ~At(r, "place")' /\ At(r, "place")
  BY <1>1, <1>2, <1>3, <1>4 DEF Holds, Session, At, Critical
<1>6. \A s \in Requests : s # r =>
        /\ Holds(s)' = Holds(s) /\ Session(s)' = Session(s)
        /\ At(s, "quote")' = At(s, "quote") /\ At(s, "place")' = At(s, "place")
  BY <1>2, OthersStay
<1>7. ~Ordered(q.customer, q.key)
  BY <1>5 DEF OneOrderInv, NoOrderBefore
<1>8. /\ Len(orders) \in Nat
      /\ DOMAIN orders = 1 .. Len(orders) /\ DOMAIN orders' = DOMAIN orders \cup {Len(orders) + 1}
      /\ \A n \in DOMAIN orders : orders'[n] = orders[n]
      /\ orders'[Len(orders) + 1].customer = q.customer /\ orders'[Len(orders) + 1].key = q.key
  <2>1. /\ Len(orders) \in Nat
        /\ DOMAIN orders = 1 .. Len(orders) /\ DOMAIN orders' = 1 .. Len(orders) + 1
        /\ \A n \in DOMAIN orders : orders'[n] = orders[n]
        /\ orders'[Len(orders) + 1] = OrderFrom(q)
    BY PlaceOrderAppends
  <2>2. QED
    BY <2>1 DEF OrderFrom
<1>9. \A c, k : Ordered(c, k)' <=> Ordered(c, k) \/ (c = q.customer /\ k = q.key)
  BY <1>8 DEF Ordered
<1>10. HoldersHaveLock' /\ OneHolder'
  BY <1>1, <1>5, <1>6 DEF OneOrderInv, HoldersHaveLock, OneHolder
<1>11. NoOrderBefore'
  <2> SUFFICES ASSUME NEW s \in Requests, (At(s, "quote") \/ At(s, "place"))'
               PROVE  ~Ordered(request[s].customer, request[s].key)'
    BY DEF NoOrderBefore
  <2>1. s # r /\ request'[s] = request[s] /\ (At(s, "quote") \/ At(s, "place"))
    BY <1>2, <1>5, <1>6
  <2>2. ~Ordered(request[s].customer, request[s].key)
    BY <2>1 DEF OneOrderInv, NoOrderBefore
  <2>3. Holds(s) /\ Session(s) # Session(r)
    BY <1>5, <2>1 DEF OneOrderInv, OneHolder, Holds, At, Critical
  <2>4. QED
    BY <1>5, <1>9, <2>1, <2>2, <2>3 DEF Session
<1>12. OrderedIsOver'
  <2> SUFFICES ASSUME NEW c \in Customers, NEW k \in Keys, Ordered(c, k)', cart[c].items # {}
               PROVE  /\ lock[<<c, k>>]
                      /\ \A s \in Requests : Holds(s)' /\ Session(s)' = <<c, k>> =>
                           request'[s].phase \in {"remember", "clearCart"}
    BY <1>1 DEF OrderedIsOver
  <2>1. CASE c = q.customer /\ k = q.key
    <3>1. lock[<<c, k>>]
      BY <1>5, <2>1 DEF OneOrderInv, HoldersHaveLock
    <3>2. \A s \in Requests : Holds(s)' /\ Session(s)' = <<c, k>> => s = r
      BY <1>5, <1>6, <2>1 DEF OneOrderInv, OneHolder
    <3>3. QED
      BY <1>2, <1>3, <3>1, <3>2
  <2>2. CASE ~(c = q.customer /\ k = q.key)
    <3>1. /\ lock[<<c, k>>]
          /\ \A s \in Requests : Holds(s) /\ Session(s) = <<c, k>> =>
               request[s].phase \in {"remember", "clearCart"}
      BY <1>9, <2>2 DEF OneOrderInv, OrderedIsOver
    <3>2. QED
      BY <1>2, <1>3, <1>6, <3>1
  <2>3. QED
    BY <2>1, <2>2
<1>13. OneEach'
  <2>1. \A n \in DOMAIN orders : ~(orders[n].customer = q.customer /\ orders[n].key = q.key)
    BY <1>7 DEF Ordered
  <2>2. QED
    BY <1>8, <2>1 DEF OneOrderInv, OneEach
<1>14. QED
  BY <1>10, <1>11, <1>12, <1>13 DEF OneOrderInv

LEMMA CartCleared ==
  ASSUME TypeOK, OneOrderInv, NEW r \in Requests, ClearCart(r)
  PROVE  OneOrderInv'
<1>1. /\ request[r] # NoRequest /\ request[r].phase = "clearCart" /\ Goto(r, "unlock")
      /\ cart' = [cart EXCEPT ![request[r].customer] = EmptyCart] /\ UNCHANGED <<orders, lock>>
  BY DEF ClearCart, At, postgres
<1>2. Holds(r)
  BY <1>1 DEF Holds, Critical
<1>3. /\ request'[r].phase = "unlock" /\ Session(r)' = Session(r) /\ Holds(r)'
      /\ \A s \in Requests : s # r =>
           /\ request'[s] = request[s]
           /\ Holds(s)' = Holds(s) /\ Session(s)' = Session(s)
           /\ At(s, "quote")' = At(s, "quote") /\ At(s, "place")' = At(s, "place")
  BY <1>1, MovesOn DEF Phases, Critical
<1>4. HoldersHaveLock' /\ OneHolder'
  BY <1>1, <1>2, <1>3 DEF OneOrderInv, HoldersHaveLock, OneHolder
<1>5. NoOrderBefore'
  <2>1. ~At(r, "quote")' /\ ~At(r, "place")'
    BY <1>3 DEF At
  <2>2. QED
    BY <1>1, <1>3, <2>1 DEF OneOrderInv, NoOrderBefore, Ordered
<1>6. OrderedIsOver'
  <2> SUFFICES ASSUME NEW c \in Customers, NEW k \in Keys, Ordered(c, k), cart'[c].items # {}
               PROVE  /\ lock[<<c, k>>]
                      /\ \A s \in Requests : Holds(s)' /\ Session(s)' = <<c, k>> =>
                           request'[s].phase \in {"remember", "clearCart"}
    BY <1>1 DEF OrderedIsOver, Ordered
  <2>1. c # request[r].customer /\ cart'[c] = cart[c]
    BY <1>1 DEF EmptyCart, TypeOK
  <2>2. /\ lock[<<c, k>>]
        /\ \A s \in Requests : Holds(s) /\ Session(s) = <<c, k>> =>
             request[s].phase \in {"remember", "clearCart"}
    BY <2>1 DEF OneOrderInv, OrderedIsOver
  <2>3. Session(r) # <<c, k>>
    BY <2>1 DEF Session
  <2>4. QED
    BY <1>3, <2>2, <2>3
<1>7. QED
  BY <1>1, <1>4, <1>5, <1>6 DEF OneOrderInv, OneEach

LEMMA LockGivenBack ==
  ASSUME TypeOK, OneOrderInv, NEW r \in Requests, Unlock(r)
  PROVE  OneOrderInv'
<1>1. /\ request[r] # NoRequest /\ request[r].phase = "unlock"
      /\ request' = [request EXCEPT ![r] = NoRequest]
      /\ lock' = [lock EXCEPT ![Session(r)] = FALSE] /\ UNCHANGED <<orders, cart>>
  BY DEF Unlock, Answer, At, postgres
<1>2. request'[r] = NoRequest /\ \A s \in Requests : s # r => request'[s] = request[s]
  BY <1>1, SlotFreed
<1>3. Holds(r) /\ ~Holds(r)' /\ ~At(r, "quote")' /\ ~At(r, "place")'
  BY <1>1, <1>2 DEF Holds, At, Critical
<1>4. \A s \in Requests : s # r =>
        /\ Holds(s)' = Holds(s) /\ Session(s)' = Session(s)
        /\ At(s, "quote")' = At(s, "quote") /\ At(s, "place")' = At(s, "place")
  BY <1>2, OthersStay
<1>5. lock \in [Sessions -> BOOLEAN]
  BY DEF TypeOK
<1>6. HoldersHaveLock'
  <2> SUFFICES ASSUME NEW s \in Requests, Holds(s)' PROVE lock'[Session(s)']
    BY DEF HoldersHaveLock
  <2>1. s # r /\ Holds(s) /\ Session(s)' = Session(s)
    BY <1>3, <1>4
  <2>2. Session(s) # Session(r) /\ lock[Session(s)] /\ Session(s) \in Sessions
    BY <1>3, <2>1, SessionIsSession DEF OneOrderInv, OneHolder, HoldersHaveLock, Holds
  <2>3. QED
    BY <1>1, <1>5, <2>1, <2>2
<1>7. OneHolder'
  BY <1>3, <1>4 DEF OneOrderInv, OneHolder
<1>8. NoOrderBefore'
  BY <1>1, <1>2, <1>3, <1>4 DEF OneOrderInv, NoOrderBefore, Ordered
<1>9. OrderedIsOver'
  <2> SUFFICES ASSUME NEW c \in Customers, NEW k \in Keys, Ordered(c, k), cart[c].items # {}
               PROVE  /\ lock'[<<c, k>>]
                      /\ \A s \in Requests : Holds(s)' /\ Session(s)' = <<c, k>> =>
                           request'[s].phase \in {"remember", "clearCart"}
    BY <1>1 DEF OrderedIsOver, Ordered
  <2>1. /\ lock[<<c, k>>]
        /\ \A s \in Requests : Holds(s) /\ Session(s) = <<c, k>> =>
             request[s].phase \in {"remember", "clearCart"}
    BY DEF OneOrderInv, OrderedIsOver
  <2>2. Session(r) # <<c, k>>
    BY <1>1, <1>3, <2>1
  <2>3. lock'[<<c, k>>]
    BY <1>1, <1>5, <2>1, <2>2 DEF Sessions
  <2>4. QED
    BY <1>2, <1>3, <1>4, <2>1, <2>3
<1>10. QED
  BY <1>1, <1>6, <1>7, <1>8, <1>9 DEF OneOrderInv, OneEach

LEMMA OneOrderInductive ==
  TypeOK /\ (Undisturbed => OneOrderInv) /\ [Next]_vars => (Undisturbed => OneOrderInv)'
<1> SUFFICES ASSUME TypeOK, Undisturbed => OneOrderInv, [Next]_vars, Undisturbed'
             PROVE  OneOrderInv'
  OBVIOUS
<1>1. TypeOK'
  BY TypesInductive
<1>2. ASSUME NEW c \in Customers, NEW content \in Cart, FillCart(c, content) PROVE FALSE
  BY <1>2 DEF FillCart, Undisturbed, TypeOK
<1>3. ASSUME NEW s \in Sessions, LockExpires(s) PROVE FALSE
  BY <1>3 DEF LockExpires, Undisturbed, TypeOK
<1>4. Undisturbed
  <2>1. spent'.expiries = spent.expiries /\ spent'.refills = spent.refills
    BY <1>2, <1>3 DEF Next, checkout, vars, TypeOK, Arrive, Lookup, acquireLock, Relookup,
         readCart, Quote, PlaceOrder, FailToPlace, Remember, ClearCart, Unlock, Crash
  <2>2. QED
    BY <2>1 DEF Undisturbed
<1>5. OneOrderInv
  BY <1>4
<1>6. ASSUME NEW r \in Requests, NEW c \in Customers, NEW k \in Keys, NEW method \in Methods,
             Arrive(r, c, k, method)
      PROVE  OneOrderInv'
  <2>1. /\ request'[r].phase = "lookup" /\ \A s \in Requests : s # r => request'[s] = request[s]
        /\ UNCHANGED <<orders, cart, lock>>
    BY <1>6 DEF Arrive, TypeOK, redis, postgres
  <2>2. QED
    BY <1>5, <2>1, OutsideTheLock DEF Critical
<1>7. ASSUME NEW r \in Requests, request' = [request EXCEPT ![r] = NoRequest],
             UNCHANGED <<orders, cart, lock>>
      PROVE  OneOrderInv'
  BY <1>5, <1>7, SlotFreed, OutsideTheLock
<1>8. ASSUME NEW r \in Requests, NEW phase \in {"lock", "relookup"}, request[r] # NoRequest,
             Goto(r, phase), UNCHANGED <<orders, cart, lock>>
      PROVE  OneOrderInv'
  <2>1. phase \in Phases /\ phase \notin Critical
    BY <1>8 DEF Phases, Critical
  <2>2. request'[r].phase = phase /\ \A s \in Requests : s # r => request'[s] = request[s]
    BY <1>8, <2>1, MovesOn
  <2>3. QED
    BY <1>5, <1>8, <2>1, <2>2, OutsideTheLock
<1>9. ASSUME NEW r \in Requests, Lookup(r) \/ acquireLock(r) \/ Relookup(r) \/ Crash(r)
      PROVE  OneOrderInv'
  <2>1. CASE acquireLock(r) /\ ~lock[Session(r)]
    <3>1. /\ request[r] # NoRequest /\ Goto(r, "readCart")
          /\ lock' = [lock EXCEPT ![Session(r)] = TRUE] /\ UNCHANGED <<orders, cart>>
      BY <2>1 DEF acquireLock, At, postgres
    <3>2. QED
      BY <1>5, <2>1, <3>1, LockTaken
  <2>2. CASE ~(acquireLock(r) /\ ~lock[Session(r)])
    <3>1. UNCHANGED <<orders, cart, lock>> /\ request[r] # NoRequest
      BY <1>9, <2>2 DEF Lookup, acquireLock, Relookup, Crash, At, redis, postgres
    <3>2. \/ request' = [request EXCEPT ![r] = NoRequest]
          \/ Goto(r, "lock") \/ Goto(r, "relookup")
      BY <1>9, <2>2 DEF Lookup, acquireLock, Relookup, Crash, Answer
    <3>3. QED
      BY <1>7, <1>8, <3>1, <3>2
  <2>3. QED
    BY <2>1, <2>2
<1>10. ASSUME NEW r \in Requests, readCart(r) PROVE OneOrderInv'
  <2> DEFINE c == cart[request[r].customer]
             q == [request[r] EXCEPT !.cart = c,
                                     !.phase = IF c.items = {} THEN "unlock" ELSE "quote"]
  <2>1. /\ request[r] \in Request /\ request[r] # NoRequest /\ c \in Cart
        /\ request[r].customer \in Customers /\ request[r].key \in Keys
        /\ request[r].phase = "readCart" /\ request' = [request EXCEPT ![r] = q]
        /\ Session(r) = <<request[r].customer, request[r].key>>
        /\ UNCHANGED <<orders, cart, lock>>
    BY <1>10, SessionIsSession DEF readCart, At, redis, postgres, TypeOK
  <2>2. /\ q \in Request /\ q.customer = request[r].customer /\ q.key = request[r].key
        /\ q.phase = IF c.items = {} THEN "unlock" ELSE "quote"
    BY <2>1 DEF Request, Phases
  <2>3. request'[r] = q /\ q # NoRequest /\ \A s \in Requests : s # r => request'[s] = request[s]
    BY <2>1, <2>2, RequestIsNot DEF TypeOK
  <2>4. Holds(r) /\ Holds(r)' /\ Session(r)' = Session(r)
    BY <2>1, <2>2, <2>3 DEF Holds, Session, Critical
  <2>5. c.items = {} \/ ~Ordered(request[r].customer, request[r].key)
    BY <1>5, <2>1, <2>4 DEF OneOrderInv, OrderedIsOver
  <2>6. At(r, "quote")' \/ At(r, "place")' => c.items # {}
    BY <2>2, <2>3 DEF At
  <2>7. QED
    BY <1>5, <2>1, <2>2, <2>3, <2>4, <2>5, <2>6, UnderTheLock
<1>11. ASSUME NEW r \in Requests, Quote(r) \/ FailToPlace(r) PROVE OneOrderInv'
  <2>1. PICK phase \in {"place", "unlock"} : Goto(r, phase)
    BY <1>11 DEF Quote, FailToPlace
  <2>2. /\ request[r] # NoRequest /\ request[r].phase \in {"quote", "place"}
        /\ UNCHANGED <<orders, cart, lock>> /\ (At(r, "quote") \/ At(r, "place"))
    BY <1>11 DEF Quote, FailToPlace, At, redis, postgres
  <2>3. ~Ordered(request[r].customer, request[r].key)
    BY <1>5, <2>2 DEF OneOrderInv, NoOrderBefore
  <2>4. phase \in Phases /\ phase \in Critical
    BY DEF Phases, Critical
  <2>5. Holds(r)
    BY <2>2 DEF Holds, Critical
  <2>6. /\ request'[r].customer = request[r].customer /\ request'[r].key = request[r].key
        /\ Session(r)' = Session(r) /\ Holds(r)'
        /\ \A s \in Requests : s # r => request'[s] = request[s]
    BY <2>1, <2>2, <2>4, MovesOn
  <2>7. QED
    BY <1>5, <2>2, <2>3, <2>5, <2>6, UnderTheLock
<1>12. ASSUME NEW r \in Requests, Remember(r) PROVE OneOrderInv'
  <2>1. /\ request[r] # NoRequest /\ request[r].phase = "remember" /\ Goto(r, "clearCart")
        /\ UNCHANGED <<orders, cart, lock>>
    BY <1>12 DEF Remember, At, postgres
  <2>2. Holds(r)
    BY <2>1 DEF Holds, Critical
  <2>3. /\ request'[r].phase = "clearCart"
        /\ request'[r].customer = request[r].customer /\ request'[r].key = request[r].key
        /\ Session(r)' = Session(r) /\ Holds(r)'
        /\ \A s \in Requests : s # r => request'[s] = request[s]
    BY <2>1, MovesOn DEF Phases, Critical
  <2>4. ~At(r, "quote")' /\ ~At(r, "place")'
    BY <2>3 DEF At
  <2>5. QED
    BY <1>5, <2>1, <2>2, <2>3, <2>4, UnderTheLock
<1>13. CASE UNCHANGED vars
  BY <1>5, <1>13 DEF vars, OneOrderInv, HoldersHaveLock, OneHolder, NoOrderBefore, OrderedIsOver,
                     OneEach, Holds, Session, At, Ordered
<1>14. QED
  BY <1>2, <1>3, <1>5, <1>6, <1>9, <1>10, <1>11, <1>12, <1>13,
     PlacedUnderTheLock, CartCleared, LockGivenBack DEF Next, checkout

LEMMA OneOrderInitially == Init => OneOrderInv
BY DEF Init, OneOrderInv, HoldersHaveLock, OneHolder, NoOrderBefore, OrderedIsOver, OneEach,
       Holds, At, Ordered

\* An idempotency key gives one order, however often and close together it is
\* sent, and though its process may die; unless the lock expired under a
\* checkout, or the customer filled the cart again before a late copy got to it.
THEOREM OrdersOncePerKey == Spec => []OneOrderPerKey
<1>1. (Undisturbed => OneOrderInv) => OneOrderPerKey
  BY DEF Undisturbed, OneOrderInv, OneEach, OneOrderPerKey
<1>2. QED
  BY TypesInitially, TypesInductive, OneOrderInitially, OneOrderInductive, <1>1, PTL DEF Spec
=============================================================================
