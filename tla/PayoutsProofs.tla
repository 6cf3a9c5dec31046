---------------------------- MODULE PayoutsProofs ----------------------------
(***************************************************************************)
(* What sweeps and transfers keep up for any number of partners, keys,     *)
(* requests and faults: one set of payouts for a key, payouts worth what   *)
(* is settled, and one transfer for a payout, but for those in excused.    *)
(***************************************************************************)
EXTENDS Payouts, SumTheorems, TLAPS

\* A request has tasks for payouts there are, while it waits for them; and a
\* sweep that is tried has attempts left.
InOrder(q, made) ==
  /\ q.step # "queue" => q.tasks = NoTasks
  /\ \A p \in Ids : q.tasks[p] # "none" => p \in made
  /\ q.step \in {"note", "inspect"} => q.subject \in made
  /\ q.step \in {"sweep", "commit"} => q.attempts > 0

\* The payouts are numbered from 1, and are not more than the settled entries.
Numbered ==
  /\ Made = 1 .. Cardinality(Made)
  /\ Cardinality(Made) \in Nat
  /\ Cardinality(Made) <= Cardinality(settled)

\* One request has a payout in hand and has sent what it will write.
InOneHand(p) ==
  /\ \A q, r \in Requests :
       Task(q, p) \in {"send", "write"} /\ Task(r, p) \in {"send", "write"} => q = r
  /\ \A r \in Requests :
       /\ Task(r, p) = "send" => sent[p] = 0
       /\ Task(r, p) = "write" => sent[p] = 1
  /\ sent[p] <= 1
  /\ sent[p] = 1 =>
       /\ p \in Made
       /\ \/ payout[p].reference /\ payout[p].status # "PENDING"
          \/ \E r \in Requests : Task(r, p) = "write"

PayoutsInv ==
  /\ TypeOK
  /\ \A r \in Requests : InOrder(request[r], Made)
  /\ Numbered
  /\ SweptOncePerKey
  /\ \A p \in Ids \ excused : InOneHand(p)
-----------------------------------------------------------------------------
LEMMA IdleIsRequest == Idle \in Request /\ \A made : InOrder(Idle, made)
BY DEF Idle, Request, Steps, Tasks, NoTasks, InOrder, Attempts

LEMMA QueuedIsRequest ==
  ASSUME NEW ids \in SUBSET Ids
  PROVE  /\ Queued(ids) \in Request /\ InOrder(Queued(ids), ids)
         /\ \A p \in Ids : Queued(ids).tasks[p] = IF p \in ids THEN "read" ELSE "none"
BY IdleIsRequest DEF Queued, Idle, Request, Steps, Tasks, InOrder

\* Entries can be counted.
LEMMA EntriesAreFinite ==
  ASSUME NEW S \in SUBSET Entries
  PROVE  IsFiniteSet(S) /\ Cardinality(S) \in Nat /\ Cardinality(S) <= MaxEntries
<1>1. IsFiniteSet(Entries) /\ Cardinality(Entries) = MaxEntries
  BY FS_Interval, BoundsAssumption DEF Entries
<1>2. IsFiniteSet(S) /\ Cardinality(S) <= MaxEntries
  BY <1>1, FS_Subset
<1>3. QED
  BY <1>2, FS_CardinalityType

\* The numbers a sweep gives its payouts are the next ones, and there are enough.
LEMMA SweepNumbers ==
  ASSUME PayoutsInv, NEW entries \in SUBSET Entries, entries \cap settled = {}
  PROVE  LET m == Cardinality(Made)
             n == Cardinality(Owners(entries))
         IN  /\ n \in Nat
             /\ m + 1 .. m + n \subseteq Ids \ Made
             /\ Made \cup (m + 1 .. m + n) = 1 .. m + n
             /\ Cardinality(1 .. m + n) = m + n
             /\ m + n <= Cardinality(settled \cup entries)
<1> DEFINE m == Cardinality(Made)
           n == Cardinality(Owners(entries))
           f == [e \in entries |-> owner[e]]
<1>1. settled \subseteq Entries /\ settled \cup entries \subseteq Entries
  BY DEF PayoutsInv, TypeOK
<1>2. /\ IsFiniteSet(settled) /\ IsFiniteSet(entries)
      /\ Cardinality(settled) \in Nat /\ Cardinality(entries) \in Nat
      /\ Cardinality(settled \cup entries) <= MaxEntries
  BY <1>1, EntriesAreFinite
<1>3. f \in Surjection(entries, Owners(entries))
  BY DEF Surjection, Owners
<1>4. IsFiniteSet(Owners(entries)) /\ n <= Cardinality(entries)
  BY <1>2, <1>3, FS_Surjection
<1>5. n \in Nat
  BY <1>4, FS_CardinalityType
<1>6. Cardinality(settled \cup entries) = Cardinality(settled) + Cardinality(entries)
  <2>1. Cardinality(settled \cup entries)
          = Cardinality(settled) + Cardinality(entries) - Cardinality(settled \cap entries)
    BY <1>2, FS_Union
  <2>2. Cardinality(settled \cap entries) = 0
    BY FS_EmptySet
  <2>3. QED
    BY <1>2, <2>1, <2>2
<1>7. m \in Nat /\ m <= Cardinality(settled) /\ Made = 1 .. m
  BY DEF PayoutsInv, Numbered
<1>8. m + n <= Cardinality(settled \cup entries)
  BY <1>2, <1>4, <1>5, <1>6, <1>7
<1>9. m + n \in Nat /\ m + n <= MaxEntries
  BY <1>2, <1>5, <1>6, <1>7, <1>8, BoundsAssumption
<1> HIDE DEF m, n, f
<1>10. m + 1 .. m + n \subseteq Ids \ Made /\ Made \cup (m + 1 .. m + n) = 1 .. m + n
  BY <1>5, <1>7, <1>9, BoundsAssumption DEF Ids
<1>11. Cardinality(1 .. m + n) = m + n
  BY <1>9, FS_Interval
<1>12. QED
  BY <1>5, <1>8, <1>10, <1>11 DEF m, n
-----------------------------------------------------------------------------
\* What a step of r leaves of the requests, next being what r's becomes.
LEMMA RequestTypes ==
  ASSUME PayoutsInv, NEW r \in Requests, NEW next \in Request,
         request' = [request EXCEPT ![r] = next],
         Made \subseteq Made', InOrder(next, Made')
  PROVE  /\ request' \in [Requests -> Request]
         /\ \A q \in Requests : InOrder(request'[q], Made')
<1>1. request \in [Requests -> Request] /\ \A q \in Requests : InOrder(request[q], Made)
  BY DEF PayoutsInv, TypeOK
<1>2. \A q \in Requests : InOrder(request[q], Made')
  BY <1>1 DEF InOrder
<1>3. QED
  BY <1>1, <1>2

\* A task is done or goes on.
LEMMA TaskTypes ==
  ASSUME PayoutsInv, NEW r \in Requests, NEW p \in Ids, NEW task \in Tasks,
         Task(r, p) # "none", GotoTask(r, p, task), Made \subseteq Made'
  PROVE  /\ request' \in [Requests -> Request]
         /\ \A q \in Requests : InOrder(request'[q], Made')
         /\ Task(r, p)' = task
         /\ \A q \in Requests, x \in Ids : q # r \/ x # p => Task(q, x)' = Task(q, x)
<1> DEFINE next == [request[r] EXCEPT !.tasks = [request[r].tasks EXCEPT ![p] = task]]
<1>1. /\ request \in [Requests -> Request] /\ request[r] \in Request
      /\ InOrder(request[r], Made)
  BY DEF PayoutsInv, TypeOK
<1>2. request[r].tasks \in [Ids -> Tasks]
  BY <1>1 DEF Request
<1>3. /\ next \in Request /\ next.step = request[r].step /\ next.subject = request[r].subject
      /\ next.tasks = [request[r].tasks EXCEPT ![p] = task]
  BY <1>1, <1>2 DEF Request
<1>4. request' = [request EXCEPT ![r] = next]
  BY DEF GotoTask
<1>5. request[r].step = "queue" /\ p \in Made
  BY <1>1 DEF InOrder, Task, NoTasks
<1> HIDE DEF next
<1>6. InOrder(next, Made')
  BY <1>1, <1>2, <1>3, <1>5 DEF InOrder
<1>7. request' \in [Requests -> Request] /\ \A q \in Requests : InOrder(request'[q], Made')
  BY <1>3, <1>4, <1>6, RequestTypes
<1>8. \A q \in Requests : request'[q] = IF q = r THEN next ELSE request[q]
  BY <1>1, <1>4
<1>9. QED
  BY <1>2, <1>3, <1>7, <1>8 DEF Task

\* A step that takes no payout in hand and lets go of none that was sent.
LEMMA KeepsHands ==
  ASSUME NEW p \in Ids, InOneHand(p), sent'[p] = sent[p], Made \subseteq Made',
         \A q \in Requests :
           /\ Task(q, p)' \in {"send", "write"} => Task(q, p)' = Task(q, p)
           /\ Task(q, p) = "write" => Task(q, p)' = "write",
         p \in Made /\ payout[p].reference /\ payout[p].status # "PENDING" =>
           payout'[p].reference /\ payout'[p].status # "PENDING"
  PROVE  InOneHand(p)'
<1>1. \A q, r \in Requests :
        Task(q, p)' \in {"send", "write"} /\ Task(r, p)' \in {"send", "write"} => q = r
  BY DEF InOneHand
<1>2. \A r \in Requests :
        (Task(r, p)' = "send" => sent'[p] = 0) /\ (Task(r, p)' = "write" => sent'[p] = 1)
  BY DEF InOneHand
<1>3. sent'[p] = 1 =>
        /\ p \in Made'
        /\ (payout'[p].reference /\ payout'[p].status # "PENDING") \/ \E r \in Requests : Task(r, p)' = "write"
  BY DEF InOneHand
<1>4. sent'[p] <= 1
  BY DEF InOneHand
<1>5. QED
  BY <1>1, <1>2, <1>3, <1>4 DEF InOneHand

\* A step that settles nothing and makes no payout.
LEMMA LedgerStep ==
  ASSUME PayoutsInv, request' \in [Requests -> Request], \A q \in Requests : InOrder(request'[q], Made'),
         owner' \in [Entries -> Users \cup {None}], adjusted' \in [Keys -> Entries \cup {None}],
         settled' = settled, record' = record,
         sent' \in [Ids -> Nat], excused' \subseteq Ids, requests' \in Nat, faults' \in Nat,
         payout' \in [Ids -> Payout \cup {None}], Made' = Made,
         \A p \in Made : payout'[p].key = payout[p].key,
         \A p \in Ids \ excused' : InOneHand(p)'
  PROVE  PayoutsInv'
<1>1. TypeOK'
  BY DEF PayoutsInv, TypeOK
<1>2. Numbered'
  BY DEF PayoutsInv, Numbered
<1>3. SweptOncePerKey'
  BY DEF PayoutsInv, SweptOncePerKey
<1>4. QED
  BY <1>1, <1>2, <1>3 DEF PayoutsInv

\* A request without transfers under way becomes another such request.
LEMMA QuietStep ==
  ASSUME PayoutsInv, NEW r \in Requests, NEW next \in Request, InOrder(next, Made),
         request' = [request EXCEPT ![r] = next],
         \A p \in Ids : next.tasks[p] \notin {"send", "write"},
         \A p \in Ids \ excused' : Task(r, p) # "write",
         owner' \in [Entries -> Users \cup {None}], adjusted' \in [Keys -> Entries \cup {None}],
         settled' = settled, UNCHANGED payouts, sent' = sent,
         excused \subseteq excused', excused' \subseteq Ids, requests' \in Nat, faults' \in Nat
  PROVE  PayoutsInv'
<1>1. payout' = payout /\ record' = record /\ Made' = Made
  BY DEF payouts, Made
<1>2. request' \in [Requests -> Request] /\ \A q \in Requests : InOrder(request'[q], Made')
  BY <1>1, RequestTypes
<1>3. request \in [Requests -> Request] /\ sent \in [Ids -> Nat] /\ payout \in [Ids -> Payout \cup {None}]
  BY DEF PayoutsInv, TypeOK
<1>4. ASSUME NEW p \in Ids \ excused' PROVE InOneHand(p)'
  <2>1. InOneHand(p)
    BY DEF PayoutsInv
  <2>2. \A q \in Requests :
          /\ Task(q, p)' \in {"send", "write"} => Task(q, p)' = Task(q, p)
          /\ Task(q, p) = "write" => Task(q, p)' = "write"
    BY <1>3 DEF Task
  <2>3. QED
    BY <1>1, <2>1, <2>2, KeepsHands
<1>5. QED
  BY <1>1, <1>2, <1>3, <1>4, LedgerStep

\* A request that waits for no transfers has none.
LEMMA NoneInHand ==
  ASSUME PayoutsInv, NEW r \in Requests, request[r].step # "queue"
  PROVE  \A p \in Ids : Task(r, p) = "none"
BY DEF PayoutsInv, InOrder, Task, NoTasks

LEMMA BoundsTypes ==
  ASSUME PayoutsInv, Count \/ Fault \/ UNCHANGED bounds
  PROVE  requests' \in Nat /\ faults' \in Nat
BY DEF PayoutsInv, TypeOK, Count, Fault, bounds

\* The request ends, and what it sent is excused.
LEMMA FinishStep ==
  ASSUME PayoutsInv, NEW r \in Requests, Finish(r),
         \A p \in Ids \ excused' : Task(r, p) # "write",
         owner' \in [Entries -> Users \cup {None}], adjusted' \in [Keys -> Entries \cup {None}],
         settled' = settled, UNCHANGED payouts, sent' = sent,
         excused \subseteq excused', excused' \subseteq Ids, requests' \in Nat, faults' \in Nat
  PROVE  PayoutsInv'
<1>1. \A p \in Ids : Idle.tasks[p] \notin {"send", "write"}
  BY DEF Idle, NoTasks
<1>2. request' = [request EXCEPT ![r] = Idle]
  BY DEF Finish, Become
<1>3. QED
  BY <1>1, <1>2, IdleIsRequest, QuietStep

LEMMA EarnStep ==
  ASSUME PayoutsInv, NEW u \in Users, Earn(u)
  PROVE  PayoutsInv'
<1>1. /\ owner' \in [Entries -> Users \cup {None}]
      /\ UNCHANGED <<settled, adjusted, payout, record, request, sent, excused, requests, faults>>
  BY DEF PayoutsInv, TypeOK, Earn, payouts, provider, bounds
<1>2. Made' = Made /\ \A q \in Requests : InOrder(request'[q], Made')
  BY <1>1 DEF PayoutsInv, Made
<1>3. \A p \in Ids \ excused' : InOneHand(p)'
  BY <1>1, <1>2 DEF PayoutsInv, InOneHand, Task
<1>4. QED
  BY <1>1, <1>2, <1>3, LedgerStep DEF PayoutsInv, TypeOK

\* What becomes of a request that makes or reads no payout.
LEMMA NoTasksStep ==
  ASSUME PayoutsInv, NEW r \in Requests, NEW next \in Request,
         next.tasks = NoTasks, next.step \in {"note", "inspect"} => next.subject \in Made,
         next.step \in {"sweep", "commit"} => next.attempts > 0,
         request[r].step # "queue", request' = [request EXCEPT ![r] = next],
         Count \/ Fault \/ UNCHANGED bounds, UNCHANGED <<ledger, payouts, provider>>
  PROVE  PayoutsInv'
<1>1. InOrder(next, Made) /\ \A p \in Ids : next.tasks[p] \notin {"send", "write"}
  BY DEF InOrder, NoTasks
<1>2. requests' \in Nat /\ faults' \in Nat
  BY BoundsTypes
<1>3. /\ owner' \in [Entries -> Users \cup {None}] /\ adjusted' \in [Keys -> Entries \cup {None}]
      /\ settled' = settled /\ sent' = sent /\ excused' = excused /\ excused \subseteq Ids
  BY DEF PayoutsInv, TypeOK, ledger, provider
<1>4. QED
  BY <1>1, <1>2, <1>3, NoneInHand, QuietStep

LEMMA AdjustStep ==
  ASSUME PayoutsInv, NEW r \in Requests, NEW k \in Keys, NEW u \in Users, adjustWallet(r, k, u)
  PROVE  PayoutsInv'
<1> DEFINE next == [Idle EXCEPT !.step = IF adjusted[k] = None THEN "insert" ELSE "idle",
                                !.key = IF adjusted[k] = None THEN k ELSE None,
                                !.users = IF adjusted[k] = None THEN {u} ELSE {}]
<1>1. next \in Request /\ next.tasks = NoTasks /\ next.step \in {"insert", "idle"}
  <2>1. CASE adjusted[k] = None
    BY <2>1, IdleIsRequest DEF Idle, Request, Steps
  <2>2. CASE adjusted[k] # None
    BY <2>2, IdleIsRequest DEF Idle, Request, Steps
  <2>3. QED
    BY <2>1, <2>2
<1>2. /\ request[r].step # "queue" /\ request' = [request EXCEPT ![r] = next]
      /\ Count /\ UNCHANGED <<ledger, payouts, provider>>
  BY DEF adjustWallet, Begin, At, Become
<1> HIDE DEF next
<1>3. QED
  BY <1>1, <1>2, NoTasksStep

LEMMA InsertStep ==
  ASSUME PayoutsInv, NEW r \in Requests, insertAdjustment(r)
  PROVE  PayoutsInv'
<1>1. /\ request[r].step # "queue" /\ Finish(r)
      /\ settled' = settled /\ UNCHANGED payouts /\ sent' = sent /\ excused' = excused
      /\ requests' = requests /\ faults' = faults
  BY DEF insertAdjustment, At, provider, bounds
<1>2. request[r].users \subseteq Users
  BY DEF PayoutsInv, TypeOK, Request
<1>3. owner' \in [Entries -> Users \cup {None}] /\ adjusted' \in [Keys -> Entries \cup {None}]
  BY <1>2 DEF PayoutsInv, TypeOK, insertAdjustment
<1>4. excused \subseteq Ids /\ requests \in Nat /\ faults \in Nat
  BY DEF PayoutsInv, TypeOK
<1>5. QED
  BY <1>1, <1>3, <1>4, NoneInHand, FinishStep

LEMMA SweepStep ==
  ASSUME PayoutsInv, NEW r \in Requests, NEW k \in Keys \cup {None}, NEW users \in SUBSET Users,
         sweepPayouts(r, k, users)
  PROVE  PayoutsInv'
<1> DEFINE next == [Idle EXCEPT !.step = "sweep", !.key = k, !.users = users, !.attempts = Attempts]
<1>1. Attempts \in 0 .. Attempts /\ Attempts > 0
  BY DEF Attempts
<1>2. next \in Request
  BY <1>1, IdleIsRequest DEF Request, Steps
<1>3. next.tasks = NoTasks /\ next.step = "sweep" /\ next.attempts > 0
  BY <1>1 DEF Idle
<1>4. /\ request[r].step # "queue" /\ request' = [request EXCEPT ![r] = next]
      /\ Count \/ UNCHANGED bounds
      /\ UNCHANGED <<ledger, payouts, provider>>
  BY DEF sweepPayouts, Begin, At, Become
<1> HIDE DEF next
<1>5. QED
  BY <1>2, <1>3, <1>4, NoTasksStep

\* Payouts are queued by a request that waited for none.
LEMMA QueueStep ==
  ASSUME PayoutsInv, NEW r \in Requests, NEW ids \in SUBSET Made,
         request[r].step # "queue", request' = [request EXCEPT ![r] = Queued(ids)],
         Count \/ UNCHANGED bounds, UNCHANGED <<ledger, payouts, provider>>
  PROVE  PayoutsInv'
<1>1. ids \in SUBSET Ids
  BY DEF Made
<1>2. /\ Queued(ids) \in Request /\ InOrder(Queued(ids), ids)
      /\ \A p \in Ids : Queued(ids).tasks[p] \notin {"send", "write"}
  BY <1>1, QueuedIsRequest
<1>3. InOrder(Queued(ids), Made)
  BY <1>2 DEF InOrder, Queued, Idle
<1>4. requests' \in Nat /\ faults' \in Nat
  BY BoundsTypes
<1>5. /\ owner' \in [Entries -> Users \cup {None}] /\ adjusted' \in [Keys -> Entries \cup {None}]
      /\ settled' = settled /\ sent' = sent /\ excused' = excused /\ excused \subseteq Ids
  BY DEF PayoutsInv, TypeOK, ledger, provider
<1>6. QED
  BY <1>2, <1>3, <1>4, <1>5, NoneInHand, QuietStep

LEMMA ReadSweepStep ==
  ASSUME PayoutsInv, NEW r \in Requests, ReadSweep(r)
  PROVE  PayoutsInv'
<1> DEFINE k == request[r].key
           entries == Unsettled(request[r].users)
<1>1. /\ request[r] \in Request /\ request[r].step = "sweep" /\ InOrder(request[r], Made)
      /\ UNCHANGED <<ledger, payouts, provider, bounds>>
  BY DEF PayoutsInv, TypeOK, ReadSweep, At
<1>2. CASE k # None /\ record[k] # None
  <2>1. record[k] \in SUBSET Made
    BY <1>1, <1>2 DEF PayoutsInv, SweptOncePerKey, Request
  <2>2. request' = [request EXCEPT ![r] = Queued(record[k])]
    BY <1>2 DEF ReadSweep, Become, Recorded
  <2>3. QED
    BY <1>1, <2>1, <2>2, QueueStep
<1>3. CASE Become(r, [request[r] EXCEPT !.step = "commit", !.entries = entries])
  <2> DEFINE next == [request[r] EXCEPT !.step = "commit", !.entries = entries]
  <2>1. next \in Request /\ next.tasks = NoTasks /\ next.step = "commit" /\ next.attempts > 0
    BY <1>1 DEF Request, Steps, InOrder, Unsettled
  <2>2. request' = [request EXCEPT ![r] = next]
    BY <1>3 DEF Become
  <2> HIDE DEF next
  <2>3. QED
    BY <1>1, <2>1, <2>2, NoTasksStep
<1>4. CASE Finish(r)
  <2>1. request' = [request EXCEPT ![r] = Idle]
    BY <1>4 DEF Finish, Become
  <2>2. Idle.tasks = NoTasks /\ Idle.step = "idle"
    BY DEF Idle
  <2>3. QED
    BY <1>1, <2>1, <2>2, IdleIsRequest, NoTasksStep
<1>5. QED
  BY <1>2, <1>3, <1>4 DEF ReadSweep

LEMMA RetryStep ==
  ASSUME PayoutsInv, NEW r \in Requests, RetrySweep(r)
  PROVE  PayoutsInv'
<1>1. /\ request[r] \in Request /\ request[r].step = "commit" /\ InOrder(request[r], Made)
      /\ UNCHANGED <<ledger, payouts, provider>>
      /\ Fault \/ UNCHANGED bounds
  BY DEF PayoutsInv, TypeOK, RetrySweep, At
<1>2. CASE Finish(r)
  <2>1. request' = [request EXCEPT ![r] = Idle]
    BY <1>2 DEF Finish, Become
  <2>2. Idle.tasks = NoTasks /\ Idle.step = "idle"
    BY DEF Idle
  <2>3. QED
    BY <1>1, <2>1, <2>2, IdleIsRequest, NoTasksStep
<1>3. CASE request[r].attempts # 1 /\ ~Finish(r)
  <2> DEFINE next == [request[r] EXCEPT !.step = "sweep", !.entries = {}, !.attempts = @ - 1]
  <2>1. request[r].attempts - 1 \in 0 .. Attempts /\ request[r].attempts - 1 > 0
    BY <1>1, <1>3 DEF Request, Attempts, InOrder
  <2>2. next \in Request /\ next.tasks = NoTasks /\ next.step = "sweep" /\ next.attempts > 0
    BY <1>1, <2>1 DEF Request, Steps, InOrder
  <2>3. request' = [request EXCEPT ![r] = next]
    BY <1>3 DEF RetrySweep, Become
  <2> HIDE DEF next
  <2>4. QED
    BY <1>1, <2>2, <2>3, NoTasksStep
<1>4. QED
  BY <1>2, <1>3 DEF RetrySweep

LEMMA MarkStep ==
  ASSUME PayoutsInv, NEW r \in Requests, NEW p \in Ids, markPayout(r, p)
  PROVE  PayoutsInv'
<1>1. /\ p \in Made /\ Count /\ UNCHANGED <<ledger, payouts, provider>>
      /\ request[r].step # "queue"
      /\ payout[p] \in Payout
  BY DEF markPayout, Begin, At, Made, PayoutsInv, TypeOK
<1>2. ASSUME NEW given \in BOOLEAN,
             Begin(r, [Idle EXCEPT !.step = "note", !.subject = p, !.noted = given \/ payout[p].reference])
      PROVE  PayoutsInv'
  <2> DEFINE next == [Idle EXCEPT !.step = "note", !.subject = p, !.noted = given \/ payout[p].reference]
  <2>1. (given \/ payout[p].reference) \in BOOLEAN
    BY <1>1 DEF Payout
  <2>2. next \in Request /\ next.tasks = NoTasks /\ next.step = "note" /\ next.subject = p
    BY <2>1, IdleIsRequest DEF Idle, Request, Steps
  <2>3. request' = [request EXCEPT ![r] = next]
    BY <1>2 DEF Begin, Become
  <2> HIDE DEF next
  <2>4. QED
    BY <1>1, <2>2, <2>3, NoTasksStep
<1>3. CASE Begin(r, Queued({p}))
  <2>1. request' = [request EXCEPT ![r] = Queued({p})]
    BY <1>3 DEF Begin, Become
  <2>2. QED
    BY <1>1, <2>1, QueueStep
<1>4. CASE Begin(r, [Idle EXCEPT !.step = "inspect", !.subject = p])
  <2> DEFINE next == [Idle EXCEPT !.step = "inspect", !.subject = p]
  <2>1. next \in Request /\ next.tasks = NoTasks /\ next.step = "inspect" /\ next.subject = p
    BY IdleIsRequest DEF Idle, Request, Steps
  <2>2. request' = [request EXCEPT ![r] = next]
    BY <1>4 DEF Begin, Become
  <2> HIDE DEF next
  <2>3. QED
    BY <1>1, <2>1, <2>2, NoTasksStep
<1>5. QED
  BY <1>2, <1>3, <1>4 DEF markPayout

LEMMA AnswerStep ==
  ASSUME PayoutsInv, NEW r \in Requests, AnswerQueue(r)
  PROVE  PayoutsInv'
<1>1. \A p \in Ids : Task(r, p) # "write"
  BY DEF AnswerQueue, Task, NoTasks
<1>2. /\ owner' \in [Entries -> Users \cup {None}] /\ adjusted' \in [Keys -> Entries \cup {None}]
      /\ settled' = settled /\ sent' = sent /\ excused' = excused /\ excused \subseteq Ids
      /\ requests' \in Nat /\ faults' \in Nat
  BY DEF PayoutsInv, TypeOK, AnswerQueue, ledger, provider, bounds
<1>3. Finish(r) /\ UNCHANGED payouts
  BY DEF AnswerQueue
<1>4. QED
  BY <1>1, <1>2, <1>3, FinishStep

LEMMA DiesStep ==
  ASSUME PayoutsInv, NEW r \in Requests, RequestDies(r)
  PROVE  PayoutsInv'
<1>1. /\ owner' \in [Entries -> Users \cup {None}] /\ adjusted' \in [Keys -> Entries \cup {None}]
      /\ settled' = settled /\ sent' = sent /\ excused \subseteq Ids
      /\ excused' = excused \cup {p \in Ids : Task(r, p) = "write"}
      /\ requests' \in Nat /\ faults' \in Nat
  BY DEF PayoutsInv, TypeOK, RequestDies, ledger, Fault
<1>2. Finish(r) /\ UNCHANGED payouts
  BY DEF RequestDies
<1>3. QED
  BY <1>1, <1>2, FinishStep

\* A task goes on, and no row changes.
LEMMA TaskStep ==
  ASSUME PayoutsInv, NEW r \in Requests, NEW p \in Ids, NEW task \in Tasks,
         Task(r, p) # "none", GotoTask(r, p, task), UNCHANGED <<ledger, payouts>>,
         sent' \in [Ids -> Nat], excused \subseteq excused', excused' \subseteq Ids,
         Fault \/ UNCHANGED bounds,
         \A x \in Ids \ {p} : sent'[x] = sent[x],
         p \notin excused' => InOneHand(p)'
  PROVE  PayoutsInv'
<1>1. Made' = Made /\ payout' = payout /\ record' = record
  BY DEF payouts, Made
<1>2. /\ request' \in [Requests -> Request] /\ \A q \in Requests : InOrder(request'[q], Made')
      /\ \A q \in Requests, x \in Ids : q # r \/ x # p => Task(q, x)' = Task(q, x)
  BY <1>1, TaskTypes
<1>3. ASSUME NEW x \in Ids \ excused' PROVE InOneHand(x)'
  <2>1. CASE x = p
    BY <2>1
  <2>2. CASE x # p
    <3>1. InOneHand(x)
      BY DEF PayoutsInv
    <3>2. QED
      BY <1>1, <1>2, <2>2, <3>1, KeepsHands
  <2>3. QED
    BY <2>1, <2>2
<1>4. /\ owner' \in [Entries -> Users \cup {None}] /\ adjusted' \in [Keys -> Entries \cup {None}]
      /\ settled' = settled /\ requests' \in Nat /\ faults' \in Nat
      /\ payout' \in [Ids -> Payout \cup {None}]
  BY <1>1, BoundsTypes DEF PayoutsInv, TypeOK, ledger
<1>5. QED
  BY <1>1, <1>2, <1>3, <1>4, LedgerStep

LEMMA ReadStep ==
  ASSUME PayoutsInv, NEW r \in Requests, NEW p \in Ids, queuePayout(r, p)
  PROVE  PayoutsInv'
<1> DEFINE task == IF ToTransfer(p) THEN "send" ELSE "none"
<1>1. /\ task \in Tasks /\ Task(r, p) = "read" /\ GotoTask(r, p, task) /\ UNCHANGED <<ledger, payouts>>
      /\ UNCHANGED bounds
      /\ sent' = sent /\ sent \in [Ids -> Nat] /\ excused \subseteq excused' /\ excused' \subseteq Ids
      /\ p \notin excused' => ~ToTransfer(p) \/ ~InHand(p)
  BY DEF PayoutsInv, TypeOK, queuePayout, Tasks
<1>2. Made' = Made /\ payout' = payout
  BY <1>1 DEF payouts, Made
<1>3. /\ Task(r, p)' = task
      /\ \A q \in Requests : q # r => Task(q, p)' = Task(q, p)
  BY <1>1, <1>2, TaskTypes
<1>4. ASSUME p \notin excused' PROVE InOneHand(p)'
  <2>1. InOneHand(p)
    BY <1>1, <1>4 DEF PayoutsInv
  <2>2. CASE ~ToTransfer(p)
    BY <1>1, <1>2, <1>3, <2>1, <2>2, KeepsHands
  <2>3. CASE ToTransfer(p) /\ ~InHand(p)
    <3>1. sent[p] = 0
      BY <1>1, <2>1, <2>3 DEF InOneHand, ToTransfer, InHand
    <3>2. \A q \in Requests : Task(q, p)' \in {"send", "write"} => q = r /\ Task(q, p)' = "send"
      BY <1>3, <2>3 DEF InHand
    <3>3. QED
      BY <1>1, <3>1, <3>2 DEF InOneHand
  <2>4. QED
    BY <1>1, <1>4, <2>2, <2>3
<1> HIDE DEF task
<1>5. QED
  BY <1>1, <1>4, TaskStep

LEMMA SendStep ==
  ASSUME PayoutsInv, NEW r \in Requests, NEW p \in Ids, createTransfer(r, p)
  PROVE  PayoutsInv'
<1>1. /\ "write" \in Tasks /\ Task(r, p) = "send" /\ GotoTask(r, p, "write") /\ UNCHANGED <<ledger, payouts>>
      /\ UNCHANGED bounds
      /\ sent' = [sent EXCEPT ![p] = @ + 1] /\ sent \in [Ids -> Nat] /\ excused' = excused /\ excused \subseteq Ids
  BY DEF PayoutsInv, TypeOK, createTransfer, Tasks
<1>2. Made' = Made /\ payout' = payout
  BY <1>1 DEF payouts, Made
<1>3. /\ Task(r, p)' = "write"
      /\ \A q \in Requests : q # r => Task(q, p)' = Task(q, p)
  BY <1>1, <1>2, TaskTypes
<1>4. ASSUME p \notin excused' PROVE InOneHand(p)'
  <2>1. InOneHand(p)
    BY <1>1, <1>4 DEF PayoutsInv
  <2>2. sent'[p] = 1 /\ \A q \in Requests : Task(q, p)' \in {"send", "write"} => q = r
    BY <1>1, <1>3, <2>1 DEF InOneHand
  <2>3. p \in Made
    BY <1>1 DEF PayoutsInv, InOrder, Task
  <2>4. QED
    BY <1>2, <1>3, <2>2, <2>3 DEF InOneHand
<1>5. sent' \in [Ids -> Nat] /\ \A x \in Ids \ {p} : sent'[x] = sent[x]
  BY <1>1
<1>6. QED
  BY <1>1, <1>4, <1>5, TaskStep

LEMMA FailStep ==
  ASSUME PayoutsInv, NEW r \in Requests, NEW p \in Ids, TransferFails(r, p)
  PROVE  PayoutsInv'
<1>1. /\ "none" \in Tasks /\ Task(r, p) \in {"send", "write"} /\ GotoTask(r, p, "none")
      /\ UNCHANGED <<ledger, payouts>> /\ Fault
      /\ sent' = sent /\ sent \in [Ids -> Nat] /\ excused \subseteq excused' /\ excused' \subseteq Ids
      /\ p \notin excused' => Task(r, p) = "send"
  BY DEF PayoutsInv, TypeOK, TransferFails, Tasks
<1>2. Made' = Made /\ payout' = payout
  BY <1>1 DEF payouts, Made
<1>3. /\ Task(r, p)' = "none"
      /\ \A q \in Requests : q # r => Task(q, p)' = Task(q, p)
  BY <1>1, <1>2, TaskTypes
<1>4. ASSUME p \notin excused' PROVE InOneHand(p)'
  <2>1. InOneHand(p)
    BY <1>1, <1>4 DEF PayoutsInv
  <2>2. QED
    BY <1>1, <1>2, <1>3, <1>4, <2>1, KeepsHands
<1>5. QED
  BY <1>1, <1>4, TaskStep

\* A payout is updated.
LEMMA UpdatedPayout ==
  ASSUME PayoutsInv, NEW p \in Made, NEW status \in Statuses, NEW reference \in BOOLEAN,
         payout' = [payout EXCEPT ![p].status = status, ![p].reference = reference]
  PROVE  /\ payout' \in [Ids -> Payout \cup {None}] /\ Made' = Made
         /\ \A x \in Made : payout'[x].key = payout[x].key
         /\ payout'[p].status = status /\ payout'[p].reference = reference
         /\ \A x \in Ids \ {p} : payout'[x] = payout[x]
<1>1. payout \in [Ids -> Payout \cup {None}] /\ payout[p] \in Payout /\ p \in Ids
  BY DEF PayoutsInv, TypeOK, Made
<1> DEFINE row == [payout[p] EXCEPT !.status = status, !.reference = reference]
<1>2. row \in Payout /\ row.status = status /\ row.reference = reference /\ row.key = payout[p].key
  BY <1>1 DEF Payout
<1>3. payout' = [payout EXCEPT ![p] = row]
  BY <1>1
<1> HIDE DEF row
<1>4. row # None
  BY <1>2, NoneAssumption
<1>5. payout' \in [Ids -> Payout \cup {None}] /\ payout'[p] = row /\ \A x \in Ids \ {p} : payout'[x] = payout[x]
  BY <1>1, <1>2, <1>3
<1>6. Made' = Made
  BY <1>1, <1>4, <1>5 DEF Made
<1>7. QED
  BY <1>2, <1>5, <1>6 DEF Made

LEMMA WriteStep ==
  ASSUME PayoutsInv, NEW r \in Requests, NEW p \in Ids, WriteTransfer(r, p)
  PROVE  PayoutsInv'
<1>1. PICK outcome \in Outcomes :
        payout' = [payout EXCEPT ![p].status = outcome, ![p].reference = TRUE]
  BY DEF WriteTransfer
<1>2. /\ Task(r, p) = "write" /\ GotoTask(r, p, "none") /\ "none" \in Tasks
      /\ settled' = settled /\ record' = record /\ sent' = sent /\ excused' = excused
      /\ owner' = owner /\ adjusted' = adjusted /\ requests' = requests /\ faults' = faults
  BY DEF WriteTransfer, Tasks, ledger, provider, bounds
<1>3. p \in Made /\ outcome \in Statuses /\ outcome # "PENDING"
  BY <1>2, StatusesAssumption DEF PayoutsInv, InOrder, Task, Statuses
<1>4. /\ payout' \in [Ids -> Payout \cup {None}] /\ Made' = Made
      /\ \A x \in Made : payout'[x].key = payout[x].key
      /\ payout'[p].status = outcome /\ payout'[p].reference = TRUE
      /\ \A x \in Ids \ {p} : payout'[x] = payout[x]
  BY <1>1, <1>3, UpdatedPayout
<1>5. /\ request' \in [Requests -> Request] /\ \A q \in Requests : InOrder(request'[q], Made')
      /\ Task(r, p)' = "none"
      /\ \A q \in Requests, x \in Ids : q # r \/ x # p => Task(q, x)' = Task(q, x)
  BY <1>2, <1>4, TaskTypes
<1>6. ASSUME NEW x \in Ids \ excused' PROVE InOneHand(x)'
  <2>1. InOneHand(x)
    BY <1>2 DEF PayoutsInv
  <2>2. CASE x # p
    BY <1>2, <1>4, <1>5, <2>1, <2>2, KeepsHands
  <2>3. CASE x = p
    <3>1. \A q \in Requests : Task(q, p)' \notin {"send", "write"}
      BY <1>2, <1>5, <2>1, <2>3 DEF InOneHand
    <3>2. sent'[p] = 1 /\ p \in Made'
      BY <1>2, <1>3, <1>4, <2>1, <2>3 DEF InOneHand
    <3>3. QED
      BY <1>3, <1>4, <2>3, <3>1, <3>2 DEF InOneHand
  <2>4. QED
    BY <2>2, <2>3
<1>7. QED
  BY <1>2, <1>4, <1>5, <1>6, LedgerStep DEF PayoutsInv, TypeOK

\* Staff, or an inspection, write a payout by what they read.
LEMMA WriteNoteStep ==
  ASSUME PayoutsInv, NEW r \in Requests, NEW p \in Made, NEW status \in Statuses, NEW reference \in BOOLEAN,
         request[r].step # "queue", Finish(r), UNCHANGED <<ledger, record, sent, bounds>>,
         payout' = [payout EXCEPT ![p].status = status, ![p].reference = reference],
         excused \subseteq excused', excused' \subseteq Ids,
         p \notin excused' => status # "PENDING" /\ (payout[p].reference => reference)
  PROVE  PayoutsInv'
<1>1. /\ payout' \in [Ids -> Payout \cup {None}] /\ Made' = Made
      /\ \A x \in Made : payout'[x].key = payout[x].key
      /\ payout'[p].status = status /\ payout'[p].reference = reference
      /\ \A x \in Ids \ {p} : payout'[x] = payout[x]
  BY UpdatedPayout
<1>2. request' = [request EXCEPT ![r] = Idle] /\ request \in [Requests -> Request]
  BY DEF Finish, Become, PayoutsInv, TypeOK
<1>3. request' \in [Requests -> Request] /\ \A q \in Requests : InOrder(request'[q], Made')
  BY <1>1, <1>2, IdleIsRequest, RequestTypes
<1>4. /\ settled' = settled /\ record' = record /\ sent' = sent
      /\ owner' = owner /\ adjusted' = adjusted /\ requests' = requests /\ faults' = faults
  BY DEF ledger, bounds
<1>5. \A x \in Ids : Task(r, x) = "none" /\ Task(r, x)' = "none"
  BY <1>2, NoneInHand DEF Task, Idle, NoTasks
<1>6. \A q \in Requests, x \in Ids : Task(q, x)' = Task(q, x)
  BY <1>2, <1>5 DEF Task
<1>7. ASSUME NEW x \in Ids \ excused' PROVE InOneHand(x)'
  <2>1. InOneHand(x)
    BY DEF PayoutsInv
  <2>2. x \in Made /\ payout[x].reference /\ payout[x].status # "PENDING" =>
          payout'[x].reference /\ payout'[x].status # "PENDING"
    BY <1>1, <1>7
  <2>3. QED
    BY <1>1, <1>4, <1>6, <2>1, <2>2, KeepsHands
<1>8. QED
  BY <1>1, <1>3, <1>4, <1>7, LedgerStep DEF PayoutsInv, TypeOK

LEMMA NoteStep ==
  ASSUME PayoutsInv, NEW r \in Requests, NotePayout(r)
  PROVE  PayoutsInv'
<1> DEFINE p == request[r].subject
<1>1. /\ request[r].step = "note" /\ p \in Made /\ request[r].noted \in BOOLEAN
      /\ Finish(r) /\ UNCHANGED <<ledger, record, sent, bounds>>
  BY DEF PayoutsInv, TypeOK, InOrder, Request, NotePayout, At
<1>2. PICK status \in Noted :
        /\ payout' = [payout EXCEPT ![p].status = status, ![p].reference = request[r].noted]
        /\ excused' = IF status = "PENDING" \/ (payout[p].reference /\ ~request[r].noted)
                      THEN excused \cup {p} ELSE excused
  BY DEF NotePayout
<1>3. status \in Statuses
  BY StatusesAssumption
<1>4. /\ excused \subseteq excused' /\ excused' \subseteq Ids
      /\ p \notin excused' => status # "PENDING" /\ (payout[p].reference => request[r].noted)
  BY <1>1, <1>2 DEF PayoutsInv, TypeOK, Made
<1> HIDE DEF p
<1>5. QED
  BY <1>1, <1>2, <1>3, <1>4, WriteNoteStep

LEMMA InspectStep ==
  ASSUME PayoutsInv, NEW r \in Requests, inspectTransfer(r)
  PROVE  PayoutsInv'
<1> DEFINE p == request[r].subject
<1>1. /\ request[r].step = "inspect" /\ p \in Made
      /\ Finish(r) /\ UNCHANGED <<ledger, record, sent, bounds>> /\ excused' = excused /\ excused \subseteq Ids
  BY DEF PayoutsInv, TypeOK, InOrder, inspectTransfer, At, provider
<1>2. PICK outcome \in Outcomes :
        payout' = [payout EXCEPT ![p].status = outcome, ![p].reference = TRUE]
  BY DEF inspectTransfer
<1>3. outcome \in Statuses /\ outcome # "PENDING"
  BY StatusesAssumption DEF Statuses
<1> HIDE DEF p
<1>4. QED
  BY <1>1, <1>2, <1>3, WriteNoteStep
-----------------------------------------------------------------------------
\* A sweep's snapshot has entries with an owner.
Owned == \A r \in Requests : \A e \in request[r].entries : owner[e] # None

\* The sweep commits: the next numbers become its payouts.
LEMMA CommitStep ==
  ASSUME PayoutsInv, Owned, NEW r \in Requests, CommitSweep(r)
  PROVE  PayoutsInv'
<1> DEFINE entries == request[r].entries
           k == request[r].key
           paid == Owners(entries)
           m == Cardinality(Made)
           n == Cardinality(paid)
           ids == m + 1 .. m + n
<1>1. /\ request[r] \in Request /\ request[r].step = "commit"
      /\ entries \in SUBSET Entries /\ entries \cap settled = {} /\ k \in Keys \cup {None}
      /\ k # None => record[k] = None
      /\ settled' = settled \cup entries
      /\ UNCHANGED <<owner, adjusted, provider, bounds>>
      /\ Become(r, Queued(ids))
      /\ record' = IF k = None THEN record ELSE [record EXCEPT ![k] = ids]
  BY DEF PayoutsInv, TypeOK, Request, CommitSweep, At, StillUnsettled, KeyFree
<1>2. PICK of \in [ids -> paid] :
        payout' = [p \in Ids |->
          IF p \notin ids THEN payout[p]
          ELSE [ user |-> of[p], status |-> "PENDING", reference |-> FALSE, key |-> k,
                 amount |-> Cardinality({e \in entries : owner[e] = of[p]}) ]]
  BY DEF CommitSweep
<1>3. /\ m \in Nat /\ n \in Nat /\ ids \subseteq Ids \ Made /\ Made \cup ids = 1 .. m + n
      /\ Cardinality(1 .. m + n) = m + n /\ m + n <= Cardinality(settled')
  BY <1>1, SweepNumbers DEF PayoutsInv, Numbered
<1>4. paid \subseteq Users
  BY <1>1 DEF Owned, Owners, PayoutsInv, TypeOK
<1> HIDE DEF m, n, paid, ids
<1>5. ASSUME NEW p \in ids PROVE payout'[p] \in Payout /\ payout'[p].key = k
  <2>1. {e \in entries : owner[e] = of[p]} \in SUBSET Entries
    BY <1>1
  <2>2. Cardinality({e \in entries : owner[e] = of[p]}) \in Nat
    BY <2>1, EntriesAreFinite
  <2>3. of[p] \in Users
    BY <1>2, <1>4
  <2>4. payout'[p] = [ user |-> of[p], status |-> "PENDING", reference |-> FALSE, key |-> k,
                       amount |-> Cardinality({e \in entries : owner[e] = of[p]}) ]
    BY <1>2, <1>3
  <2>5. QED
    BY <1>1, <2>2, <2>3, <2>4 DEF Payout, Statuses
<1>6. \A p \in Ids \ ids : payout'[p] = payout[p]
  BY <1>2
<1>7. payout' \in [Ids -> Payout \cup {None}] /\ Made' = Made \cup ids
  <2>1. payout' \in [Ids -> Payout \cup {None}]
    BY <1>2, <1>5, <1>6 DEF PayoutsInv, TypeOK
  <2>2. \A p \in Ids : payout'[p] # None <=> payout[p] # None \/ p \in ids
    BY <1>5, <1>6, NoneAssumption
  <2>3. QED
    BY <1>3, <2>1, <2>2 DEF Made
<1>8. /\ ids \in SUBSET Ids /\ Queued(ids) \in Request /\ InOrder(Queued(ids), Made')
      /\ \A p \in Ids : Queued(ids).tasks[p] \notin {"send", "write"}
  BY <1>3, <1>7, QueuedIsRequest DEF InOrder, Queued, Idle
<1>9. request' = [request EXCEPT ![r] = Queued(ids)]
  BY <1>1 DEF Become
<1>10. request' \in [Requests -> Request] /\ \A q \in Requests : InOrder(request'[q], Made')
  BY <1>7, <1>8, <1>9, RequestTypes
<1>11. Numbered'
  <2>1. Made' = 1 .. m + n /\ m + n \in Nat
    BY <1>3, <1>7
  <2>2. Cardinality(Made') = m + n
    BY <1>3, <2>1
  <2>3. Cardinality(Made') <= Cardinality(settled')
    BY <1>3, <2>2
  <2>4. QED
    BY <2>1, <2>2, <2>3 DEF Numbered
<1>12. SweptOncePerKey'
  <2>1. ids # None
    BY <1>8, NoneAssumption
  <2>2. record \in [Keys -> (SUBSET Ids) \cup {None}] /\ None \notin Keys
    BY NoneAssumption DEF PayoutsInv, TypeOK
  <2>3. SUFFICES ASSUME NEW h \in Keys
                 PROVE  {p \in Made' : payout'[p].key = h} = IF record'[h] = None THEN {} ELSE record'[h]
    BY DEF SweptOncePerKey
  <2>4. {p \in Made : payout[p].key = h} = IF record[h] = None THEN {} ELSE record[h]
    BY DEF PayoutsInv, SweptOncePerKey
  <2>5. \A p \in Made : p \notin ids /\ payout'[p] = payout[p]
    BY <1>3, <1>6 DEF Made
  <2>6. CASE h = k
    <3>1. record'[h] = ids /\ record[h] = None
      BY <1>1, <2>2, <2>6
    <3>2. {p \in Made' : payout'[p].key = h} = ids
      BY <1>5, <1>7, <2>4, <2>5, <2>6, <3>1
    <3>3. QED
      BY <2>1, <3>1, <3>2
  <2>7. CASE h # k
    <3>1. record'[h] = record[h]
      BY <1>1, <2>2, <2>7
    <3>2. {p \in Made' : payout'[p].key = h} = {p \in Made : payout[p].key = h}
      BY <1>5, <1>7, <2>5, <2>7
    <3>3. QED
      BY <2>4, <3>1, <3>2
  <2>8. QED
    BY <2>6, <2>7
<1>13. ASSUME NEW p \in Ids \ excused' PROVE InOneHand(p)'
  <2>1. InOneHand(p) /\ sent'[p] = sent[p]
    BY <1>1 DEF PayoutsInv, provider
  <2>2. \A q \in Requests :
          /\ Task(q, p)' \in {"send", "write"} => Task(q, p)' = Task(q, p)
          /\ Task(q, p) = "write" => Task(q, p)' = "write"
    <3>1. request \in [Requests -> Request]
      BY DEF PayoutsInv, TypeOK
    <3>2. \A q \in Requests : request'[q] = IF q = r THEN Queued(ids) ELSE request[q]
      BY <1>9, <3>1
    <3>3. Task(r, p) = "none" /\ Task(r, p)' \notin {"send", "write"}
      BY <1>1, <1>8, <3>2, NoneInHand DEF Task
    <3>4. QED
      BY <3>2, <3>3 DEF Task
  <2>3. p \in Made => payout'[p] = payout[p]
    BY <1>3, <1>6
  <2>4. QED
    BY <1>7, <2>1, <2>2, <2>3, KeepsHands
<1>14. TypeOK'
  <2>1. record' \in [Keys -> (SUBSET Ids) \cup {None}]
    BY <1>1, <1>8 DEF PayoutsInv, TypeOK
  <2>2. settled' \subseteq Entries /\ sent' = sent /\ excused' = excused /\ requests' = requests /\ faults' = faults
    BY <1>1 DEF PayoutsInv, TypeOK, provider, bounds
  <2>3. QED
    BY <1>1, <1>7, <1>10, <2>1, <2>2 DEF PayoutsInv, TypeOK
<1>15. QED
  BY <1>10, <1>11, <1>12, <1>13, <1>14 DEF PayoutsInv

\* Snapshots are taken of entries there are, which stay.
LEMMA OwnedInductive == PayoutsInv /\ Owned /\ [Next]_vars => Owned'
<1> SUFFICES ASSUME PayoutsInv, Owned, [Next]_vars PROVE Owned'
  OBVIOUS
<1>1. request \in [Requests -> Request] /\ \A r \in Requests : request[r].users \subseteq Users
  BY DEF PayoutsInv, TypeOK, Request
\* The snapshot of a request stays, is dropped or is taken.
<1>2. ASSUME NEW r \in Requests,
             \A q \in Requests \ {r} : request'[q] = request[q],
             \/ request'[r].entries \subseteq request[r].entries
             \/ owner' = owner /\ \A e \in request'[r].entries : owner[e] # None,
             \A e \in Entries : owner'[e] = owner[e] \/ owner'[e] # None,
             \A q \in Requests : request[q].entries \subseteq Entries
      PROVE  Owned'
  BY <1>2 DEF Owned
<1>3. \A q \in Requests : request[q].entries \subseteq Entries
  BY DEF PayoutsInv, TypeOK, Request
<1>4. CASE UNCHANGED request /\ \A e \in Entries : owner'[e] = owner[e] \/ owner'[e] # None
  BY <1>3, <1>4 DEF Owned
<1>5. ASSUME NEW u \in Users, Earn(u) PROVE Owned'
  <2>1. u # None /\ UNCHANGED request /\ owner' = [owner EXCEPT ![NextEntry] = u]
    BY <1>5, NoneAssumption DEF Earn
  <2>2. QED
    BY <1>4, <2>1 DEF PayoutsInv, TypeOK
<1>6. ASSUME NEW r \in Requests, NEW next, request' = [request EXCEPT ![r] = next], owner' = owner,
             next.entries \subseteq request[r].entries
      PROVE  Owned'
  BY <1>1, <1>2, <1>3, <1>6
<1>7. ASSUME NEW r \in Requests,
             \/ AnswerQueue(r) \/ NotePayout(r) \/ inspectTransfer(r) \/ RequestDies(r)
             \/ CommitSweep(r) \/ RetrySweep(r)
             \/ \E k \in Keys, u \in Users : adjustWallet(r, k, u)
             \/ \E k \in Keys \cup {None} : Sweeps(r, k)
             \/ \E p \in Ids : markPayout(r, p)
      PROVE  Owned'
  <2>1. owner' = owner
    BY <1>7 DEF AnswerQueue, NotePayout, inspectTransfer, RequestDies, CommitSweep, RetrySweep,
                adjustWallet, Sweeps, sweepPayouts, markPayout, ledger
  <2>2. \E next : next.entries = {} /\ request' = [request EXCEPT ![r] = next]
    <3>1. Idle.entries = {} /\ \A ids : Queued(ids).entries = {}
      BY DEF Idle, Queued
    <3>2. CASE Finish(r)
      BY <3>1, <3>2 DEF Finish, Become
    <3>3. CASE CommitSweep(r)
      BY <3>1, <3>3 DEF CommitSweep, Become
    <3>4. CASE RetrySweep(r)
      <4>1. CASE request[r].attempts # 1
        <5>1. [request[r] EXCEPT !.step = "sweep", !.entries = {}, !.attempts = @ - 1].entries = {}
          BY <1>1 DEF Request
        <5>2. QED
          BY <3>4, <4>1, <5>1 DEF RetrySweep, Become
      <4>2. QED
        BY <3>2, <3>4, <4>1 DEF RetrySweep
    <3>5. CASE \E k \in Keys, u \in Users : adjustWallet(r, k, u)
      <4>1. PICK k \in Keys, u \in Users : adjustWallet(r, k, u)
        BY <3>5
      <4>2. [Idle EXCEPT !.step = IF adjusted[k] = None THEN "insert" ELSE "idle",
                         !.key = IF adjusted[k] = None THEN k ELSE None,
                         !.users = IF adjusted[k] = None THEN {u} ELSE {}].entries = {}
        BY DEF Idle
      <4>3. QED
        BY <4>1, <4>2 DEF adjustWallet, Begin, Become
    <3>6. CASE \E k \in Keys \cup {None} : Sweeps(r, k)
      <4>1. PICK k \in Keys \cup {None}, users \in {Users} \cup {{u} : u \in Users} : sweepPayouts(r, k, users)
        BY <3>6 DEF Sweeps
      <4>2. [Idle EXCEPT !.step = "sweep", !.key = k, !.users = users, !.attempts = Attempts].entries = {}
        BY DEF Idle
      <4>3. QED
        BY <4>1, <4>2 DEF sweepPayouts, Begin, Become
    <3>7. CASE \E p \in Ids : markPayout(r, p)
      <4>1. PICK p \in Ids : markPayout(r, p)
        BY <3>7
      <4>2. /\ \A noted : [Idle EXCEPT !.step = "note", !.subject = p, !.noted = noted].entries = {}
            /\ [Idle EXCEPT !.step = "inspect", !.subject = p].entries = {}
        BY DEF Idle
      <4>3. QED
        BY <3>1, <4>1, <4>2 DEF markPayout, Begin, Become
    <3>8. QED
      BY <1>7, <3>2, <3>3, <3>4, <3>5, <3>6, <3>7 DEF AnswerQueue, NotePayout, inspectTransfer, RequestDies
  <2>3. QED
    BY <1>6, <2>1, <2>2
<1>8. ASSUME NEW r \in Requests, insertAdjustment(r) PROVE Owned'
  <2>1. request' = [request EXCEPT ![r] = Idle] /\ Idle.entries = {}
    BY <1>8 DEF insertAdjustment, Finish, Become, Idle
  <2>2. \A e \in Entries : owner'[e] = owner[e] \/ owner'[e] # None
    BY <1>1, <1>8, NoneAssumption DEF insertAdjustment, PayoutsInv, TypeOK
  <2>3. QED
    BY <1>1, <1>2, <1>3, <2>1, <2>2
<1>9. ASSUME NEW r \in Requests, ReadSweep(r) PROVE Owned'
  <2>1. owner' = owner
    BY <1>9 DEF ReadSweep, ledger
  <2>2. CASE Become(r, Recorded(request[r].key)) \/ Finish(r)
    BY <1>6, <2>1, <2>2 DEF Become, Finish, Recorded, Queued, Idle
  <2>3. CASE Become(r, [request[r] EXCEPT !.step = "commit", !.entries = Unsettled(request[r].users)])
    <3>1. request'[r].entries = Unsettled(request[r].users) /\ \A q \in Requests \ {r} : request'[q] = request[q]
      BY <1>1, <2>3 DEF Become, Request
    <3>2. \A e \in Unsettled(request[r].users) : owner[e] # None
      BY <1>1, NoneAssumption DEF Unsettled
    <3>3. QED
      BY <1>2, <1>3, <2>1, <3>1, <3>2
  <2>4. QED
    BY <1>9, <2>2, <2>3 DEF ReadSweep
<1>10. ASSUME NEW r \in Requests, NEW p \in Ids,
              queuePayout(r, p) \/ createTransfer(r, p) \/ WriteTransfer(r, p) \/ TransferFails(r, p)
       PROVE  Owned'
  <2>1. PICK task : GotoTask(r, p, task)
    BY <1>10 DEF queuePayout, createTransfer, WriteTransfer, TransferFails
  <2>2. owner' = owner
    BY <1>10 DEF queuePayout, createTransfer, WriteTransfer, TransferFails, ledger
  <2>3. [request[r] EXCEPT !.tasks[p] = task].entries = request[r].entries
    BY <1>1 DEF Request
  <2>4. QED
    BY <1>6, <2>1, <2>2, <2>3 DEF GotoTask
<1>11. CASE UNCHANGED vars
  BY <1>4, <1>11 DEF vars, ledger
<1>12. QED
  BY <1>5, <1>7, <1>8, <1>9, <1>10, <1>11 DEF Next, GoesOn
-----------------------------------------------------------------------------
LEMMA PayoutsInitially == Init => PayoutsInv /\ Owned
<1> SUFFICES ASSUME Init PROVE PayoutsInv /\ Owned
  OBVIOUS
<1>1. \A r \in Requests : request[r] = Idle
  BY DEF Init
<1>2. TypeOK
  BY IdleIsRequest, BoundsAssumption DEF Init, TypeOK
<1>3. \A r \in Requests : InOrder(request[r], Made)
  BY <1>1, IdleIsRequest
<1>4. Made = {} /\ settled = {}
  BY DEF Init, Made
<1>5. Numbered
  <2>1. Cardinality(Made) = 0 /\ Cardinality(settled) = 0
    BY <1>4, FS_EmptySet
  <2>2. QED
    BY <1>4, <2>1 DEF Numbered
<1>6. SweptOncePerKey
  BY <1>4 DEF Init, SweptOncePerKey
<1>7. \A p \in Ids \ excused : InOneHand(p)
  BY <1>1 DEF Init, InOneHand, Task, Idle, NoTasks
<1>8. Owned
  BY <1>1 DEF Owned, Idle
<1>9. QED
  BY <1>2, <1>3, <1>5, <1>6, <1>7, <1>8 DEF PayoutsInv

LEMMA PayoutsInductive == PayoutsInv /\ Owned /\ [Next]_vars => PayoutsInv'
<1> SUFFICES ASSUME PayoutsInv, Owned, [Next]_vars PROVE PayoutsInv'
  OBVIOUS
<1>1. CASE UNCHANGED vars
  BY <1>1 DEF vars, ledger, payouts, provider, bounds, PayoutsInv, TypeOK, InOrder, Made, Numbered,
              SweptOncePerKey, InOneHand, Task
<1>2. CASE \E u \in Users : Earn(u)
  BY <1>2, EarnStep
<1>3. ASSUME NEW r \in Requests, \E k \in Keys, u \in Users : adjustWallet(r, k, u) PROVE PayoutsInv'
  BY <1>3, AdjustStep
<1>4. ASSUME NEW r \in Requests, \E k \in Keys \cup {None} : Sweeps(r, k) PROVE PayoutsInv'
  <2>1. PICK k \in Keys \cup {None}, users \in SUBSET Users : sweepPayouts(r, k, users)
    BY <1>4 DEF Sweeps
  <2>2. QED
    BY <2>1, SweepStep
<1>5. ASSUME NEW r \in Requests, NEW p \in Ids,
             \/ markPayout(r, p) \/ TransferFails(r, p)
             \/ queuePayout(r, p) \/ createTransfer(r, p) \/ WriteTransfer(r, p)
      PROVE  PayoutsInv'
  BY <1>5, MarkStep, FailStep, ReadStep, SendStep, WriteStep
<1>6. ASSUME NEW r \in Requests,
             \/ insertAdjustment(r) \/ ReadSweep(r) \/ CommitSweep(r) \/ RetrySweep(r)
             \/ AnswerQueue(r) \/ NotePayout(r) \/ inspectTransfer(r) \/ RequestDies(r)
      PROVE  PayoutsInv'
  BY <1>6, InsertStep, ReadSweepStep, CommitStep, RetryStep, AnswerStep, NoteStep, InspectStep, DiesStep
<1>7. QED
  BY <1>1, <1>2, <1>3, <1>4, <1>5, <1>6 DEF Next, GoesOn

LEMMA PayoutsAlways == Spec => [](PayoutsInv /\ Owned)
<1>1. PayoutsInv /\ Owned /\ [Next]_vars => (PayoutsInv /\ Owned)'
  BY PayoutsInductive, OwnedInductive
<1>2. QED
  BY <1>1, PayoutsInitially, PTL DEF Spec

\* For any number of partners, keys, requests and faults: the sweeps with one
\* idempotency key make one set of payouts, the recorded one.
THEOREM SweepsOncePerKey == Spec => []SweptOncePerKey
<1>1. PayoutsInv => SweptOncePerKey
  BY DEF PayoutsInv
<1>2. QED
  BY <1>1, PayoutsAlways, PTL

\* For any number of partners, keys, requests and faults: a payout is transferred
\* at most once, and then its row says so, but for the payouts in excused.
THEOREM TransfersOnce == Spec => []TransferredOnce
<1>1. PayoutsInv => TransferredOnce
  BY DEF PayoutsInv, InOneHand, TransferredOnce
<1>2. QED
  BY <1>1, PayoutsAlways, PTL

\* For any number of partners, keys, requests and faults: no sweep settles more
\* than there is to settle or makes payouts for more; every payout has a settled
\* entry of its own, and the rows keep their types.
THEOREM PayoutsAreCovered == Spec => [](TypeOK /\ Cardinality(Made) <= Cardinality(settled))
<1>1. PayoutsInv => TypeOK /\ Cardinality(Made) <= Cardinality(settled)
  BY DEF PayoutsInv, Numbered
<1>2. QED
  BY <1>1, PayoutsAlways, PTL
-----------------------------------------------------------------------------
\* The entries are numbered from 1, and the settled ones are there.
EntriesNumbered ==
  LET entered == {e \in Entries : owner[e] # None} IN
    entered = 1 .. Cardinality(entered)

MatchInv ==
  /\ EntriesNumbered
  /\ \A e \in settled : owner[e] # None
  /\ PayoutsMatchSettled

\* A new entry is not one of those there are.
LEMMA EntryIsNew ==
  ASSUME PayoutsInv, MatchInv, NEW u \in Users, NextEntry \in Entries,
         owner' = [owner EXCEPT ![NextEntry] = u]
  PROVE  /\ EntriesNumbered'
         /\ \A e \in Entries : owner[e] # None => owner'[e] = owner[e]
<1> DEFINE entered == {e \in Entries : owner[e] # None}
           n == Cardinality(entered)
<1>1. n \in Nat /\ IsFiniteSet(entered)
  BY EntriesAreFinite
<1>2. entered = 1 .. n /\ NextEntry = n + 1
  BY DEF MatchInv, EntriesNumbered, NextEntry
<1>3. owner[n + 1] = None
  BY <1>1, <1>2
<1>4. owner' = [owner EXCEPT ![n + 1] = u] /\ u # None /\ n + 1 \in Entries
  BY <1>2, NoneAssumption
<1>5. {e \in Entries : owner'[e] # None} = entered \cup {n + 1}
  BY <1>4 DEF PayoutsInv, TypeOK
<1>6. Cardinality(entered \cup {n + 1}) = n + 1
  <2>1. n + 1 \notin entered
    BY <1>3
  <2>2. QED
    BY <1>1, <2>1, FS_AddElement
<1>7. entered \cup {n + 1} = 1 .. n + 1
  <2> HIDE DEF n, entered
  <2>1. QED
    BY <1>1, <1>2
<1>8. EntriesNumbered'
  <2> HIDE DEF n, entered
  <2>1. QED
    BY <1>5, <1>6, <1>7 DEF EntriesNumbered
<1>9. \A e \in Entries : owner[e] # None => owner'[e] = owner[e]
  BY <1>3, <1>4 DEF PayoutsInv, TypeOK
<1>10. QED
  BY <1>8, <1>9

\* The payouts there are can be added up.
LEMMA AmountsAreNat ==
  ASSUME PayoutsInv
  PROVE  /\ IsFiniteSet(Made)
         /\ \A p \in Made : payout[p] \in Payout /\ Amounts[p] \in Nat
<1>1. Made \in SUBSET Entries
  BY DEF Made, Ids, Entries
<1>2. \A p \in Made : payout[p] \in Payout
  BY DEF PayoutsInv, TypeOK, Made
<1>3. \A p \in Made : Amounts[p] \in Nat
  BY <1>2 DEF Amounts, Payout
<1>4. QED
  BY <1>1, <1>2, <1>3, EntriesAreFinite

\* Payouts that stay what they are match settled entries that stay what they are.
LEMMA MatchKept ==
  ASSUME PayoutsInv, MatchInv, EntriesNumbered', settled' = settled,
         \A e \in Entries : owner[e] # None => owner'[e] = owner[e],
         Made' = Made,
         \A p \in Made : payout'[p].user = payout[p].user /\ payout'[p].amount = payout[p].amount
  PROVE  MatchInv'
<1>1. \A e \in settled : owner[e] # None /\ owner'[e] = owner[e]
  BY DEF MatchInv, PayoutsInv, TypeOK
<1>2. ASSUME NEW u \in Users PROVE PaidOut(u)' = PaidOut(u)
  <2>1. PayoutsOf(u)' = PayoutsOf(u) /\ Amounts' = Amounts
    BY DEF PayoutsOf, Amounts
  <2>2. QED
    BY <2>1 DEF PaidOut
<1>3. ASSUME NEW u \in Users PROVE {e \in settled' : owner'[e] = u} = {e \in settled : owner[e] = u}
  BY <1>1
<1>4. QED
  BY <1>1, <1>2, <1>3 DEF MatchInv, PayoutsMatchSettled

\* A sweep pays every partner once, what the partner's entries of the snapshot
\* are worth, and settles these entries.
LEMMA MatchCommits ==
  ASSUME PayoutsInv, Owned, MatchInv, NEW r \in Requests, CommitSweep(r)
  PROVE  MatchInv'
<1> DEFINE entries == request[r].entries
           paid == Owners(entries)
           m == Cardinality(Made)
           n == Cardinality(paid)
           ids == m + 1 .. m + n
           worth(u) == Cardinality({e \in entries : owner[e] = u})
<1>1. /\ entries \in SUBSET Entries /\ entries \cap settled = {}
      /\ settled' = settled \cup entries /\ owner' = owner
  BY DEF PayoutsInv, TypeOK, Request, CommitSweep, StillUnsettled
<1>2. PICK of \in [ids -> paid] :
        /\ {of[p] : p \in ids} = paid
        /\ payout' = [p \in Ids |->
             IF p \notin ids THEN payout[p]
             ELSE [ user |-> of[p], status |-> "PENDING", reference |-> FALSE, key |-> request[r].key,
                    amount |-> worth(of[p]) ]]
  BY DEF CommitSweep
<1>3. m \in Nat /\ n \in Nat /\ ids \subseteq Ids \ Made
  BY <1>1, SweepNumbers, AmountsAreNat, FS_CardinalityType
<1>4. \A p, q \in ids : of[p] = of[q] => p = q
  <2>1. IsFiniteSet(ids) /\ Cardinality(ids) = n
    <3> HIDE DEF m, n
    <3>1. QED
      BY <1>3, FS_Interval
  <2>2. of \in Surjection(ids, paid)
    <3> HIDE DEF ids, paid
    <3>1. QED
      BY <1>2 DEF Surjection
  <2>3. of \in Injection(ids, paid)
    <3> HIDE DEF ids, paid
    <3>1. QED
      BY <2>1, <2>2, FS_SurjSameCardinalityImpliesInj DEF n
  <2>4. QED
    <3> HIDE DEF ids, paid
    <3>1. QED
      BY <2>3 DEF Injection, IsInjective
<1>5. \A u : worth(u) \in Nat
  <2>1. \A u : {e \in entries : owner[e] = u} \in SUBSET Entries
    BY <1>1
  <2>2. QED
    BY <2>1, EntriesAreFinite
<1> HIDE DEF paid, m, n, ids, worth
<1>6. /\ \A p \in ids : payout'[p] # None /\ payout'[p].user = of[p] /\ payout'[p].amount = worth(of[p])
      /\ \A p \in Ids \ ids : payout'[p] = payout[p]
  <2>1. ASSUME NEW p \in ids
        PROVE  payout'[p] # None /\ payout'[p].user = of[p] /\ payout'[p].amount = worth(of[p])
    <3> DEFINE row == [ user |-> of[p], status |-> "PENDING", reference |-> FALSE,
                        key |-> request[r].key, amount |-> worth(of[p]) ]
    <3>1. payout'[p] = row
      BY <1>2, <1>3
    <3>2. of[p] \in Users
      BY <1>1, <1>2 DEF paid, Owners, Owned, PayoutsInv, TypeOK
    <3>3. request[r].key \in Keys \cup {None}
      BY DEF PayoutsInv, TypeOK, Request
    <3>4. row \in Payout
      BY <1>5, <3>2, <3>3 DEF Payout, Statuses
    <3>5. row.user = of[p] /\ row.amount = worth(of[p])
      OBVIOUS
    <3> HIDE DEF row
    <3>6. QED
      BY <3>1, <3>4, <3>5, NoneAssumption
  <2>2. \A p \in Ids \ ids : payout'[p] = payout[p]
    BY <1>2
  <2>3. QED
    BY <2>1, <2>2
<1>7. Made' = Made \cup ids
  BY <1>3, <1>6 DEF Made
<1>8. ASSUME NEW u \in Users
      PROVE  PaidOut(u)' = Cardinality({e \in settled' : owner'[e] = u})
  <2> DEFINE of_u == PayoutsOf(u)
             before == {e \in settled : owner[e] = u}
             swept == {e \in entries : owner[e] = u}
  <2>1. PaidOut(u) = Cardinality(before)
    BY DEF MatchInv, PayoutsMatchSettled
  <2>2. Cardinality({e \in settled' : owner'[e] = u}) = Cardinality(before) + worth(u)
    <3>1. {e \in settled' : owner'[e] = u} = before \cup swept /\ before \cap swept = {}
      BY <1>1
    <3>2. before \in SUBSET Entries /\ swept \in SUBSET Entries
      BY <1>1 DEF PayoutsInv, TypeOK
    <3>3. Cardinality(before \cup swept) = Cardinality(before) + Cardinality(swept) - Cardinality(before \cap swept)
      BY <3>2, EntriesAreFinite, FS_Union
    <3>4. Cardinality(before) \in Nat /\ Cardinality(swept) \in Nat /\ Cardinality(before \cap swept) = 0
      BY <3>1, <3>2, EntriesAreFinite, FS_EmptySet
    <3>5. Cardinality(before \cup swept) = Cardinality(before) + Cardinality(swept)
      <4> HIDE DEF before, swept
      <4>1. QED
        BY <3>3, <3>4
    <3>6. worth(u) = Cardinality(swept)
      BY DEF worth
    <3>7. QED
      BY <3>1, <3>5, <3>6
  <2>3. /\ IsFiniteSet(of_u)
        /\ \A p \in of_u : p \notin ids /\ Amounts'[p] = Amounts[p] /\ Amounts[p] \in Nat
        /\ PayoutsOf(u)' = of_u \cup {p \in ids : of[p] = u}
        /\ \A p \in ids : Amounts'[p] = worth(of[p])
    <3>1. of_u \subseteq Made /\ IsFiniteSet(of_u)
      BY AmountsAreNat, FS_Subset DEF PayoutsOf
    <3>2. \A p \in of_u : p \notin ids /\ Amounts[p] \in Nat
      BY <1>3, <3>1, AmountsAreNat
    <3>3. \A p \in Made : p \in Ids \ ids /\ payout'[p] = payout[p]
      BY <1>3, <1>6 DEF Made
    <3>4. \A p \in of_u : Amounts'[p] = Amounts[p]
      BY <1>7, <3>1, <3>3 DEF Amounts
    <3>5. PayoutsOf(u)' = of_u \cup {p \in ids : of[p] = u}
      BY <1>6, <1>7, <3>3 DEF PayoutsOf
    <3>6. \A p \in ids : Amounts'[p] = worth(of[p])
      BY <1>6, <1>7 DEF Amounts
    <3>7. QED
      BY <3>1, <3>2, <3>4, <3>5, <3>6
  <2>4. SumFunctionOnSet(Amounts', of_u) = PaidOut(u)
    <3> HIDE DEF of_u
    <3>1. PICK f, g : f = Amounts /\ g = Amounts'
      OBVIOUS
    <3>2. SumFunctionOnSet(g, of_u) = SumFunctionOnSet(f, of_u)
      BY <2>3, <3>1, SumOfSame
    <3>3. QED
      BY <3>1, <3>2 DEF PaidOut, of_u
  <2>5. CASE u \in paid
    <3>1. PICK p \in ids : of[p] = u
      BY <1>2, <2>5
    <3>2. {q \in ids : of[q] = u} = {p}
      BY <1>4, <3>1
    <3>3. PayoutsOf(u)' = of_u \cup {p} /\ p \notin of_u /\ Amounts'[p] = worth(u)
      BY <2>3, <3>1, <3>2
    <3>4. \A q \in of_u \cup {p} : Amounts'[q] \in Int
      BY <1>5, <2>3, <3>3
    <3>5. SumFunctionOnSet(Amounts', of_u \cup {p}) = SumFunctionOnSet(Amounts', of_u) + Amounts'[p]
      <4> HIDE DEF of_u
      <4>1. PICK g : g = Amounts'
        OBVIOUS
      <4>2. SumFunctionOnSet(g, of_u \cup {p}) = SumFunctionOnSet(g, of_u) + g[p]
        BY <2>3, <3>3, <3>4, <4>1, SumAdds
      <4>3. QED
        BY <4>1, <4>2
    <3>6. PaidOut(u)' = SumFunctionOnSet(Amounts', of_u \cup {p})
      BY <3>3 DEF PaidOut
    <3>7. QED
      BY <2>1, <2>2, <2>4, <3>3, <3>5, <3>6
  <2>6. CASE u \notin paid
    <3>1. {p \in ids : of[p] = u} = {}
      BY <1>2, <2>6
    <3>2. swept = {} /\ worth(u) = 0
      <4>1. swept = {}
        BY <2>6 DEF paid, Owners
      <4>2. QED
        BY <4>1, FS_EmptySet DEF worth
    <3>3. PayoutsOf(u)' = of_u
      BY <2>3, <3>1
    <3>4. PaidOut(u)' = SumFunctionOnSet(Amounts', of_u)
      BY <3>3 DEF PaidOut
    <3>5. before \in SUBSET Entries
      BY DEF PayoutsInv, TypeOK
    <3>6. Cardinality(before) \in Nat
      BY <3>5, EntriesAreFinite
    <3>7. QED
      BY <2>1, <2>2, <2>4, <3>2, <3>4, <3>6
  <2>7. QED
    BY <2>5, <2>6
<1>9. \A e \in settled' : owner'[e] # None
  BY <1>1 DEF MatchInv, Owned
<1>10. EntriesNumbered'
  BY <1>1 DEF MatchInv, EntriesNumbered
<1>11. QED
  BY <1>8, <1>9, <1>10 DEF MatchInv, PayoutsMatchSettled

LEMMA MatchInductive == PayoutsInv /\ Owned /\ MatchInv /\ [Next]_vars => MatchInv'
<1> SUFFICES ASSUME PayoutsInv, Owned, MatchInv, [Next]_vars PROVE MatchInv'
  OBVIOUS
\* What a row's update leaves alone.
<1>1. ASSUME UNCHANGED ledger,
             \/ UNCHANGED payout
             \/ \E p \in Made, status \in Statuses, reference \in BOOLEAN :
                  payout' = [payout EXCEPT ![p].status = status, ![p].reference = reference]
      PROVE  MatchInv'
  <2>1. owner' = owner /\ settled' = settled
    BY <1>1 DEF ledger
  <2>2. EntriesNumbered'
    BY <2>1 DEF MatchInv, EntriesNumbered
  <2>3. CASE UNCHANGED payout
    BY <2>1, <2>2, <2>3, MatchKept DEF Made
  <2>4. ASSUME NEW p \in Made, NEW status \in Statuses, NEW reference \in BOOLEAN,
               payout' = [payout EXCEPT ![p].status = status, ![p].reference = reference]
        PROVE  MatchInv'
    <3> DEFINE row == [payout[p] EXCEPT !.status = status, !.reference = reference]
    <3>1. payout[p] \in Payout /\ p \in Ids
      BY AmountsAreNat DEF Made
    <3>2. row \in Payout /\ row.user = payout[p].user /\ row.amount = payout[p].amount
      BY <3>1 DEF Payout
    <3>3. payout' = [payout EXCEPT ![p] = row]
      BY <2>4
    <3> HIDE DEF row
    <3>4. \A q \in Ids : payout'[q] = IF q = p THEN row ELSE payout[q]
      BY <3>3 DEF PayoutsInv, TypeOK
    <3>5. Made' = Made
      BY <3>1, <3>2, <3>4, NoneAssumption DEF Made
    <3>6. \A q \in Made : payout'[q].user = payout[q].user /\ payout'[q].amount = payout[q].amount
      BY <3>2, <3>4 DEF Made
    <3>7. QED
      BY <2>1, <2>2, <3>5, <3>6, MatchKept
  <2>5. QED
    BY <1>1, <2>3, <2>4
\* A new entry is nobody's settled entry.
<1>2. ASSUME NEW u \in Users, NextEntry \in Entries, owner' = [owner EXCEPT ![NextEntry] = u],
             settled' = settled, UNCHANGED payout
      PROVE  MatchInv'
  <2>1. Made' = Made
    BY <1>2 DEF Made
  <2>2. QED
    BY <1>2, <2>1, EntryIsNew, MatchKept
<1>3. CASE UNCHANGED vars
  BY <1>1, <1>3 DEF vars, payouts
<1>4. CASE \E u \in Users : Earn(u)
  BY <1>2, <1>4 DEF Earn, payouts
<1>5. ASSUME NEW r \in Requests, insertAdjustment(r) PROVE MatchInv'
  <2>1. settled' = settled /\ UNCHANGED payout
    BY <1>5 DEF insertAdjustment, payouts
  <2>2. CASE UNCHANGED <<owner, adjusted>>
    BY <1>1, <2>1, <2>2 DEF ledger
  <2>3. CASE NextEntry \in Entries /\ \E u \in request[r].users : owner' = [owner EXCEPT ![NextEntry] = u]
    <3>1. request[r].users \subseteq Users
      BY DEF PayoutsInv, TypeOK, Request
    <3>2. QED
      BY <1>2, <2>1, <2>3, <3>1
  <2>4. QED
    BY <1>5, <2>2, <2>3 DEF insertAdjustment
<1>6. ASSUME NEW r \in Requests, CommitSweep(r) PROVE MatchInv'
  BY <1>6, MatchCommits
<1>7. ASSUME NEW r \in Requests,
             \/ \E k \in Keys, u \in Users : adjustWallet(r, k, u)
             \/ \E k \in Keys \cup {None} : Sweeps(r, k)
             \/ ReadSweep(r) \/ RetrySweep(r) \/ AnswerQueue(r) \/ RequestDies(r)
             \/ \E p \in Ids : \/ markPayout(r, p) \/ TransferFails(r, p)
                               \/ queuePayout(r, p) \/ createTransfer(r, p)
      PROVE  MatchInv'
  <2>1. UNCHANGED ledger /\ UNCHANGED payouts
    BY <1>7 DEF adjustWallet, Sweeps, sweepPayouts, ReadSweep, RetrySweep, AnswerQueue, RequestDies,
                markPayout, TransferFails, queuePayout, createTransfer
  <2>2. QED
    BY <1>1, <2>1 DEF payouts
<1>8. ASSUME NEW r \in Requests, NEW p \in Ids, WriteTransfer(r, p) PROVE MatchInv'
  <2>1. request[r] \in Request /\ InOrder(request[r], Made) /\ request[r].tasks[p] = "write"
    BY <1>8 DEF WriteTransfer, Task, PayoutsInv, TypeOK
  <2>2. p \in Made
    BY <2>1 DEF InOrder
  <2>3. UNCHANGED ledger
    BY <1>8 DEF WriteTransfer
  <2>4. PICK outcome \in Outcomes :
          payout' = [payout EXCEPT ![p].status = outcome, ![p].reference = TRUE]
    BY <1>8 DEF WriteTransfer
  <2>5. outcome \in Statuses /\ TRUE \in BOOLEAN
    BY StatusesAssumption DEF Statuses
  <2>6. QED
    BY <1>1, <2>2, <2>3, <2>4, <2>5
<1>9. ASSUME NEW r \in Requests, NotePayout(r) \/ inspectTransfer(r) PROVE MatchInv'
  <2> DEFINE p == request[r].subject
  <2>1. request[r] \in Request /\ p \in Made /\ request[r].noted \in BOOLEAN
    BY <1>9 DEF NotePayout, inspectTransfer, At, PayoutsInv, TypeOK, InOrder, Request
  <2>2. UNCHANGED ledger
    BY <1>9 DEF NotePayout, inspectTransfer
  <2>3. CASE NotePayout(r)
    <3>1. PICK status \in Noted :
            payout' = [payout EXCEPT ![p].status = status, ![p].reference = request[r].noted]
      BY <2>3 DEF NotePayout
    <3>2. status \in Statuses
      BY StatusesAssumption
    <3>3. QED
      BY <1>1, <2>1, <2>2, <3>1, <3>2
  <2>4. CASE inspectTransfer(r)
    <3>1. PICK outcome \in Outcomes :
            payout' = [payout EXCEPT ![p].status = outcome, ![p].reference = TRUE]
      BY <2>4 DEF inspectTransfer
    <3>2. outcome \in Statuses /\ TRUE \in BOOLEAN
      BY StatusesAssumption DEF Statuses
    <3>3. QED
      BY <1>1, <2>1, <2>2, <3>1, <3>2
  <2>5. QED
    BY <1>9, <2>3, <2>4
<1>10. QED
  BY <1>3, <1>4, <1>5, <1>6, <1>7, <1>8, <1>9 DEF Next, GoesOn

LEMMA MatchInitially == Init => MatchInv
<1> SUFFICES ASSUME Init PROVE MatchInv
  OBVIOUS
<1>1. {e \in Entries : owner[e] # None} = {} /\ settled = {} /\ Made = {}
  BY DEF Init, Made
<1>2. EntriesNumbered
  BY <1>1, FS_EmptySet DEF EntriesNumbered
<1>3. ASSUME NEW u \in Users
      PROVE  PaidOut(u) = Cardinality({e \in settled : owner[e] = u})
  <2>1. PayoutsOf(u) = {} /\ {e \in settled : owner[e] = u} = {}
    BY <1>1 DEF PayoutsOf
  <2>2. PaidOut(u) = 0
    BY <2>1, SumOfNothing DEF PaidOut
  <2>3. QED
    BY <2>1, <2>2, FS_EmptySet
<1>4. QED
  BY <1>1, <1>2, <1>3 DEF MatchInv, PayoutsMatchSettled

\* For any number of partners, entries, keys, requests and faults: a partner's
\* payouts are worth what the partner's settled entries are worth, however sweeps
\* overlap, are retried, repeated or die.
THEOREM PayoutsMatch == Spec => []PayoutsMatchSettled
<1>1. Init => PayoutsInv /\ Owned /\ MatchInv
  BY PayoutsInitially, MatchInitially
<1>2. PayoutsInv /\ Owned /\ MatchInv /\ [Next]_vars => (PayoutsInv /\ Owned /\ MatchInv)'
  BY PayoutsInductive, OwnedInductive, MatchInductive
<1>3. PayoutsInv /\ Owned /\ MatchInv => PayoutsMatchSettled
  BY DEF MatchInv
<1>4. QED
  BY <1>1, <1>2, <1>3, PTL DEF Spec
=============================================================================
