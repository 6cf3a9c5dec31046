-------------------------------- MODULE Payouts --------------------------------
(***************************************************************************)
(* FinanceSurfaceService: wallet adjustments, the payout sweep, transfers  *)
(* at the payout provider, and what staff note on a payout.                *)
(*                                                                         *)
(* The sweep is a serializable transaction: ReadSweep takes its snapshot,  *)
(* CommitSweep applies it if the rows it read are as they were, and        *)
(* RetrySweep starts over; PostgreSQL may abort one for less.  After it,   *)
(* one queuePayout for each payout runs on its own.  The other handlers    *)
(* read, call the provider and write with nothing held between.            *)
(*                                                                         *)
(* Every entry is worth 1.  Left out: debits and refunds, which no sweep   *)
(* looks at, the roles, and bank details other than that they are approved.*)
(***************************************************************************)
EXTENDS Integers, FiniteSets, FiniteSetsExt

CONSTANTS
  Users,        \* partners
  MaxEntries,   \* bound: LedgerEntry rows, and so Payout rows
  Keys,         \* idempotency keys of sweeps
  Requests,     \* requests that can be in flight together
  Outcomes,     \* what the provider says of a transfer
  Noted,        \* what staff note
  None,
  MaxRequests,  \* bound: requests of a behaviour, repeated sweeps not counted
  MaxFaults     \* bound: aborts, failures and deaths of a behaviour

Statuses == {"PENDING", "PROCESSING", "PAID", "FAILED", "CANCELLED"}
Attempts == 3

\* Rows are numbered as they are made.
Entries == 1 .. MaxEntries
Ids == 1 .. MaxEntries

Payout == [ user : Users, amount : Nat, status : Statuses, reference : BOOLEAN,
            key : Keys \cup {None} ]

\* key, users and attempts are a sweep's, or key and users an adjustment's;
\* entries is the sweep's snapshot; subject is the payout of a mark, and noted
\* whether a reference will be written; tasks says how far the queuePayout of
\* each payout is.
Steps == {"idle", "insert", "sweep", "commit", "queue", "note", "inspect"}
Tasks == {"none", "read", "send", "write"}
Request == [ step : Steps, key : Keys \cup {None}, users : SUBSET Users, attempts : 0 .. Attempts,
             entries : SUBSET Entries, subject : Ids \cup {None}, noted : BOOLEAN,
             tasks : [Ids -> Tasks] ]

ASSUME NoneAssumption ==
  None \notin Users \cup Nat \cup Keys \cup Payout /\ \A ids \in SUBSET Ids : None # ids
ASSUME StatusesAssumption ==
  Outcomes \subseteq {"PROCESSING", "PAID", "FAILED"} /\ Noted \subseteq Statuses
ASSUME BoundsAssumption == MaxEntries \in Nat /\ MaxRequests \in Nat /\ MaxFaults \in Nat

VARIABLES
  owner,     \* LedgerEntry.userId of each entry, None when there is no row
  settled,   \* entries with isSettled
  adjusted,  \* of each key, the entry with that adjustment's paymentId, or None
  payout,    \* Payout rows, None when there is none
  record,    \* SystemConfig finance:payout-sweep:<key>: its payouts, or None
  request,   \* requests in flight
  sent,      \* of each payout, the transfers made at the provider
  excused,   \* history: payouts that were read while another request had them
             \* in hand, lost their transfer's answer, or were reset by staff
  requests,  \* bound: how many may still start
  faults     \* bound: how many may still happen

ledger == <<owner, settled, adjusted>>
payouts == <<payout, record>>
provider == <<sent, excused>>
bounds == <<requests, faults>>
vars == <<ledger, payouts, request, provider, bounds>>

TypeOK ==
  /\ owner \in [Entries -> Users \cup {None}]
  /\ settled \subseteq Entries
  /\ adjusted \in [Keys -> Entries \cup {None}]
  /\ payout \in [Ids -> Payout \cup {None}]
  /\ record \in [Keys -> (SUBSET Ids) \cup {None}]
  /\ request \in [Requests -> Request]
  /\ sent \in [Ids -> Nat]
  /\ excused \subseteq Ids
  /\ requests \in Nat /\ faults \in Nat

NoTasks == [p \in Ids |-> "none"]
Idle == [ step |-> "idle", key |-> None, users |-> {}, attempts |-> 0, entries |-> {},
          subject |-> None, noted |-> FALSE, tasks |-> NoTasks ]

Init ==
  /\ owner = [e \in Entries |-> None]
  /\ settled = {}
  /\ adjusted = [k \in Keys |-> None]
  /\ payout = [p \in Ids |-> None]
  /\ record = [k \in Keys |-> None]
  /\ request = [r \in Requests |-> Idle]
  /\ sent = [p \in Ids |-> 0]
  /\ excused = {}
  /\ requests = MaxRequests
  /\ faults = MaxFaults
-----------------------------------------------------------------------------
At(r, step) == request[r].step = step
Become(r, next) == request' = [request EXCEPT ![r] = next]
Finish(r) == Become(r, Idle)
Begin(r, next) == At(r, "idle") /\ Become(r, next)
Count == requests > 0 /\ requests' = requests - 1 /\ UNCHANGED faults
Fault == faults > 0 /\ faults' = faults - 1 /\ UNCHANGED requests

Made == {p \in Ids : payout[p] # None}
NextEntry == Cardinality({e \in Entries : owner[e] # None}) + 1

\* A ride, a courier job or a delivery is paid for.
Earn(u) ==
  /\ NextEntry \in Entries
  /\ owner' = [owner EXCEPT ![NextEntry] = u]
  /\ UNCHANGED <<settled, adjusted, payouts, request, provider, bounds>>
-----------------------------------------------------------------------------
Owners(entries) == {owner[e] : e \in entries}

\* adjustWallet: the entry with this key, if there is one, is the answer; ...
adjustWallet(r, k, u) ==
  /\ Count
  /\ Begin(r, [Idle EXCEPT !.step = IF adjusted[k] = None THEN "insert" ELSE "idle",
                           !.key = IF adjusted[k] = None THEN k ELSE None,
                           !.users = IF adjusted[k] = None THEN {u} ELSE {}])
  /\ UNCHANGED <<ledger, payouts, provider>>

\* ... if there was none, it is inserted, and paymentId is unique.  (It fails as
\* well when the instance has no entry left.)
insertAdjustment(r) ==
  /\ At(r, "insert")
  /\ LET k == request[r].key IN
       IF adjusted[k] # None \/ NextEntry \notin Entries THEN UNCHANGED <<owner, adjusted>>
       ELSE \E u \in request[r].users :
              /\ owner' = [owner EXCEPT ![NextEntry] = u]
              /\ adjusted' = [adjusted EXCEPT ![k] = NextEntry]
  /\ Finish(r)
  /\ UNCHANGED <<settled, payouts, provider, bounds>>
-----------------------------------------------------------------------------
Unsettled(users) == {e \in Entries \ settled : owner[e] \in users}

\* A client that got no answer sends its sweep again, and whom it names then no
\* longer matters.
sweepPayouts(r, k, users) ==
  /\ IF k # None /\ record[k] # None THEN users = Users /\ UNCHANGED bounds ELSE Count
  /\ Begin(r, [Idle EXCEPT !.step = "sweep", !.key = k, !.users = users, !.attempts = Attempts])
  /\ UNCHANGED <<ledger, payouts, provider>>

Queued(ids) ==
  [Idle EXCEPT !.step = "queue", !.tasks = [p \in Ids |-> IF p \in ids THEN "read" ELSE "none"]]

WrongRecorded(k) == Idle
Recorded(k) == Queued(record[k])

\* resolveBankDetails: a partner's verification, as the snapshot finds it, may
\* not be approved, which fails the whole sweep.
MayLackBankDetails(entries) == entries # {}

\* A recorded sweep goes on with its payouts.
ReadSweep(r) ==
  /\ At(r, "sweep")
  /\ LET k == request[r].key
         entries == Unsettled(request[r].users) IN
       IF k # None /\ record[k] # None THEN Become(r, Recorded(k))
       ELSE \/ Become(r, [request[r] EXCEPT !.step = "commit", !.entries = entries])
            \/ MayLackBankDetails(entries) /\ Finish(r)
  /\ UNCHANGED <<ledger, payouts, provider, bounds>>

WrongStillUnsettled(entries) == TRUE
StillUnsettled(entries) == entries \cap settled = {}

WrongKeyFree(k) == TRUE
KeyFree(k) == k # None => record[k] = None

\* updateMany sees the rows of the snapshot, so its count is never short; a row
\* changed since, or the key's record inserted since, aborts the transaction.
CommitSweep(r) ==
  /\ At(r, "commit")
  /\ LET q == request[r] IN
       /\ StillUnsettled(q.entries)
       /\ KeyFree(q.key)
       /\ LET paid == Owners(q.entries)
              ids == Cardinality(Made) + 1 .. Cardinality(Made) + Cardinality(paid) IN
            /\ \E of \in [ids -> paid] :
                 /\ {of[p] : p \in ids} = paid
                 /\ payout' = [p \in Ids |->
                      IF p \notin ids THEN payout[p]
                      ELSE [ user |-> of[p], status |-> "PENDING", reference |-> FALSE, key |-> q.key,
                             amount |-> Cardinality({e \in q.entries : owner[e] = of[p]}) ]]
            /\ record' = IF q.key = None THEN record ELSE [record EXCEPT ![q.key] = ids]
            /\ Become(r, Queued(ids))
       /\ settled' = settled \cup q.entries
  /\ UNCHANGED <<owner, adjusted, provider, bounds>>

\* withSerializableRetry.
RetrySweep(r) ==
  /\ At(r, "commit")
  /\ LET q == request[r] IN
       /\ IF StillUnsettled(q.entries) /\ KeyFree(q.key) THEN Fault ELSE UNCHANGED bounds
       /\ IF q.attempts = 1 THEN Finish(r)
          ELSE Become(r, [q EXCEPT !.step = "sweep", !.entries = {}, !.attempts = @ - 1])
  /\ UNCHANGED <<ledger, payouts, provider>>
-----------------------------------------------------------------------------
Task(r, p) == request[r].tasks[p]
GotoTask(r, p, task) == request' = [request EXCEPT ![r].tasks[p] = task]

\* Some queuePayout has read p and will write it.
InHand(p) == \E r \in Requests : Task(r, p) \in {"send", "write"}

WrongToTransfer(p) == payout[p].status \in {"PENDING", "PROCESSING"}
ToTransfer(p) == payout[p].status = "PENDING"

\* queuePayout: the payout is read, ...
queuePayout(r, p) ==
  /\ Task(r, p) = "read"
  /\ GotoTask(r, p, IF ToTransfer(p) THEN "send" ELSE "none")
  /\ excused' = IF ToTransfer(p) /\ InHand(p) THEN excused \cup {p} ELSE excused
  /\ UNCHANGED <<ledger, payouts, sent, bounds>>

\* ... sent to the provider, ...
createTransfer(r, p) ==
  /\ Task(r, p) = "send"
  /\ sent' = [sent EXCEPT ![p] = @ + 1]
  /\ GotoTask(r, p, "write")
  /\ UNCHANGED <<ledger, payouts, excused, bounds>>

\* (the provider refuses it, or its answer or the update is lost)
TransferFails(r, p) ==
  /\ \/ Task(r, p) = "send" /\ UNCHANGED excused
     \/ Task(r, p) = "write" /\ excused' = excused \cup {p}
  /\ Fault
  /\ GotoTask(r, p, "none")
  /\ UNCHANGED <<ledger, payouts, sent>>

\* ... and updated with the provider's answer, whatever it says by now.
WriteTransfer(r, p) ==
  /\ Task(r, p) = "write"
  /\ \E outcome \in Outcomes :
       payout' = [payout EXCEPT ![p].status = outcome, ![p].reference = TRUE]
  /\ GotoTask(r, p, "none")
  /\ UNCHANGED <<ledger, record, provider, bounds>>

\* Promise.all has all its results.
AnswerQueue(r) ==
  /\ At(r, "queue")
  /\ request[r].tasks = NoTasks
  /\ Finish(r)
  /\ UNCHANGED <<ledger, payouts, provider, bounds>>
-----------------------------------------------------------------------------
\* markPayout reads the payout.  Without a status it goes on where the payout
\* stands; with one, staff may give a reference too.
markPayout(r, p) ==
  /\ p \in Made
  /\ Count
  /\ \/ \E given \in BOOLEAN : Begin(r, [Idle EXCEPT
            !.step = "note", !.subject = p, !.noted = given \/ payout[p].reference])
     \/ payout[p].status = "PENDING" /\ Begin(r, Queued({p}))
     \/ payout[p].status # "PENDING" /\ payout[p].reference
          /\ Begin(r, [Idle EXCEPT !.step = "inspect", !.subject = p])
  /\ UNCHANGED <<ledger, payouts, provider>>

\* The status given, and the reference given or read.
NotePayout(r) ==
  /\ At(r, "note")
  /\ LET p == request[r].subject IN
       \E status \in Noted :
         /\ payout' = [payout EXCEPT ![p].status = status, ![p].reference = request[r].noted]
         /\ excused' = IF status = "PENDING" \/ (payout[p].reference /\ ~request[r].noted)
                       THEN excused \cup {p} ELSE excused
  /\ Finish(r)
  /\ UNCHANGED <<ledger, record, sent, bounds>>

inspectTransfer(r) ==
  /\ At(r, "inspect")
  /\ \E outcome \in Outcomes :
       payout' = [payout EXCEPT ![request[r].subject].status = outcome,
                                ![request[r].subject].reference = TRUE]
  /\ Finish(r)
  /\ UNCHANGED <<ledger, record, provider, bounds>>

\* The process dies.
RequestDies(r) ==
  /\ ~At(r, "idle")
  /\ Fault
  /\ excused' = excused \cup {p \in Ids : Task(r, p) = "write"}
  /\ Finish(r)
  /\ UNCHANGED <<ledger, payouts, sent>>
-----------------------------------------------------------------------------
\* What goes on by itself once it has started.
GoesOn(r) ==
  \/ insertAdjustment(r)
  \/ ReadSweep(r) \/ CommitSweep(r) \/ RetrySweep(r)
  \/ \E p \in Ids : queuePayout(r, p) \/ createTransfer(r, p) \/ WriteTransfer(r, p)
  \/ AnswerQueue(r)
  \/ NotePayout(r) \/ inspectTransfer(r)

Sweeps(r, k) == \E users \in {Users} \cup {{u} : u \in Users} : sweepPayouts(r, k, users)

Next ==
  \/ \E u \in Users : Earn(u)
  \/ \E r \in Requests :
       \/ \E k \in Keys, u \in Users : adjustWallet(r, k, u)
       \/ \E k \in Keys \cup {None} : Sweeps(r, k)
       \/ \E p \in Ids : markPayout(r, p) \/ TransferFails(r, p)
       \/ GoesOn(r)
       \/ RequestDies(r)

Spec == Init /\ [][Next]_vars

\* Handlers that have started go on.  Nobody has to start one: the console makes
\* a new key for every sweep, so no client repeats one with its key by itself.
FairSpec == Spec /\ \A r \in Requests : WF_vars(GoesOn(r))
-----------------------------------------------------------------------------
PayoutsOf(u) == {p \in Made : payout[p].user = u}
Amounts == [p \in Made |-> payout[p].amount]
PaidOut(u) == SumFunctionOnSet(Amounts, PayoutsOf(u))

\* What a partner's payouts are worth is what the partner's settled entries are
\* worth: no entry is paid twice or settled unpaid, however sweeps overlap each
\* other, adjustments and new earnings, are retried or die.
PayoutsMatchSettled ==
  \A u \in Users : PaidOut(u) = Cardinality({e \in settled : owner[e] = u})

\* The sweeps with one idempotency key make one set of payouts, the recorded one.
SweptOncePerKey ==
  \A k \in Keys :
    {p \in Made : payout[p].key = k}
      = IF record[k] = None THEN {} ELSE record[k]

\* A payout is transferred once, and then its row carries the reference by which
\* the transfer can be inspected, and not PENDING, which would send it again;
\* but for the payouts in excused.
TransferredOnce ==
  \A p \in Ids \ excused :
    /\ sent[p] <= 1
    /\ sent[p] = 1 =>
         \/ payout[p].reference /\ payout[p].status # "PENDING"
         \/ \E r \in Requests : Task(r, p) = "write"

\* If a sweep is repeated with its key, after deaths and failures wherever they
\* were, and nothing else goes wrong, then none of its payouts stays pending,
\* but for those in excused.
Repeats(r, k) == At(r, "sweep") /\ request[r].key = k /\ record[k] # None
Pending(k) == {p \in Made \ excused : payout[p].key = k /\ payout[p].status = "PENDING"}

RepeatFinishesSweep ==
  \A r \in Requests, k \in Keys : Repeats(r, k) /\ faults = 0 ~> Pending(k) = {}
=============================================================================
