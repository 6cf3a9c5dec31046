-------------------------------- MODULE Outbox --------------------------------
(***************************************************************************)
(* The outbox table and the workers that empty it (workers/src), next to   *)
(* the store edits of Stores, whose search document the workers keep.      *)
(*                                                                         *)
(* A worker reads a batch, and goes through it on that copy: per event it  *)
(* takes a Redis lock, counts an attempt, and runs three handlers, each    *)
(* guarded by a done key; every await is a step.  Inside the try a step    *)
(* may fail, which gives the lock up; a failure of Redis, or of the batch  *)
(* query, escapes and kills the worker, as a crash does: the lock stays    *)
(* until it expires.  Events are numbered in the order of createdAt.  A    *)
(* notification's e-mail and SMS are one step, the settings of the index   *)
(* are left out, and one store stands for a page of them.  A handler an    *)
(* event is not for sets its done key and changes nothing else: left out.  *)
(* Done keys, kept for a week, do not expire here.                         *)
(***************************************************************************)
EXTENDS Stores, FiniteSets

CONSTANTS
  Workers,
  MaxEvents,        \* bound: events published in a behaviour
  BatchSize,        \* OUTBOX_BATCH_SIZE
  MaxAttempts,      \* OUTBOX_MAX_ATTEMPTS
  Budgets,          \* bounds: store requests, notices and rebuilds published,
                    \* workers that die, locks that expire under a worker
  None              \* no event, no document

Events == 1 .. MaxEvents
Budget == [edits : Nat, notices : Nat, rebuilds : Nat, crashes : Nat, expiries : Nat]

\* notice: an event of an order, a booking, a payment or a partner, with a user
\* and a topic; store: search.store.changed; rebuild: search.rebuild.requested.
Kinds == {"notice", "store", "rebuild"}
Channels == {"notification", "realtime", "search"}
Targets == [kind \in Kinds |-> IF kind = "notice" THEN {"notification", "realtime"} ELSE {"search"}]

Phases == {"poll", "lock", "attempt", "check", "find", "create", "send", "publish", "drop",
           "read", "write", "mark", "finish", "unlock"}
EventRow == [kind : Kinds, attempts : Nat, processed : BOOLEAN]

ASSUME OutboxAssumption ==
  /\ {MaxEvents, BatchSize, MaxAttempts} \subseteq Nat
  /\ Budgets \subseteq Budget
  /\ BatchSize > 0 /\ MaxAttempts > 0
  /\ IsFiniteSet(Workers)
  /\ None \notin Nat \cup {"notice", "store", "rebuild"} \cup StoreRow
  /\ None \notin EventRow

\* event is the one being processed, batch those still to come, seen the
\* document read for the index.
Worker == [ phase : Phases, event : Events \cup {None}, channel : Channels,
            batch : SUBSET Events, seen : StoreRow \cup {None} ]

VARIABLES
  outbox,         \* the OutboxEvent table
  worker,         \* the workers' processes
  lock,           \* Redis outbox:lock:<event>
  done,           \* Redis outbox:done:<event>:<channel>
  notifications,  \* Notification rows with the event's id
  delivered,      \* history: channels an event has got out to
  index,          \* the store's document in Meilisearch
  overlapped,     \* history: events whose lock expired under a worker, and whether
                  \* two workers were at once between a query and its write
  lost,           \* history: a store was changed and its event never published
  budget          \* the behaviour's bounds, and what is left of them

queueVars == <<outbox, worker, lock, done, notifications, delivered, index>>
history == <<overlapped, lost, budget>>
vars == <<queueVars, history, storeVars>>

OutboxTypeOK ==
  /\ outbox \in [Events -> EventRow \cup {None}]
  /\ worker \in [Workers -> Worker]
  /\ lock \subseteq Events
  /\ done \subseteq Events \X Channels
  /\ notifications \in [Events -> Nat]
  /\ delivered \subseteq Events \X Channels
  /\ index \in StoreRow \cup {None}
  /\ overlapped \in [locks : SUBSET Events, index : BOOLEAN]
  /\ lost \in BOOLEAN
  /\ budget \in Budget

TypeOK == StoresTypeOK /\ OutboxTypeOK

\* toDocument: what the index should hold of the store.
Document == IF store # NoStore /\ store.approval = "APPROVED" THEN store ELSE None

Resting ==
  [phase |-> "poll", event |-> None, channel |-> "notification", batch |-> {}, seen |-> None]

Init ==
  /\ budget \in Budgets /\ edits = budget.edits
  /\ StoresInit
  /\ outbox = [e \in Events |-> None]
  /\ worker = [w \in Workers |-> Resting]
  /\ lock = {}
  /\ done = {}
  /\ notifications = [e \in Events |-> 0]
  /\ delivered = {}
  /\ index = Document
  /\ overlapped = [locks |-> {}, index |-> FALSE]
  /\ lost = FALSE
-----------------------------------------------------------------------------
\* OutboxService.publishInTx, enqueueStoreSearchSync, requestSearchRebuild: the
\* next row of the table.
Publish(kind) ==
  \E e \in Events :
    /\ outbox[e] = None
    /\ \A d \in 1 .. e - 1 : outbox[d] # None
    /\ outbox' = [outbox EXCEPT ![e] = [kind |-> kind, attempts |-> 0, processed |-> FALSE]]

Spend(what) == budget[what] > 0 /\ budget' = [budget EXCEPT ![what] = @ - 1]

PublishNotice ==
  /\ Publish("notice")
  /\ Spend("notices")
  /\ UNCHANGED <<worker, lock, done, notifications, delivered, index, overlapped, lost, storeVars>>

requestSearchRebuild ==
  /\ Publish("rebuild")
  /\ Spend("rebuilds")
  /\ UNCHANGED <<worker, lock, done, notifications, delivered, index, overlapped, lost, storeVars>>

EditStore(s) == Edit(s) /\ UNCHANGED <<queueVars, history>>

enqueueStoreSearchSync(s) ==
  /\ Enqueued(s)
  /\ Publish("store")
  /\ UNCHANGED <<worker, lock, done, notifications, delivered, index, history>>

EditDies(s) ==
  /\ StoreRequestDies(s)
  /\ lost' = (lost \/ storeRequest[s].handler = "enqueue")
  /\ UNCHANGED <<queueVars, overlapped, budget>>
-----------------------------------------------------------------------------
Unprocessed == {e \in Events : outbox[e] # None /\ ~outbox[e].processed}

WrongEligible == Unprocessed
Eligible == {e \in Unprocessed : outbox[e].attempts < MaxAttempts}

\* findMany: the oldest of them, at most a batch.
processBatch(w) ==
  /\ worker[w].phase = "poll"
  /\ \E batch \in SUBSET Eligible :
       /\ batch # {} /\ Cardinality(batch) <= BatchSize
       /\ Cardinality(batch) = BatchSize \/ batch = Eligible
       /\ \A e \in batch, d \in Eligible \ batch : e < d
       /\ worker' = [worker EXCEPT ![w].phase = "lock", ![w].batch = batch]
  /\ UNCHANGED <<outbox, lock, done, notifications, delivered, index, history, storeVars>>

At(w, phase) == worker[w].phase = phase
Goto(w, phase) == worker' = [worker EXCEPT ![w].phase = phase]

\* Between events.
NextEvent(w, batch) ==
  worker' = [worker EXCEPT ![w] =
    [Resting EXCEPT !.batch = batch, !.phase = IF batch = {} THEN "poll" ELSE "lock"]]

\* setJsonIfNotExists on the lock of the next event; one that is taken is left
\* to whoever has it.  Nothing asks whether the event is still unprocessed.
takeLock(w) ==
  /\ At(w, "lock")
  /\ \E e \in worker[w].batch :
       /\ \A d \in worker[w].batch : e <= d
       /\ LET rest == worker[w].batch \ {e} IN
            IF e \in lock THEN NextEvent(w, rest) /\ UNCHANGED lock
            ELSE /\ lock' = lock \cup {e}
                 /\ worker' = [worker EXCEPT ![w] =
                      [Resting EXCEPT !.phase = "attempt", !.event = e, !.batch = rest]]
  /\ UNCHANGED <<outbox, done, notifications, delivered, index, history, storeVars>>

FirstChannel(kind) == IF kind = "notice" THEN "notification" ELSE "search"

WrongCountAttempt(w) ==
  /\ At(w, "attempt")
  /\ worker' = [worker EXCEPT ![w].phase = "check",
                              ![w].channel = FirstChannel(outbox[worker[w].event].kind)]
  /\ UNCHANGED <<outbox, lock, done, notifications, delivered, index, history, storeVars>>

countAttempt(w) ==
  /\ At(w, "attempt")
  /\ outbox' = [outbox EXCEPT ![worker[w].event].attempts = @ + 1]
  /\ worker' = [worker EXCEPT ![w].phase = "check",
                              ![w].channel = FirstChannel(outbox[worker[w].event].kind)]
  /\ UNCHANGED <<lock, done, notifications, delivered, index, history, storeVars>>

\* The next handler, or the end of the last.
NextHandler(w) ==
  worker' = [worker EXCEPT
    ![w].phase = IF worker[w].channel = "notification" THEN "check" ELSE "finish",
    ![w].channel = IF worker[w].channel = "notification" THEN "realtime" ELSE @]

\* What a handler does when its done key is not set.
FirstPhase(kind, channel) ==
  CASE channel = "notification" -> "find"
    [] channel = "realtime" -> "publish"
    [] channel = "search" -> IF kind = "rebuild" THEN "drop" ELSE "read"

WrongAlreadyDone(e, channel) == \E c \in Channels : <<e, c>> \in done
AlreadyDone(e, channel) == <<e, channel>> \in done

\* The start of handleNotification, handleRealtime and handleSearch.
checkHandler(w) ==
  /\ At(w, "check")
  /\ IF AlreadyDone(worker[w].event, worker[w].channel) THEN NextHandler(w)
     ELSE Goto(w, FirstPhase(outbox[worker[w].event].kind, worker[w].channel))
  /\ UNCHANGED <<outbox, lock, done, notifications, delivered, index, history, storeVars>>

WrongFindNotification(w) ==
  /\ At(w, "find")
  /\ Goto(w, "create")
  /\ UNCHANGED <<outbox, lock, done, notifications, delivered, index, history, storeVars>>

findNotification(w) ==
  /\ At(w, "find")
  /\ Goto(w, IF notifications[worker[w].event] = 0 THEN "create" ELSE "send")
  /\ UNCHANGED <<outbox, lock, done, notifications, delivered, index, history, storeVars>>

createNotification(w) ==
  /\ At(w, "create")
  /\ notifications' = [notifications EXCEPT ![worker[w].event] = @ + 1]
  /\ Goto(w, "send")
  /\ UNCHANGED <<outbox, lock, done, delivered, index, history, storeVars>>

GetOut(w) == delivered' = delivered \cup {<<worker[w].event, worker[w].channel>>}

\* E-mail and SMS, and Redis PUBLISH.
send(w) ==
  /\ At(w, "send") \/ At(w, "publish")
  /\ GetOut(w)
  /\ Goto(w, "mark")
  /\ UNCHANGED <<outbox, lock, done, notifications, index, history, storeVars>>

\* rebuildStores begins with deleteIndexIfExists, which goes on when it fails.
deleteIndex(w) ==
  /\ At(w, "drop")
  /\ index' \in {None, index}
  /\ Goto(w, "read")
  /\ UNCHANGED <<outbox, lock, done, notifications, delivered, history, storeVars>>

\* syncStore and rebuildStores: the query, which may be made between another
\* worker's query and its write, ...
readStore(w) ==
  /\ At(w, "read")
  /\ worker' = [worker EXCEPT ![w].seen = Document, ![w].phase = "write"]
  /\ overlapped' = [overlapped EXCEPT !.index = @ \/ \E v \in Workers \ {w} : At(v, "write")]
  /\ UNCHANGED <<outbox, lock, done, notifications, delivered, index, lost, budget, storeVars>>

WrongWriteIndex(w) ==
  /\ At(w, "write")
  /\ index' = IF worker[w].seen = None THEN index ELSE worker[w].seen
  /\ GetOut(w)
  /\ worker' = [worker EXCEPT ![w].phase = "mark", ![w].seen = None]
  /\ UNCHANGED <<outbox, lock, done, notifications, history, storeVars>>

\* ... and the upsert, or for a store that is not approved the deletion, which
\* a rebuild has no need of.
writeIndex(w) ==
  /\ At(w, "write")
  /\ index' = IF worker[w].seen = None /\ outbox[worker[w].event].kind = "rebuild"
              THEN index ELSE worker[w].seen
  /\ GetOut(w)
  /\ worker' = [worker EXCEPT ![w].phase = "mark", ![w].seen = None]
  /\ UNCHANGED <<outbox, lock, done, notifications, history, storeVars>>

markDone(w) ==
  /\ At(w, "mark")
  /\ done' = done \cup {<<worker[w].event, worker[w].channel>>}
  /\ NextHandler(w)
  /\ UNCHANGED <<outbox, lock, notifications, delivered, index, history, storeVars>>

finish(w) ==
  /\ At(w, "finish")
  /\ outbox' = [outbox EXCEPT ![worker[w].event].processed = TRUE]
  /\ Goto(w, "unlock")
  /\ UNCHANGED <<lock, done, notifications, delivered, index, history, storeVars>>

\* The catch block: the database, a provider or Meilisearch refuses.
fail(w) ==
  /\ worker[w].phase \notin {"poll", "lock", "drop", "unlock"}
  /\ worker' = [worker EXCEPT ![w].phase = "unlock", ![w].seen = None]
  /\ UNCHANGED <<outbox, lock, done, notifications, delivered, index, history, storeVars>>

\* The finally block deletes the key, whoever took it last.
unlock(w) ==
  /\ At(w, "unlock")
  /\ lock' = lock \ {worker[w].event}
  /\ NextEvent(w, worker[w].batch)
  /\ UNCHANGED <<outbox, done, notifications, delivered, index, history, storeVars>>

\* The worker dies and is started again.
crash(w) ==
  /\ ~At(w, "poll")
  /\ Spend("crashes")
  /\ worker' = [worker EXCEPT ![w] = Resting]
  /\ UNCHANGED <<outbox, lock, done, notifications, delivered, index, overlapped, lost, storeVars>>

\* The lock's TTL runs out: after its worker died, ...
expireDead(e) ==
  /\ e \in lock
  /\ \A w \in Workers : worker[w].event # e
  /\ lock' = lock \ {e}
  /\ UNCHANGED <<outbox, worker, done, notifications, delivered, index, history, storeVars>>

\* ... or while one is still at it.
expireLive(e) ==
  /\ e \in lock
  /\ \E w \in Workers : worker[w].event = e
  /\ Spend("expiries")
  /\ lock' = lock \ {e}
  /\ overlapped' = [overlapped EXCEPT !.locks = @ \cup {e}]
  /\ UNCHANGED <<outbox, worker, done, notifications, delivered, index, lost, storeVars>>
-----------------------------------------------------------------------------
processEvent(w) ==
  \/ takeLock(w) \/ countAttempt(w) \/ checkHandler(w)
  \/ findNotification(w) \/ createNotification(w) \/ send(w)
  \/ deleteIndex(w) \/ readStore(w) \/ writeIndex(w)
  \/ markDone(w) \/ finish(w) \/ unlock(w)

Next ==
  \/ PublishNotice \/ requestSearchRebuild
  \/ \E s \in StoreRequests : EditStore(s) \/ enqueueStoreSearchSync(s) \/ EditDies(s)
  \/ \E w \in Workers : processBatch(w) \/ processEvent(w) \/ fail(w) \/ crash(w)
  \/ \E e \in Events : expireDead(e) \/ expireLive(e)

Spec == Init /\ [][Next]_vars

\* A worker goes on and polls again, the lock of a dead one expires, and the
\* database does not refuse to count an attempt for ever; any handler may fail
\* every time.
FairSpec ==
  /\ Spec
  /\ \A w \in Workers : WF_vars(processBatch(w) \/ processEvent(w))
  /\ SF_vars(\E w \in Workers : countAttempt(w))
  /\ WF_vars(\E e \in Events : expireDead(e))
-----------------------------------------------------------------------------
Published == [e \in Events |-> IF outbox[e] = None THEN None ELSE outbox[e].kind]
Settled == {e \in Events : outbox[e] # None /\ outbox[e].processed}

D == INSTANCE Delivery WITH published <- Published, settled <- Settled

\* Whatever fails, crashes or overlaps, an event is marked processed only after
\* it got out to every channel it is for: the workers implement Delivery.
Delivers == D!Spec

\* A poll looks at the attempts, the increment does not.  Workers that polled
\* the same event overshoot, each by one attempt at the most.
AttemptsBounded ==
  \A e \in Events :
    outbox[e] # None => outbox[e].attempts <= MaxAttempts - 1 + Cardinality(Workers)

\* The user gets one notification row per event, through retries and crashes
\* between the row and its done key; two only if a lock expired under a worker.
OneNotification ==
  \A e \in Events : notifications[e] <= 1 \/ e \in overlapped.locks

Unrated(document) == IF document = None THEN None ELSE [document EXCEPT !.rating = 0]

\* A document that shows the store: as it is, or, when a rating came after the
\* last edit, as it is but for the rating.
Shows(document) ==
  IF rated THEN Unrated(document) = Unrated(Document) ELSE document = Document

\* When nothing is left to do the search index shows the store, although edits
\* and syncs interleave, fail and are retried, and the drop of a rebuild may be
\* skipped: all of it if no rating came after the last edit, all but the rating
\* otherwise, for applyStoreRating leaves the index to the next edit.  Except
\* when an edit died before its event, two workers overlapped between reading
\* the store and writing the index, or one went on with an event whose lock it
\* had lost (and may have dropped an index that the other had finished).
IndexFresh ==
  /\ \A s \in StoreRequests : storeRequest[s] = Idle
  /\ \A e \in Events : outbox[e] # None /\ outbox[e].kind # "notice" =>
                          outbox[e].processed /\ e \notin overlapped.locks
  /\ ~lost /\ ~overlapped.index
  => Shows(index)

\* An event is processed in the end, or has used up its attempts.
EventSettles ==
  \A e \in Events :
    LET open == e \in Unprocessed /\ outbox[e].attempts < MaxAttempts IN open ~> ~open
=============================================================================
