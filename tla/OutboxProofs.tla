----------------------------- MODULE OutboxProofs -----------------------------
(***************************************************************************)
(* Theorems about Stores and about Outbox, which composes them with the    *)
(* workers, for any number of workers, events and store requests.          *)
(***************************************************************************)
EXTENDS Outbox, FiniteSetTheorems, TLAPS

(***************************************************************************)
(* Type correctness of Stores, and that an open store is a reviewed one.   *)
(* A handler in flight knows only what it read: the check of               *)
(* setMyStoreOpen is still true of the copy, and the copy is still true of *)
(* the row if the commit does not find it overtaken.                       *)
(***************************************************************************)

\* A handler between its read and its write has a store, and passed its check.
InFlightChecked ==
  \A s \in StoreRequests :
    storeRequest[s] # Idle /\ storeRequest[s].handler \in {"update", "open", "rate"} =>
      /\ store # NoStore
      /\ storeRequest[s].handler = "open" => storeRequest[s].seen.approval = "APPROVED"

StoresInv == StoresTypeOK /\ InFlightChecked /\ OpenStoresAreReviewed

\* The invariant holds at first.
LEMMA StoresInitInv == StoresInit => StoresInv
<1> SUFFICES ASSUME StoresInit PROVE StoresInv
  OBVIOUS
<1>1. store \in StoreRow \cup {NoStore} /\ verdict \in Approval
  <2>1. [approval |-> "APPROVED", isOpen |-> TRUE, details |-> 0, rating |-> 0] \in StoreRow
    BY DEF StoreRow, Approval
  <2>2. QED
    BY <2>1 DEF StoresInit, Approval
<1>2. StoresTypeOK
  BY <1>1 DEF StoresInit, StoresTypeOK
<1>3. InFlightChecked
  BY DEF StoresInit, InFlightChecked
<1>4. OpenStoresAreReviewed
  BY DEF StoresInit, OpenStoresAreReviewed
<1>5. QED
  BY <1>2, <1>3, <1>4 DEF StoresInv

\* What a write of the row does to the other slots.
LEMMA WriteKeepsChecked ==
  ASSUME StoresTypeOK, InFlightChecked, NEW s \in StoreRequests, NEW row \in StoreRow,
         WriteStore(s, row)
  PROVE  /\ store' \in StoreRow /\ store' # NoStore /\ rated' \in BOOLEAN
         /\ storeRequest' \in [StoreRequests -> StoreRequest \cup {Idle}]
         /\ InFlightChecked'
<1>1. [handler |-> "enqueue", seen |-> row] \in StoreRequest
  BY DEF StoreRow, StoreRequest
<1>2. storeRequest' = [storeRequest EXCEPT ![s] = [handler |-> "enqueue", seen |-> row]]
  BY DEF WriteStore, StoreGoto
<1>3. store' \in StoreRow /\ store' # NoStore /\ rated' = FALSE
  BY NoStoreAssumption DEF WriteStore
<1>4. QED
  BY <1>1, <1>2, <1>3 DEF StoresTypeOK, InFlightChecked

\* Every step keeps the invariant.
LEMMA StoresStepInv == StoresInv /\ [StoresNext]_storeVars => StoresInv'
<1> SUFFICES ASSUME StoresInv, [StoresNext]_storeVars PROVE StoresInv'
  OBVIOUS
<1> USE DEF StoresInv
<1>1. CASE UNCHANGED storeVars
  BY <1>1 DEF storeVars, StoresTypeOK, InFlightChecked, OpenStoresAreReviewed
<1>2. ASSUME NEW s \in StoreRequests, createStore(s) PROVE StoresInv'
  <2>1. [approval |-> "PENDING", isOpen |-> FALSE, details |-> 0, rating |-> 0] \in StoreRow
    BY DEF StoreRow, Approval
  <2>2. WriteStore(s, [approval |-> "PENDING", isOpen |-> FALSE, details |-> 0, rating |-> 0])
    BY <1>2 DEF createStore
  <2>3. StoresTypeOK' /\ InFlightChecked'
    BY <1>2, <2>1, <2>2, WriteKeepsChecked DEF createStore, Begin, StoresTypeOK
  <2>4. OpenStoresAreReviewed'
    BY <2>2 DEF WriteStore, OpenStoresAreReviewed
  <2>5. QED
    BY <2>3, <2>4
<1>3. ASSUME NEW s \in StoreRequests, NEW handler \in {"update", "open", "rate"}, ReadStore(s, handler)
      PROVE  StoresInv'
  <2>1. store \in StoreRow /\ store # NoStore
    BY <1>3 DEF ReadStore, StoresTypeOK
  <2>2. [handler |-> handler, seen |-> store] \in StoreRequest
    BY <2>1 DEF StoreRow, StoreRequest
  <2>3. StoresTypeOK'
    BY <1>3, <2>2 DEF ReadStore, Begin, StoreGoto, StoresTypeOK
  <2>4. InFlightChecked'
    BY <1>3, <2>1 DEF ReadStore, Begin, StoreGoto, StoresTypeOK, InFlightChecked
  <2>5. QED
    BY <1>3, <2>3, <2>4 DEF ReadStore, OpenStoresAreReviewed
<1>4. ASSUME NEW s \in StoreRequests, CommitUpdate(s) PROVE StoresInv'
  <2>1. /\ store \in StoreRow /\ store # NoStore
        /\ storeRequest[s].seen.approval \in Approval
    BY <1>4 DEF CommitUpdate, Holds, StoresTypeOK, InFlightChecked, StoreRequest, StoreRow
  <2> DEFINE row == [store EXCEPT
               !.details = @ + 1,
               !.approval = IF storeRequest[s].seen.approval = "REJECTED" THEN "PENDING"
                            ELSE storeRequest[s].seen.approval]
  <2>2. row \in StoreRow /\ WriteStore(s, row)
    <3>1. row \in StoreRow
      <4>1. PICK a \in Approval :
              a = IF storeRequest[s].seen.approval = "REJECTED" THEN "PENDING"
                  ELSE storeRequest[s].seen.approval
        BY <2>1 DEF Approval
      <4>2. row = [store EXCEPT !.details = @ + 1, !.approval = a]
        BY <4>1
      <4>3. [store EXCEPT !.details = @ + 1, !.approval = a] \in StoreRow
        <5>1. store.details \in Nat /\ store.details + 1 \in Nat
          BY <2>1 DEF StoreRow
        <5>2. \A n \in Nat : [store EXCEPT !.details = n, !.approval = a] \in StoreRow
          BY <2>1 DEF StoreRow
        <5>3. QED
          BY <5>1, <5>2
      <4>4. QED
        BY <4>2, <4>3
    <3>2. WriteStore(s, row)
      BY <1>4 DEF CommitUpdate
    <3>3. QED
      BY <3>1, <3>2
  <2>3. StoresTypeOK' /\ InFlightChecked'
    BY <1>4, <2>2, WriteKeepsChecked DEF CommitUpdate, Overtake, StoresTypeOK
  <2>4. OpenStoresAreReviewed'
    BY <1>4, <2>1, <2>2 DEF CommitUpdate, Overtake, WriteStore, OpenStoresAreReviewed, StoreRow
  <2>5. QED
    BY <2>3, <2>4
<1>5. ASSUME NEW s \in StoreRequests, CommitOpen(s) PROVE StoresInv'
  <2>1. /\ store \in StoreRow /\ store # NoStore
        /\ storeRequest[s].seen.approval = "APPROVED"
    BY <1>5 DEF CommitOpen, Holds, StoresTypeOK, InFlightChecked
  <2>2. [store EXCEPT !.isOpen = TRUE] \in StoreRow
    BY <2>1 DEF StoreRow
  <2>3. StoresTypeOK' /\ InFlightChecked'
    BY <1>5, <2>2, WriteKeepsChecked DEF CommitOpen, Overtake, StoresTypeOK
  <2>4. OpenStoresAreReviewed'
    BY <1>5, <2>1 DEF CommitOpen, Overtake, WriteStore, OpenStoresAreReviewed, StoreRow
  <2>5. QED
    BY <2>3, <2>4
<1>6. ASSUME NEW s \in StoreRequests, Close(s) \/ EditMenu(s) \/ requestApproval(s)
      PROVE  StoresInv'
  <2>1. store \in StoreRow /\ store # NoStore
    BY <1>6 DEF Close, EditMenu, requestApproval, StoresTypeOK
  <2>2. PICK row \in StoreRow :
          /\ WriteStore(s, row)
          /\ row.isOpen => store.isOpen /\ row.approval = store.approval
          /\ row.approval = "APPROVED" => store.approval = "APPROVED"
    <3>1. CASE Close(s)
      <4>1. [store EXCEPT !.isOpen = FALSE] \in StoreRow
        BY <2>1 DEF StoreRow
      <4>2. WriteStore(s, [store EXCEPT !.isOpen = FALSE])
        BY <3>1 DEF Close
      <4>3. QED
        BY <2>1, <4>1, <4>2 DEF StoreRow
    <3>2. CASE EditMenu(s)
      <4>1. [store EXCEPT !.details = @ + 1] \in StoreRow
        BY <2>1 DEF StoreRow
      <4>2. WriteStore(s, [store EXCEPT !.details = @ + 1])
        BY <3>2 DEF EditMenu
      <4>3. QED
        BY <2>1, <4>1, <4>2 DEF StoreRow
    <3>3. CASE requestApproval(s)
      <4>1. [store EXCEPT !.approval = "PENDING", !.isOpen = FALSE] \in StoreRow
        BY <2>1 DEF StoreRow, Approval
      <4>2. WriteStore(s, [store EXCEPT !.approval = "PENDING", !.isOpen = FALSE])
        BY <3>3 DEF requestApproval
      <4>3. QED
        BY <2>1, <4>1, <4>2 DEF StoreRow
    <3>4. QED
      BY <1>6, <3>1, <3>2, <3>3
  <2>3. UNCHANGED <<verdict, overtaken>> /\ edits' \in Int /\ edits' \in Nat
    BY <1>6 DEF Close, EditMenu, requestApproval, Begin, StoresTypeOK
  <2>4. QED
    BY <2>1, <2>2, <2>3, WriteKeepsChecked DEF StoresTypeOK, WriteStore, OpenStoresAreReviewed
<1>7. ASSUME NEW s \in StoreRequests, NEW decision \in {"APPROVED", "REJECTED"},
             reviewStore(s, decision)
      PROVE  StoresInv'
  <2>1. store \in StoreRow /\ store # NoStore
    BY <1>7 DEF reviewStore, StoresTypeOK
  <2> DEFINE row == [store EXCEPT
               !.approval = decision,
               !.isOpen = IF decision = "APPROVED" THEN @ ELSE FALSE]
  <2>2. row \in StoreRow /\ WriteStore(s, row)
    BY <1>7, <2>1 DEF reviewStore, StoreRow, Approval
  <2>3. StoresTypeOK' /\ InFlightChecked'
    BY <1>7, <2>2, WriteKeepsChecked DEF reviewStore, Begin, StoresTypeOK, Approval
  <2>4. OpenStoresAreReviewed'
    BY <1>7, <2>1, <2>2 DEF reviewStore, WriteStore, OpenStoresAreReviewed, StoreRow
  <2>5. QED
    BY <2>3, <2>4
<1>8. ASSUME NEW s \in StoreRequests, Enqueued(s) \/ StoreRequestDies(s) PROVE StoresInv'
  BY <1>8 DEF Enqueued, StoreRequestDies, StoresTypeOK, InFlightChecked, OpenStoresAreReviewed
<1>9. ASSUME NEW s \in StoreRequests, applyStoreRating(s) PROVE StoresInv'
  <2>1. /\ store \in StoreRow /\ store # NoStore
        /\ storeRequest[s].seen.rating \in Nat
    BY <1>9 DEF applyStoreRating, Holds, StoresTypeOK, InFlightChecked, StoreRequest, StoreRow
  <2>2. PICK n \in Nat : store' = [store EXCEPT !.rating = n]
    BY <1>9, <2>1 DEF applyStoreRating
  <2>3. /\ store' \in StoreRow /\ store' # NoStore
        /\ store'.approval = store.approval /\ store'.isOpen = store.isOpen
    BY <2>1, <2>2, NoStoreAssumption DEF StoreRow
  <2>4. StoresTypeOK'
    BY <1>9, <2>3 DEF applyStoreRating, StoresTypeOK
  <2>5. InFlightChecked'
    BY <1>9, <2>3 DEF applyStoreRating, StoresTypeOK, InFlightChecked
  <2>6. OpenStoresAreReviewed'
    BY <1>9, <2>1, <2>3 DEF applyStoreRating, OpenStoresAreReviewed
  <2>7. QED
    BY <2>4, <2>5, <2>6
<1>10. QED
  BY <1>1, <1>2, <1>3, <1>4, <1>5, <1>6, <1>7, <1>8, <1>9 DEF StoresNext, Edit

\* However the handlers of the partner and of staff interleave, a store is open
\* only while approved, and approved only by staff, unless a handler wrote after
\* what it had read was changed.
THEOREM OpenReviewed == StoresSpec => []OpenStoresAreReviewed
<1>1. StoresSpec => []StoresInv
  BY StoresInitInv, StoresStepInv, PTL DEF StoresSpec
<1>2. StoresInv => OpenStoresAreReviewed
  BY DEF StoresInv
<1>3. QED
  BY <1>1, <1>2, PTL

-----------------------------------------------------------------------------
(***************************************************************************)
(* What the outbox and its workers keep up for any number of workers and   *)
(* events.  Each worker knows where it is in its event (WorkerOK) and what *)
(* of it has got out already (DeliveryOK); both speak of facts that only   *)
(* grow, so the steps of other workers do not disturb them.                *)
(***************************************************************************)

Handling == {"check", "find", "create", "send", "publish", "drop", "read", "write", "mark"}

WorkerOK(w) ==
  LET k == worker[w] IN
    /\ k.phase \in {"poll", "lock"} => k.event = None
    /\ k.phase \notin {"poll", "lock"} => k.event \in Events /\ outbox[k.event] # None
    /\ k.event \notin k.batch
    /\ \A e \in k.batch : outbox[e] # None
    /\ k.phase \in Handling => k.channel \in Targets[outbox[k.event].kind]
    /\ k.phase \in {"find", "create", "send"} => k.channel = "notification"
    /\ k.phase = "publish" => k.channel = "realtime"
    /\ k.phase \in {"drop", "read", "write"} => k.channel = "search"

DeliveryOK(w) ==
  LET k == worker[w] IN
    /\ k.phase \in Handling /\ k.channel = "realtime" => <<k.event, "notification">> \in delivered
    /\ k.phase = "mark" => <<k.event, k.channel>> \in delivered
    /\ k.phase = "finish" =>
         \A channel \in Targets[outbox[k.event].kind] : <<k.event, channel>> \in delivered

WorkersInv ==
  /\ StoresInv
  /\ OutboxTypeOK
  /\ \A w \in Workers : WorkerOK(w) /\ DeliveryOK(w)
  /\ done \subseteq delivered

\* Nothing that a worker relies on goes away.
Grows ==
  /\ \A e \in Events : outbox[e] # None => outbox'[e] # None /\ outbox'[e].kind = outbox[e].kind
  /\ delivered \subseteq delivered'

-----------------------------------------------------------------------------
(* What the assignments to a worker do. *)

\* Goto changes the phase only.
LEMMA GotoEffect ==
  ASSUME OutboxTypeOK, NEW w \in Workers, NEW phase \in Phases, Goto(w, phase)
  PROVE  /\ worker' \in [Workers -> Worker]
         /\ worker'[w].phase = phase
         /\ worker'[w].event = worker[w].event
         /\ worker'[w].channel = worker[w].channel
         /\ worker'[w].batch = worker[w].batch
         /\ \A v \in Workers \ {w} : worker'[v] = worker[v]
<1>1. worker[w] \in Worker /\ worker \in [Workers -> Worker]
  BY DEF OutboxTypeOK
<1>2. [worker[w] EXCEPT !.phase = phase] \in Worker
  BY <1>1 DEF Worker
<1>3. worker' = [worker EXCEPT ![w] = [worker[w] EXCEPT !.phase = phase]]
  BY <1>1 DEF Goto
<1>4. worker'[w] = [worker[w] EXCEPT !.phase = phase]
  BY <1>1, <1>3
<1>5. QED
  BY <1>1, <1>2, <1>3, <1>4 DEF Worker

\* The same for a step that forgets the document read.
LEMMA ForgetEffect ==
  ASSUME OutboxTypeOK, NEW w \in Workers, NEW phase \in Phases,
         NEW seen \in StoreRow \cup {None},
         worker' = [worker EXCEPT ![w].phase = phase, ![w].seen = seen]
  PROVE  /\ worker' \in [Workers -> Worker]
         /\ worker'[w].phase = phase
         /\ worker'[w].event = worker[w].event
         /\ worker'[w].channel = worker[w].channel
         /\ worker'[w].batch = worker[w].batch
         /\ \A v \in Workers \ {w} : worker'[v] = worker[v]
<1>1. worker[w] \in Worker /\ worker \in [Workers -> Worker]
  BY DEF OutboxTypeOK
<1>2. [worker[w] EXCEPT !.phase = phase, !.seen = seen] \in Worker
  BY <1>1 DEF Worker
<1>3. worker' = [worker EXCEPT ![w] = [worker[w] EXCEPT !.phase = phase, !.seen = seen]]
  BY <1>1
<1>4. worker'[w] = [worker[w] EXCEPT !.phase = phase, !.seen = seen]
  BY <1>1, <1>3
<1>5. QED
  BY <1>1, <1>2, <1>3, <1>4 DEF Worker

\* The end of a handler.
LEMMA NextHandlerEffect ==
  ASSUME OutboxTypeOK, NEW w \in Workers, NextHandler(w)
  PROVE  /\ worker' \in [Workers -> Worker]
         /\ IF worker[w].channel = "notification"
            THEN worker'[w].phase = "check" /\ worker'[w].channel = "realtime"
            ELSE worker'[w].phase = "finish" /\ worker'[w].channel = worker[w].channel
         /\ worker'[w].event = worker[w].event
         /\ worker'[w].batch = worker[w].batch
         /\ \A v \in Workers \ {w} : worker'[v] = worker[v]
<1> DEFINE phase == IF worker[w].channel = "notification" THEN "check" ELSE "finish"
           channel == IF worker[w].channel = "notification" THEN "realtime" ELSE worker[w].channel
           k == [worker[w] EXCEPT !.phase = phase, !.channel = channel]
<1>1. worker[w] \in Worker /\ worker \in [Workers -> Worker]
  BY DEF OutboxTypeOK
<1>2. phase \in Phases /\ channel \in Channels
  BY <1>1 DEF Phases, Channels, Worker
<1>3. k \in Worker /\ k.phase = phase /\ k.channel = channel /\ k.event = worker[w].event
      /\ k.batch = worker[w].batch
  <2> HIDE DEF phase, channel
  <2> QED
    BY <1>1, <1>2 DEF Worker
<1>4. worker' = [worker EXCEPT ![w] = k]
  BY <1>1 DEF NextHandler
<1>5. worker'[w] = k /\ \A v \in Workers \ {w} : worker'[v] = worker[v]
  <2> HIDE DEF k
  <2> QED
    BY <1>1, <1>4
<1>6. QED
  BY <1>1, <1>3, <1>4, <1>5

\* Between two events.
LEMMA NextEventEffect ==
  ASSUME OutboxTypeOK, NEW w \in Workers, NEW batch \in SUBSET Events, NextEvent(w, batch)
  PROVE  /\ worker' \in [Workers -> Worker]
         /\ worker'[w].phase \in {"poll", "lock"}
         /\ worker'[w].event = None
         /\ worker'[w].batch = batch
         /\ \A v \in Workers \ {w} : worker'[v] = worker[v]
<1> DEFINE phase == IF batch = {} THEN "poll" ELSE "lock"
           k == [Resting EXCEPT !.batch = batch, !.phase = phase]
<1>1. worker \in [Workers -> Worker]
  BY DEF OutboxTypeOK
<1>2. phase \in {"poll", "lock"}
  OBVIOUS
<1>3. k \in Worker /\ k.phase = phase /\ k.event = None /\ k.batch = batch
  <2> HIDE DEF phase
  <2> QED
    BY <1>2 DEF Worker, Resting, Phases, Channels
<1>4. worker' = [worker EXCEPT ![w] = k]
  BY DEF NextEvent
<1>5. worker'[w] = k /\ \A v \in Workers \ {w} : worker'[v] = worker[v]
  <2> HIDE DEF k
  <2> QED
    BY <1>1, <1>4
<1>6. QED
  BY <1>1, <1>2, <1>3, <1>4, <1>5
-----------------------------------------------------------------------------
(* A step keeps what the workers know. *)

\* A step of one worker, or of none.
LEMMA OthersKept ==
  ASSUME WorkersInv, Grows, NEW W \in SUBSET Workers,
         \A v \in Workers \ W : worker'[v] = worker[v],
         \A w \in W : WorkerOK(w)' /\ DeliveryOK(w)'
  PROVE  \A v \in Workers : WorkerOK(v)' /\ DeliveryOK(v)'
<1> SUFFICES ASSUME NEW v \in Workers \ W PROVE WorkerOK(v)' /\ DeliveryOK(v)'
  OBVIOUS
<1>1. worker'[v] = worker[v] /\ worker[v] \in Worker /\ WorkerOK(v) /\ DeliveryOK(v)
  BY DEF WorkersInv, OutboxTypeOK
<1>2. \A e \in worker[v].batch : outbox'[e] # None
  BY <1>1 DEF WorkerOK, Grows, Worker
<1>3. worker[v].phase \notin {"poll", "lock"} =>
        /\ worker[v].event \in Events /\ outbox'[worker[v].event] # None
        /\ outbox'[worker[v].event].kind = outbox[worker[v].event].kind
  BY <1>1 DEF WorkerOK, Grows
<1>4. WorkerOK(v)'
  BY <1>1, <1>2, <1>3 DEF WorkerOK, Handling
<1>5. DeliveryOK(v)'
  BY <1>1, <1>3 DEF DeliveryOK, Grows, Handling
<1>6. QED
  BY <1>4, <1>5

\* What holds of a worker's event, for the steps below.
LEMMA Here ==
  ASSUME WorkersInv, NEW w \in Workers, worker[w].phase \notin {"poll", "lock"}
  PROVE  /\ worker[w] \in Worker
         /\ worker[w].event \in Events
         /\ outbox[worker[w].event] \in EventRow
         /\ WorkerOK(w) /\ DeliveryOK(w)
BY DEF WorkersInv, OutboxTypeOK, WorkerOK

\* UNCHANGED outbox and delivered.
LEMMA StillGrows == UNCHANGED <<outbox, delivered>> => Grows
BY DEF Grows

\* The steps that leave the table and the channels alone.
LEMMA QuietStep ==
  ASSUME WorkersInv, NEW w \in Workers,
         \/ processBatch(w) \/ takeLock(w) \/ checkHandler(w) \/ findNotification(w)
         \/ createNotification(w) \/ deleteIndex(w) \/ readStore(w) \/ markDone(w)
         \/ fail(w) \/ unlock(w) \/ crash(w)
  PROVE  /\ UNCHANGED <<outbox, delivered>>
         /\ worker' \in [Workers -> Worker]
         /\ \A v \in Workers \ {w} : worker'[v] = worker[v]
         /\ WorkerOK(w)' /\ DeliveryOK(w)'
<1> USE DEF At
<1>0. worker[w] \in Worker /\ WorkerOK(w) /\ DeliveryOK(w) /\ None \notin Events
      /\ worker \in [Workers -> Worker]
  BY OutboxAssumption DEF WorkersInv, OutboxTypeOK, Events
<1>1. CASE processBatch(w)
  <2>1. PICK batch \in SUBSET Eligible :
          worker' = [worker EXCEPT ![w].phase = "lock", ![w].batch = batch]
    BY <1>1 DEF processBatch
  <2>2. batch \subseteq Events /\ \A e \in batch : outbox[e] # None
    BY DEF Eligible, Unprocessed
  <2>3. worker' = [worker EXCEPT ![w] = [worker[w] EXCEPT !.phase = "lock", !.batch = batch]]
    BY <1>0, <2>1
  <2>4. [worker[w] EXCEPT !.phase = "lock", !.batch = batch] \in Worker
    BY <1>0, <2>2 DEF Worker, Phases
  <2>5. worker'[w] = [worker[w] EXCEPT !.phase = "lock", !.batch = batch]
    BY <1>0, <2>3
  <2>6. /\ worker'[w].phase = "lock" /\ worker'[w].batch = batch
        /\ worker'[w].event = None
    BY <1>0, <1>1, <2>5 DEF Worker, WorkerOK, processBatch
  <2>7. UNCHANGED <<outbox, delivered>>
    BY <1>1 DEF processBatch
  <2>8. WorkerOK(w)' /\ DeliveryOK(w)'
    BY <1>0, <2>2, <2>6, <2>7 DEF WorkerOK, DeliveryOK, Handling
  <2>9. QED
    BY <1>0, <2>3, <2>4, <2>7, <2>8
<1>2. CASE takeLock(w)
  <2>1. PICK e \in worker[w].batch :
          IF e \in lock THEN NextEvent(w, worker[w].batch \ {e})
          ELSE worker' = [worker EXCEPT ![w] =
                 [Resting EXCEPT !.phase = "attempt", !.event = e, !.batch = worker[w].batch \ {e}]]
    BY <1>2 DEF takeLock
  <2>2. worker[w].batch \ {e} \in SUBSET Events /\ e \in Events /\ outbox[e] # None
        /\ \A d \in worker[w].batch \ {e} : outbox[d] # None
    BY <1>0 DEF Worker, WorkerOK
  <2>3. UNCHANGED <<outbox, delivered>>
    BY <1>2 DEF takeLock
  <2>4. CASE e \in lock
    <3>1. NextEvent(w, worker[w].batch \ {e})
      BY <2>1, <2>4
    <3>2. QED
      BY <1>0, <2>2, <2>3, <3>1, NextEventEffect
         DEF WorkersInv, WorkerOK, DeliveryOK, Handling
  <2>5. CASE e \notin lock
    <3> DEFINE rest == worker[w].batch \ {e}
               k == [Resting EXCEPT !.phase = "attempt", !.event = e, !.batch = rest]
    <3>1. k \in Worker /\ k.phase = "attempt" /\ k.event = e /\ k.batch = rest
      BY <2>2 DEF Worker, Resting, Phases, Channels
    <3>2. worker' = [worker EXCEPT ![w] = k]
      BY <2>1, <2>5
    <3> HIDE DEF k
    <3>3. worker'[w] = k /\ \A v \in Workers \ {w} : worker'[v] = worker[v]
      BY <1>0, <3>2
    <3>4. QED
      BY <1>0, <2>2, <2>3, <3>1, <3>2, <3>3 DEF WorkerOK, DeliveryOK, Handling
  <2>6. QED
    BY <2>4, <2>5
<1>3. CASE checkHandler(w)
  <2> DEFINE e == worker[w].event
             channel == worker[w].channel
             kind == outbox[e].kind
  <2>1. /\ worker[w].phase = "check" /\ e \in Events /\ outbox[e] \in EventRow
        /\ channel \in Targets[kind] /\ kind \in Kinds
    BY <1>3, Here DEF checkHandler, WorkerOK, Handling, EventRow
  <2>2. UNCHANGED <<outbox, delivered>>
    BY <1>3 DEF checkHandler
  <2>3. CASE AlreadyDone(e, channel)
    <3>1. NextHandler(w) /\ <<e, channel>> \in delivered
      BY <1>3, <2>3 DEF checkHandler, AlreadyDone, WorkersInv
    <3>2. QED
      BY <1>0, <2>1, <2>2, <3>1, NextHandlerEffect
         DEF WorkersInv, WorkerOK, DeliveryOK, Handling, Targets
  <2>4. CASE ~AlreadyDone(e, channel)
    <3>1. PICK phase \in {"find", "publish", "drop", "read"} :
            /\ Goto(w, phase)
            /\ phase = "find" => channel = "notification"
            /\ phase = "publish" => channel = "realtime"
            /\ phase \in {"drop", "read"} => channel = "search"
      BY <1>3, <2>1, <2>4 DEF checkHandler, FirstPhase, Targets, Kinds
    <3>2. phase \in Phases
      BY DEF Phases
    <3>3. QED
      BY <1>0, <2>1, <2>2, <3>1, <3>2, GotoEffect
         DEF WorkersInv, WorkerOK, DeliveryOK, Handling
  <2>5. QED
    BY <2>3, <2>4
<1>4. CASE findNotification(w) \/ createNotification(w) \/ deleteIndex(w)
  <2>1. PICK phase \in {"create", "send", "read"} :
          /\ Goto(w, phase)
          /\ phase \in {"create", "send"} => worker[w].phase \in {"find", "create"}
          /\ phase = "read" => worker[w].phase = "drop"
    BY <1>4 DEF findNotification, createNotification, deleteIndex
  <2>2. phase \in Phases /\ worker[w].phase \in Handling /\ worker[w].phase # "mark"
    BY <2>1 DEF Phases, Handling
  <2>3. UNCHANGED <<outbox, delivered>>
    BY <1>4 DEF findNotification, createNotification, deleteIndex
  <2>4. QED
    BY <1>0, <2>1, <2>2, <2>3, GotoEffect DEF WorkersInv, WorkerOK, DeliveryOK, Handling
<1>5. CASE readStore(w)
  <2>1. Document \in StoreRow \cup {None} /\ "write" \in Phases
    BY DEF Document, Phases, WorkersInv, StoresInv, StoresTypeOK
  <2>2. worker' = [worker EXCEPT ![w].phase = "write", ![w].seen = Document]
    BY <1>0, <1>5 DEF readStore, Worker
  <2>3. worker[w].phase = "read" /\ UNCHANGED <<outbox, delivered>>
    BY <1>5 DEF readStore
  <2>4. /\ worker' \in [Workers -> Worker]
        /\ worker'[w].phase = "write"
        /\ worker'[w].event = worker[w].event
        /\ worker'[w].channel = worker[w].channel
        /\ worker'[w].batch = worker[w].batch
        /\ \A v \in Workers \ {w} : worker'[v] = worker[v]
    BY <2>1, <2>2, ForgetEffect DEF WorkersInv
  <2>5. QED
    BY <1>0, <2>3, <2>4 DEF WorkerOK, DeliveryOK, Handling
<1>6. CASE markDone(w)
  <2>1. worker[w].phase = "mark" /\ NextHandler(w) /\ UNCHANGED <<outbox, delivered>>
    BY <1>6 DEF markDone
  <2>2. outbox[worker[w].event].kind \in Kinds
    BY <2>1, Here DEF EventRow
  <2>3. QED
    BY <1>0, <2>1, <2>2, NextHandlerEffect
       DEF WorkersInv, WorkerOK, DeliveryOK, Handling, Targets
<1>7. CASE fail(w)
  <2>1. "unlock" \in Phases /\ None \in StoreRow \cup {None}
    BY DEF Phases
  <2>2. /\ worker' = [worker EXCEPT ![w].phase = "unlock", ![w].seen = None]
        /\ worker[w].phase \notin {"poll", "lock"} /\ UNCHANGED <<outbox, delivered>>
    BY <1>7 DEF fail
  <2>3. /\ worker' \in [Workers -> Worker]
        /\ worker'[w].phase = "unlock"
        /\ worker'[w].event = worker[w].event
        /\ worker'[w].channel = worker[w].channel
        /\ worker'[w].batch = worker[w].batch
        /\ \A v \in Workers \ {w} : worker'[v] = worker[v]
    BY <2>1, <2>2, ForgetEffect DEF WorkersInv
  <2>4. QED
    BY <1>0, <2>2, <2>3 DEF WorkerOK, DeliveryOK, Handling
<1>8. CASE unlock(w)
  <2>1. NextEvent(w, worker[w].batch) /\ UNCHANGED <<outbox, delivered>>
    BY <1>8 DEF unlock
  <2>2. worker[w].batch \in SUBSET Events
    BY <1>0 DEF Worker
  <2>3. QED
    BY <1>0, <2>1, <2>2, NextEventEffect DEF WorkersInv, WorkerOK, DeliveryOK, Handling
<1>9. CASE crash(w)
  <2>1. worker' = [worker EXCEPT ![w] = Resting] /\ UNCHANGED <<outbox, delivered>>
    BY <1>9 DEF crash
  <2>2. Resting \in Worker
    BY DEF Resting, Worker, Phases, Channels
  <2>3. worker'[w] = Resting /\ \A v \in Workers \ {w} : worker'[v] = worker[v]
    BY <1>0, <2>1
  <2>4. QED
    BY <1>0, <2>1, <2>2, <2>3 DEF WorkerOK, DeliveryOK, Handling, Resting
<1>10. QED
  BY <1>1, <1>2, <1>3, <1>4, <1>5, <1>6, <1>7, <1>8, <1>9

\* The row of an event gets a new attempt, or is marked.
LEMMA RowEffect ==
  ASSUME OutboxTypeOK, NEW e \in Events, outbox[e] # None,
         NEW attempts \in Nat, NEW processed \in BOOLEAN,
         outbox' = [outbox EXCEPT ![e] =
                     [kind |-> outbox[e].kind, attempts |-> attempts, processed |-> processed]]
  PROVE  /\ outbox' \in [Events -> EventRow \cup {None}]
         /\ \A d \in Events : outbox[d] # None => outbox'[d] # None /\ outbox'[d].kind = outbox[d].kind
<1> DEFINE row == [kind |-> outbox[e].kind, attempts |-> attempts, processed |-> processed]
<1>1. outbox[e] \in EventRow
  BY DEF OutboxTypeOK
<1>2. row \in EventRow /\ row.kind = outbox[e].kind
  BY <1>1 DEF EventRow
<1>3. row # None
  BY <1>2, OutboxAssumption
<1>4. outbox' = [outbox EXCEPT ![e] = row]
  OBVIOUS
<1> HIDE DEF row
<1>5. QED
  BY <1>2, <1>3, <1>4 DEF OutboxTypeOK

\* countAttempt and finish as such writes.
LEMMA CountsAttempt ==
  ASSUME WorkersInv, NEW w \in Workers, countAttempt(w)
  PROVE  LET e == worker[w].event
             row == [kind |-> outbox[e].kind, attempts |-> outbox[e].attempts + 1,
                     processed |-> outbox[e].processed]
         IN  /\ outbox' = [outbox EXCEPT ![e] = row]
             /\ Grows
             /\ outbox' \in [Events -> EventRow \cup {None}]
<1> DEFINE e == worker[w].event
           row == [kind |-> outbox[e].kind, attempts |-> outbox[e].attempts + 1,
                   processed |-> outbox[e].processed]
<1>1. e \in Events /\ outbox[e] \in EventRow /\ outbox[e] # None
  BY Here, OutboxAssumption DEF countAttempt, At
<1>2. outbox' = [outbox EXCEPT ![e].attempts = @ + 1] /\ UNCHANGED delivered
  BY DEF countAttempt
<1>3. [outbox[e] EXCEPT !.attempts = outbox[e].attempts + 1] = row
  BY <1>1 DEF EventRow
<1>4. outbox' = [outbox EXCEPT ![e] = row]
  BY <1>2, <1>3
<1>5. outbox[e].attempts + 1 \in Nat /\ outbox[e].processed \in BOOLEAN
  BY <1>1 DEF EventRow
<1>6. QED
  BY <1>1, <1>2, <1>4, <1>5, RowEffect DEF WorkersInv, Grows

\* See CountsAttempt.
LEMMA Finishes ==
  ASSUME WorkersInv, NEW w \in Workers, finish(w)
  PROVE  LET e == worker[w].event
             row == [kind |-> outbox[e].kind, attempts |-> outbox[e].attempts, processed |-> TRUE]
         IN  /\ outbox' = [outbox EXCEPT ![e] = row]
             /\ Grows
             /\ outbox' \in [Events -> EventRow \cup {None}]
<1> DEFINE e == worker[w].event
           row == [kind |-> outbox[e].kind, attempts |-> outbox[e].attempts, processed |-> TRUE]
<1>1. e \in Events /\ outbox[e] \in EventRow /\ outbox[e] # None
  BY Here, OutboxAssumption DEF finish, At
<1>2. outbox' = [outbox EXCEPT ![e].processed = TRUE] /\ UNCHANGED delivered
  BY DEF finish
<1>3. [outbox[e] EXCEPT !.processed = TRUE] = row
  <2>1. ASSUME NEW r \in EventRow, NEW b \in BOOLEAN
        PROVE  [r EXCEPT !.processed = b] =
                 [kind |-> r.kind, attempts |-> r.attempts, processed |-> b]
    BY DEF EventRow
  <2>2. QED
    BY <1>1, <2>1
<1>4. outbox' = [outbox EXCEPT ![e] = row]
  BY <1>2, <1>3
<1>5. outbox[e].attempts \in Nat
  BY <1>1 DEF EventRow
<1>6. QED
  BY <1>1, <1>2, <1>4, <1>5, RowEffect DEF WorkersInv, Grows

\* The steps that write the table or get something out.
LEMMA NoisyStep ==
  ASSUME WorkersInv, NEW w \in Workers,
         countAttempt(w) \/ send(w) \/ writeIndex(w) \/ finish(w)
  PROVE  /\ Grows
         /\ worker' \in [Workers -> Worker]
         /\ \A v \in Workers \ {w} : worker'[v] = worker[v]
         /\ WorkerOK(w)' /\ DeliveryOK(w)'
<1> USE DEF At
<1>1. /\ worker[w].phase \notin {"poll", "lock"}
      /\ worker[w] \in Worker /\ worker \in [Workers -> Worker]
  BY DEF countAttempt, send, writeIndex, finish, WorkersInv, OutboxTypeOK
<1>2. /\ worker[w].event \in Events /\ outbox[worker[w].event] \in EventRow
      /\ WorkerOK(w) /\ DeliveryOK(w)
  BY <1>1, Here
<1>3. CASE countAttempt(w)
  <2> DEFINE channel == FirstChannel(outbox[worker[w].event].kind)
             k == [worker[w] EXCEPT !.phase = "check", !.channel = channel]
  <2>1. channel \in Channels /\ channel # "realtime"
        /\ channel \in Targets[outbox[worker[w].event].kind]
    BY <1>2 DEF FirstChannel, Channels, Targets, EventRow, Kinds
  <2>2. worker' = [worker EXCEPT ![w] = k]
    BY <1>1, <1>3 DEF countAttempt
  <2>3. /\ k \in Worker /\ k.phase = "check" /\ k.event = worker[w].event
        /\ k.batch = worker[w].batch /\ k.channel = channel
    <3> HIDE DEF channel
    <3> QED
      BY <1>1, <2>1 DEF Worker, Phases
  <2>4. worker'[w] = k /\ \A v \in Workers \ {w} : worker'[v] = worker[v]
    <3> HIDE DEF k
    <3> QED
      BY <1>1, <2>2
  <2>5. Grows
    BY <1>3, CountsAttempt
  <2>6. /\ worker'[w].phase = "check" /\ worker'[w].channel = channel
        /\ worker'[w].event = worker[w].event /\ worker'[w].batch = worker[w].batch
        /\ worker' \in [Workers -> Worker]
    <3> HIDE DEF k, channel
    <3> QED
      BY <1>1, <2>2, <2>3, <2>4
  <2> HIDE DEF k, channel
  <2>7. outbox'[worker[w].event] # None
        /\ outbox'[worker[w].event].kind = outbox[worker[w].event].kind
        /\ \A e \in worker[w].batch : outbox'[e] # None
    BY <1>1, <1>2, <2>5 DEF Grows, WorkerOK, Worker
  <2>8. WorkerOK(w)'
    BY <1>1, <1>2, <2>1, <2>6, <2>7 DEF WorkerOK, Handling
  <2>9. DeliveryOK(w)'
    BY <2>1, <2>6 DEF DeliveryOK
  <2>10. QED
    BY <2>4, <2>5, <2>6, <2>8, <2>9
<1>4. CASE send(w) \/ writeIndex(w)
  <2>1. /\ delivered' = delivered \cup {<<worker[w].event, worker[w].channel>>}
        /\ UNCHANGED outbox
        /\ worker[w].phase \in Handling
    BY <1>4 DEF send, writeIndex, GetOut, Handling
  <2>2. Grows
    BY <2>1 DEF Grows
  <2>3. /\ worker' \in [Workers -> Worker]
        /\ worker'[w].phase = "mark"
        /\ worker'[w].event = worker[w].event
        /\ worker'[w].channel = worker[w].channel
        /\ worker'[w].batch = worker[w].batch
        /\ \A v \in Workers \ {w} : worker'[v] = worker[v]
    <3>0. "mark" \in Phases
      BY DEF Phases
    <3>1. CASE send(w)
      BY <3>0, <3>1, GotoEffect DEF send, WorkersInv
    <3>2. CASE writeIndex(w)
      <4>1. worker' = [worker EXCEPT ![w].phase = "mark", ![w].seen = None]
            /\ None \in StoreRow \cup {None}
        BY <3>2 DEF writeIndex
      <4>2. QED
        BY <3>0, <4>1, ForgetEffect DEF WorkersInv
    <3>3. QED
      BY <1>4, <3>1, <3>2
  <2>4. QED
    BY <1>2, <2>1, <2>2, <2>3 DEF WorkerOK, DeliveryOK, Handling
<1>5. CASE finish(w)
  <2>1. Goto(w, "unlock") /\ "unlock" \in Phases
    BY <1>5 DEF finish, Phases
  <2>2. /\ worker' \in [Workers -> Worker]
        /\ worker'[w].phase = "unlock"
        /\ worker'[w].event = worker[w].event
        /\ worker'[w].batch = worker[w].batch
        /\ \A v \in Workers \ {w} : worker'[v] = worker[v]
    BY <2>1, GotoEffect DEF WorkersInv
  <2>3. Grows
    BY <1>5, Finishes
  <2>4. outbox'[worker[w].event] # None /\ \A e \in worker[w].batch : outbox'[e] # None
    BY <1>1, <1>2, <2>3 DEF Grows, WorkerOK, Worker
  <2>5. QED
    BY <1>1, <1>2, <2>2, <2>3, <2>4 DEF WorkerOK, DeliveryOK, Handling
<1>6. QED
  BY <1>3, <1>4, <1>5

\* Any step of a worker.
LEMMA WorkerStep ==
  ASSUME WorkersInv, NEW w \in Workers, processBatch(w) \/ processEvent(w) \/ fail(w) \/ crash(w)
  PROVE  /\ Grows
         /\ worker' \in [Workers -> Worker]
         /\ \A v \in Workers \ {w} : worker'[v] = worker[v]
         /\ WorkerOK(w)' /\ DeliveryOK(w)'
BY QuietStep, NoisyStep, StillGrows DEF processEvent

\* A new row.
LEMMA PublishEffect ==
  ASSUME OutboxTypeOK, NEW kind \in Kinds, Publish(kind)
  PROVE  \E e \in Events :
           /\ outbox[e] = None /\ outbox' \in [Events -> EventRow \cup {None}]
           /\ outbox'[e] = [kind |-> kind, attempts |-> 0, processed |-> FALSE]
           /\ outbox'[e] \in EventRow
           /\ \A d \in Events \ {e} : outbox'[d] = outbox[d]
<1> DEFINE row == [kind |-> kind, attempts |-> 0, processed |-> FALSE]
<1>1. PICK e \in Events : outbox[e] = None /\ outbox' = [outbox EXCEPT ![e] = row]
  BY DEF Publish
<1>2. \A n \in Nat, b \in BOOLEAN : [kind |-> kind, attempts |-> n, processed |-> b] \in EventRow
  BY DEF EventRow
<1>3. row \in EventRow
  BY <1>2
<1> HIDE DEF row
<1>4. outbox'[e] = row /\ outbox' \in [Events -> EventRow \cup {None}]
      /\ \A d \in Events \ {e} : outbox'[d] = outbox[d]
  BY <1>1, <1>3 DEF OutboxTypeOK
<1>5. QED
  BY <1>1, <1>3, <1>4 DEF row

\* The steps of nobody, or of a store's handler, leave the workers alone.
LEMMA OutsideStep ==
  ASSUME WorkersInv,
         \/ PublishNotice \/ requestSearchRebuild
         \/ \E s \in StoreRequests : EditStore(s) \/ enqueueStoreSearchSync(s) \/ EditDies(s)
         \/ \E e \in Events : expireDead(e) \/ expireLive(e)
         \/ UNCHANGED vars
  PROVE  /\ Grows
         /\ UNCHANGED <<worker, done, delivered, notifications, index>>
         /\ outbox' \in [Events -> EventRow \cup {None}]
<1>1. UNCHANGED <<worker, done, delivered, notifications, index>>
  BY DEF PublishNotice, requestSearchRebuild, EditStore, enqueueStoreSearchSync, EditDies,
         expireDead, expireLive, vars, queueVars
<1>2. UNCHANGED outbox \/ \E kind \in Kinds : Publish(kind)
  BY DEF PublishNotice, requestSearchRebuild, EditStore, enqueueStoreSearchSync, EditDies,
         expireDead, expireLive, vars, queueVars, Kinds
<1>3. CASE UNCHANGED outbox
  BY <1>1, <1>3 DEF WorkersInv, OutboxTypeOK, Grows
<1>4. CASE \E kind \in Kinds : Publish(kind)
  <2>1. PICK kind \in Kinds : Publish(kind)
    BY <1>4
  <2>2. PICK e \in Events :
           /\ outbox[e] = None /\ outbox' \in [Events -> EventRow \cup {None}]
           /\ \A d \in Events \ {e} : outbox'[d] = outbox[d]
    BY <2>1, PublishEffect DEF WorkersInv
  <2>3. QED
    BY <1>1, <2>2 DEF Grows
<1>5. QED
  BY <1>1, <1>2, <1>3, <1>4
-----------------------------------------------------------------------------
(* The invariant. *)

\* It holds at first.
LEMMA InitWorkersInv == Init => WorkersInv
<1> SUFFICES ASSUME Init PROVE WorkersInv
  OBVIOUS
<1>1. StoresInv
  BY StoresInitInv DEF Init
<1>2. Resting \in Worker
  BY DEF Resting, Worker, Phases, Channels
<1>3. index \in StoreRow \cup {None}
  BY <1>1 DEF Init, Document, StoresInv, StoresTypeOK
<1>4. [locks |-> {}, index |-> FALSE] \in [locks : SUBSET Events, index : BOOLEAN]
  <2>1. \A b \in BOOLEAN : [locks |-> {}, index |-> b] \in [locks : SUBSET Events, index : BOOLEAN]
    OBVIOUS
  <2>2. QED
    BY <2>1
<1>5. OutboxTypeOK
  <2>1. outbox \in [Events -> EventRow \cup {None}]
    BY DEF Init
  <2>2. worker \in [Workers -> Worker]
    BY <1>2 DEF Init
  <2>3. /\ lock \subseteq Events /\ done \subseteq Events \X Channels
        /\ delivered \subseteq Events \X Channels
        /\ notifications \in [Events -> Nat]
    BY DEF Init
  <2>4. overlapped \in [locks : SUBSET Events, index : BOOLEAN] /\ lost \in BOOLEAN
    BY <1>4 DEF Init
  <2>5. budget \in Budget
    BY OutboxAssumption DEF Init
  <2>6. QED
    BY <1>3, <2>1, <2>2, <2>3, <2>4, <2>5 DEF OutboxTypeOK
<1>6. ASSUME NEW w \in Workers PROVE WorkerOK(w) /\ DeliveryOK(w)
  <2>1. worker[w] = Resting /\ Resting.phase = "poll" /\ Resting.event = None /\ Resting.batch = {}
    BY DEF Init, Resting
  <2>2. QED
    BY <2>1 DEF WorkerOK, DeliveryOK, Handling
<1>7. done \subseteq delivered
  BY DEF Init
<1>8. QED
  BY <1>1, <1>5, <1>6, <1>7 DEF WorkersInv

\* A step of the outbox is a step of the store's handlers, or none of theirs.
LEMMA StepOfStores == [Next]_vars => [StoresNext]_storeVars
<1> SUFFICES ASSUME [Next]_vars PROVE [StoresNext]_storeVars
  OBVIOUS
<1>1. CASE \E s \in StoreRequests : EditStore(s) \/ enqueueStoreSearchSync(s) \/ EditDies(s)
  BY <1>1 DEF EditStore, enqueueStoreSearchSync, EditDies, StoresNext
<1>2. CASE \E w \in Workers : processBatch(w) \/ fail(w) \/ crash(w)
  BY <1>2 DEF processBatch, fail, crash
<1>3. CASE \E w \in Workers : processEvent(w)
  BY <1>3 DEF processEvent, takeLock, countAttempt, checkHandler, findNotification,
              createNotification, send, deleteIndex, readStore, writeIndex, markDone, finish,
              unlock
<1>4. CASE PublishNotice \/ requestSearchRebuild \/ \E e \in Events : expireDead(e) \/ expireLive(e)
  BY <1>4 DEF PublishNotice, requestSearchRebuild, expireDead, expireLive
<1>5. CASE UNCHANGED vars
  BY <1>5 DEF vars
<1>6. QED
  BY <1>1, <1>2, <1>3, <1>4, <1>5 DEF Next

\* What a behaviour may still do is counted down.
LEMMA SpendType ==
  ASSUME budget \in Budget, NEW what \in {"edits", "notices", "rebuilds", "crashes", "expiries"},
         Spend(what)
  PROVE  budget' \in Budget
<1>1. budget[what] \in Nat /\ budget[what] > 0
  BY DEF Budget, Spend
<1>2. \A n \in Nat : [budget EXCEPT ![what] = n] \in Budget
  BY DEF Budget
<1>3. budget[what] - 1 \in Nat
  BY <1>1
<1>4. QED
  BY <1>2, <1>3 DEF Spend

\* The types of what is neither the table's nor the workers'.
LEMMA RestTyped ==
  ASSUME WorkersInv, [Next]_vars
  PROVE  /\ lock' \subseteq Events
         /\ notifications' \in [Events -> Nat]
         /\ index' \in StoreRow \cup {None}
         /\ overlapped' \in [locks : SUBSET Events, index : BOOLEAN]
         /\ lost' \in BOOLEAN
         /\ budget' \in Budget
<1>0. /\ lock \subseteq Events /\ notifications \in [Events -> Nat]
      /\ index \in StoreRow \cup {None}
      /\ overlapped \in [locks : SUBSET Events, index : BOOLEAN]
      /\ lost \in BOOLEAN /\ budget \in Budget
      /\ \A w \in Workers : worker[w] \in Worker
  BY DEF WorkersInv, OutboxTypeOK
<1>1. CASE PublishNotice \/ requestSearchRebuild
  BY <1>0, <1>1, SpendType DEF PublishNotice, requestSearchRebuild
<1>2. CASE \E s \in StoreRequests : EditStore(s) \/ enqueueStoreSearchSync(s) \/ EditDies(s)
  <2>1. UNCHANGED <<lock, notifications, index, overlapped, budget>>
    BY <1>2 DEF EditStore, enqueueStoreSearchSync, EditDies, queueVars, history
  <2>2. lost' \in BOOLEAN
    BY <1>0, <1>2 DEF EditStore, enqueueStoreSearchSync, EditDies, history
  <2>3. QED
    BY <1>0, <2>1, <2>2
<1>3. CASE \E w \in Workers : takeLock(w) \/ unlock(w)
  <2>1. UNCHANGED <<notifications, index, overlapped, lost, budget>>
    BY <1>3 DEF takeLock, unlock, history
  <2>2. lock' \subseteq Events
    <3>1. ASSUME NEW w \in Workers, takeLock(w) PROVE lock' \subseteq Events
      <4>1. PICK e \in worker[w].batch : lock' = lock \/ lock' = lock \cup {e}
        BY <3>1 DEF takeLock
      <4>2. worker[w].batch \subseteq Events
        BY <1>0 DEF Worker
      <4>3. QED
        BY <1>0, <4>1, <4>2
    <3>2. QED
      BY <1>0, <1>3, <3>1 DEF unlock
  <2>3. QED
    BY <1>0, <2>1, <2>2
<1>4. CASE \E w \in Workers : createNotification(w)
  <2>1. PICK w \in Workers : createNotification(w)
    BY <1>4
  <2>2. worker[w].event \in Events
    BY <2>1, Here DEF createNotification, At
  <2>3. QED
    BY <1>0, <2>1, <2>2 DEF createNotification, history
<1>5. CASE \E w \in Workers : deleteIndex(w) \/ readStore(w)
  <2>1. PICK w \in Workers : deleteIndex(w) \/ readStore(w)
    BY <1>5
  <2>2. UNCHANGED <<lock, notifications, lost, budget>> /\ index' \in StoreRow \cup {None}
    BY <1>0, <2>1 DEF deleteIndex, readStore, history
  <2>3. overlapped' \in [locks : SUBSET Events, index : BOOLEAN]
    <3>1. CASE deleteIndex(w)
      BY <1>0, <3>1 DEF deleteIndex, history
    <3>2. CASE readStore(w)
      <4>1. PICK b \in BOOLEAN : overlapped' = [overlapped EXCEPT !.index = b]
        <5>1. overlapped' = [overlapped EXCEPT !.index =
                              overlapped.index \/ \E v \in Workers \ {w} : At(v, "write")]
          BY <3>2 DEF readStore
        <5>2. (overlapped.index \/ \E v \in Workers \ {w} : At(v, "write")) \in BOOLEAN
          OBVIOUS
        <5>3. QED
          BY <5>1, <5>2
      <4>2. QED
        BY <1>0, <4>1
    <3>3. QED
      BY <2>1, <3>1, <3>2
  <2>4. QED
    BY <1>0, <2>2, <2>3
<1>6. CASE \E w \in Workers : writeIndex(w)
  <2>1. PICK w \in Workers : writeIndex(w)
    BY <1>6
  <2>2. index' \in StoreRow \cup {None}
    BY <1>0, <2>1 DEF writeIndex, Worker
  <2>3. QED
    BY <1>0, <2>1, <2>2 DEF writeIndex, history
<1>7. CASE \E w \in Workers :
             \/ processBatch(w) \/ countAttempt(w) \/ checkHandler(w) \/ findNotification(w)
             \/ send(w) \/ markDone(w) \/ finish(w) \/ fail(w)
  BY <1>0, <1>7 DEF processBatch, countAttempt, checkHandler, findNotification, send, markDone,
                    finish, fail, history
<1>8. CASE \E w \in Workers : crash(w)
  BY <1>0, <1>8, SpendType DEF crash
<1>9. CASE \E e \in Events : expireDead(e) \/ expireLive(e)
  <2>1. PICK e \in Events : expireDead(e) \/ expireLive(e)
    BY <1>9
  <2>2. UNCHANGED <<notifications, index, lost>> /\ lock' \subseteq Events
    BY <1>0, <2>1 DEF expireDead, expireLive, history
  <2>3. overlapped' = overlapped \/ overlapped' = [overlapped EXCEPT !.locks = overlapped.locks \cup {e}]
    BY <2>1 DEF expireDead, expireLive, history
  <2>4. budget' \in Budget
    BY <1>0, <2>1, SpendType DEF expireDead, expireLive, history
  <2>5. overlapped' \in [locks : SUBSET Events, index : BOOLEAN]
    <3>1. \A locks \in SUBSET Events :
            [overlapped EXCEPT !.locks = locks] \in [locks : SUBSET Events, index : BOOLEAN]
      BY <1>0
    <3>2. overlapped.locks \cup {e} \in SUBSET Events
      BY <1>0
    <3>3. QED
      BY <1>0, <2>3, <3>1, <3>2
  <2>6. QED
    BY <1>0, <2>2, <2>4, <2>5
<1>10. CASE UNCHANGED vars
  BY <1>0, <1>10 DEF vars, queueVars, history
<1>11. QED
  BY <1>1, <1>2, <1>3, <1>4, <1>5, <1>6, <1>7, <1>8, <1>9, <1>10 DEF Next, processEvent

\* What has been marked got out, and pairs stay pairs.
LEMMA DoneIsDelivered ==
  ASSUME WorkersInv, NEW w \in Workers, processBatch(w) \/ processEvent(w) \/ fail(w) \/ crash(w)
  PROVE  /\ delivered' \subseteq Events \X Channels
         /\ done' \subseteq Events \X Channels
         /\ done' \subseteq delivered'
<1>0. /\ done \subseteq delivered /\ delivered \subseteq Events \X Channels
      /\ done \subseteq Events \X Channels
      /\ worker[w] \in Worker /\ DeliveryOK(w)
  BY DEF WorkersInv, OutboxTypeOK
<1>1. CASE send(w) \/ writeIndex(w)
  <2>1. worker[w].event \in Events /\ worker[w].channel \in Channels
    BY <1>0, <1>1, Here DEF send, writeIndex, At, Worker
  <2>2. QED
    BY <1>0, <1>1, <2>1 DEF send, writeIndex, GetOut
<1>2. CASE markDone(w)
  BY <1>0, <1>2 DEF markDone, At, DeliveryOK
<1>3. CASE \/ processBatch(w) \/ takeLock(w) \/ countAttempt(w) \/ checkHandler(w)
           \/ findNotification(w) \/ createNotification(w) \/ deleteIndex(w) \/ readStore(w)
           \/ finish(w) \/ unlock(w) \/ fail(w) \/ crash(w)
  <2>1. UNCHANGED <<done, delivered>>
    BY <1>3 DEF processBatch, takeLock, countAttempt, checkHandler, findNotification,
                createNotification, deleteIndex, readStore, finish, unlock, fail, crash
  <2>2. QED
    BY <1>0, <2>1
<1>4. QED
  BY <1>1, <1>2, <1>3 DEF processEvent

\* The table's rows keep their shape.
LEMMA TableTyped ==
  ASSUME WorkersInv, NEW w \in Workers, processBatch(w) \/ processEvent(w) \/ fail(w) \/ crash(w)
  PROVE  outbox' \in [Events -> EventRow \cup {None}]
<1>1. CASE countAttempt(w)
  BY <1>1, CountsAttempt
<1>2. CASE finish(w)
  BY <1>2, Finishes
<1>3. CASE send(w) \/ writeIndex(w)
  BY <1>3 DEF send, writeIndex, WorkersInv, OutboxTypeOK
<1>4. CASE \/ processBatch(w) \/ takeLock(w) \/ checkHandler(w) \/ findNotification(w)
           \/ createNotification(w) \/ deleteIndex(w) \/ readStore(w) \/ markDone(w)
           \/ fail(w) \/ unlock(w) \/ crash(w)
  BY <1>4, QuietStep DEF WorkersInv, OutboxTypeOK
<1>5. QED
  BY <1>1, <1>2, <1>3, <1>4 DEF processEvent

\* Every step keeps the invariant.
LEMMA StepWorkersInv == WorkersInv /\ [Next]_vars => WorkersInv'
<1> SUFFICES ASSUME WorkersInv, [Next]_vars PROVE WorkersInv'
  OBVIOUS
<1>1. StoresInv'
  BY StepOfStores, StoresStepInv DEF WorkersInv
<1>2. CASE \E w \in Workers : processBatch(w) \/ processEvent(w) \/ fail(w) \/ crash(w)
  <2>1. PICK w \in Workers : processBatch(w) \/ processEvent(w) \/ fail(w) \/ crash(w)
    BY <1>2
  <2>2. /\ Grows /\ worker' \in [Workers -> Worker]
        /\ \A v \in Workers \ {w} : worker'[v] = worker[v]
        /\ WorkerOK(w)' /\ DeliveryOK(w)'
    BY <2>1, WorkerStep
  <2>3. \A v \in Workers : WorkerOK(v)' /\ DeliveryOK(v)'
    <3>1. {w} \in SUBSET Workers
      OBVIOUS
    <3>2. \A v \in {w} : WorkerOK(v)' /\ DeliveryOK(v)'
      BY <2>2
    <3>3. QED
      BY <2>2, <3>1, <3>2, OthersKept
  <2>4. OutboxTypeOK'
    BY <2>1, <2>2, RestTyped, DoneIsDelivered, TableTyped DEF OutboxTypeOK
  <2>5. QED
    BY <1>1, <2>1, <2>3, <2>4, DoneIsDelivered DEF WorkersInv
<1>3. CASE \/ PublishNotice \/ requestSearchRebuild
           \/ \E s \in StoreRequests : EditStore(s) \/ enqueueStoreSearchSync(s) \/ EditDies(s)
           \/ \E e \in Events : expireDead(e) \/ expireLive(e)
           \/ UNCHANGED vars
  <2>1. /\ Grows
        /\ UNCHANGED <<worker, done, delivered>>
        /\ outbox' \in [Events -> EventRow \cup {None}]
    BY <1>3, OutsideStep
  <2>2. \A v \in Workers : WorkerOK(v)' /\ DeliveryOK(v)'
    <3>1. {} \in SUBSET Workers /\ \A v \in Workers \ {} : worker'[v] = worker[v]
      BY <2>1
    <3>2. \A v \in {} : WorkerOK(v)' /\ DeliveryOK(v)'
      OBVIOUS
    <3>3. QED
      BY <2>1, <3>1, <3>2, OthersKept
  <2>3. OutboxTypeOK'
    BY <2>1, RestTyped DEF OutboxTypeOK, WorkersInv
  <2>4. QED
    BY <1>1, <2>1, <2>2, <2>3 DEF WorkersInv
<1>4. QED
  BY <1>2, <1>3 DEF Next

\* Every behaviour of the workers and the store's handlers keeps the types.
THEOREM TypeCorrect == Spec => []TypeOK
<1>1. WorkersInv => TypeOK
  BY DEF WorkersInv, StoresInv, TypeOK
<1>2. QED
  BY <1>1, InitWorkersInv, StepWorkersInv, PTL DEF Spec

\* The store's guarantee survives the composition: what the workers do next to
\* it changes nothing of it.
THEOREM OpenReviewedNextToWorkers == Spec => []OpenStoresAreReviewed
<1>1. WorkersInv => OpenStoresAreReviewed
  BY DEF WorkersInv, StoresInv
<1>2. QED
  BY <1>1, InitWorkersInv, StepWorkersInv, PTL DEF Spec
-----------------------------------------------------------------------------
(* The workers implement Delivery. *)

\* A row that is not None is published, under its kind; a processed one is settled.
LEMMA PublishedIs ==
  ASSUME OutboxTypeOK, NEW e \in Events
  PROVE  /\ outbox[e] # None => Published[e] = outbox[e].kind /\ Published[e] \in Kinds
                                /\ Published[e] # None
         /\ outbox[e] = None => Published[e] = None
BY OutboxAssumption DEF OutboxTypeOK, Published, EventRow, Kinds

\* At first nothing is published.
LEMMA InitDelivers == Init => D!Init
<1> SUFFICES ASSUME Init PROVE D!Init
  OBVIOUS
<1>1. Published = [e \in Events |-> None]
  BY DEF Init, Published
<1>2. Settled = {}
  BY DEF Init, Settled
<1>3. QED
  BY <1>1, <1>2 DEF Init, D!Init

\* A step maps to one of Delivery's, or to none.
LEMMA StepDelivers == WorkersInv /\ [Next]_vars => [D!Next]_<<Published, delivered, Settled>>
<1> SUFFICES ASSUME WorkersInv, [Next]_vars PROVE [D!Next]_<<Published, delivered, Settled>>
  OBVIOUS
<1>0. OutboxTypeOK
  BY DEF WorkersInv
<1>1. ASSUME UNCHANGED outbox PROVE UNCHANGED <<Published, Settled>>
  BY <1>1 DEF Published, Settled
<1>2. ASSUME NEW w \in Workers, countAttempt(w) PROVE UNCHANGED <<Published, delivered, Settled>>
  <2> DEFINE e == worker[w].event
             row == [kind |-> outbox[e].kind, attempts |-> outbox[e].attempts + 1,
                     processed |-> outbox[e].processed]
  <2>1. e \in Events /\ outbox[e] # None
    BY <1>2, Here, OutboxAssumption DEF countAttempt, At
  <2>2. outbox' = [outbox EXCEPT ![e] = row] /\ outbox' \in [Events -> EventRow \cup {None}]
        /\ Grows
    BY <1>2, CountsAttempt
  <2>3. row.kind = outbox[e].kind /\ row.processed = outbox[e].processed
    OBVIOUS
  <2> HIDE DEF row
  <2>4. \A d \in Events :
          /\ outbox[d] = None <=> outbox'[d] = None
          /\ outbox[d] # None => outbox'[d].kind = outbox[d].kind
                                 /\ outbox'[d].processed = outbox[d].processed
    BY <1>0, <2>1, <2>2, <2>3 DEF OutboxTypeOK, Grows
  <2>5. UNCHANGED Published
    BY <2>4 DEF Published
  <2>6. UNCHANGED Settled
    BY <2>4 DEF Settled
  <2>7. QED
    BY <1>2, <2>5, <2>6 DEF countAttempt
<1>3. ASSUME NEW w \in Workers, finish(w) PROVE D!Next
  <2> DEFINE e == worker[w].event
             row == [kind |-> outbox[e].kind, attempts |-> outbox[e].attempts, processed |-> TRUE]
  <2>1. e \in Events /\ outbox[e] # None
        /\ \A channel \in Targets[outbox[e].kind] : <<e, channel>> \in delivered
    BY <1>3, Here, OutboxAssumption DEF finish, At, DeliveryOK
  <2>2. outbox' = [outbox EXCEPT ![e] = row] /\ outbox' \in [Events -> EventRow \cup {None}]
        /\ Grows
    BY <1>3, Finishes
  <2>3. row.kind = outbox[e].kind /\ row.processed = TRUE
    OBVIOUS
  <2> HIDE DEF row
  <2>4. /\ \A d \in Events :
             /\ outbox[d] = None <=> outbox'[d] = None
             /\ outbox[d] # None => outbox'[d].kind = outbox[d].kind
        /\ \A d \in Events \ {e} : outbox'[d] = outbox[d]
        /\ outbox'[e] # None /\ outbox'[e].processed
    BY <1>0, <2>1, <2>2, <2>3 DEF OutboxTypeOK, Grows
  <2>5. UNCHANGED Published
    BY <2>4 DEF Published
  <2>6. Settled' = Settled \cup {e}
    BY <2>1, <2>4 DEF Settled
  <2>7. Published[e] = outbox[e].kind /\ Published[e] # None
    BY <1>0, <2>1, PublishedIs
  <2>8. UNCHANGED delivered
    BY <1>3 DEF finish
  <2>9. D!Settle(e)
    BY <2>1, <2>5, <2>6, <2>7, <2>8 DEF D!Settle
  <2>10. QED
    BY <2>1, <2>9 DEF D!Next
<1>4. ASSUME NEW w \in Workers, send(w) \/ writeIndex(w) PROVE D!Next
  <2> DEFINE e == worker[w].event
             channel == worker[w].channel
  <2>1. /\ e \in Events /\ outbox[e] # None /\ channel \in Targets[outbox[e].kind]
        /\ UNCHANGED outbox /\ delivered' = delivered \cup {<<e, channel>>}
    <3>1. worker[w].phase \in {"send", "publish", "write"} /\ UNCHANGED outbox
          /\ delivered' = delivered \cup {<<e, channel>>}
      BY <1>4 DEF send, writeIndex, GetOut, At
    <3>2. QED
      BY <3>1, Here, OutboxAssumption DEF WorkerOK, Handling
  <2>2. Published[e] = outbox[e].kind /\ Published[e] # None
    BY <1>0, <2>1, PublishedIs
  <2>3. D!Deliver(e, channel)
    BY <1>1, <2>1, <2>2 DEF D!Deliver
  <2>4. QED
    BY <2>1, <2>2, <2>3 DEF D!Next
<1>5. CASE \E w \in Workers :
             \/ processBatch(w) \/ takeLock(w) \/ checkHandler(w) \/ findNotification(w)
             \/ createNotification(w) \/ deleteIndex(w) \/ readStore(w) \/ markDone(w)
             \/ fail(w) \/ unlock(w) \/ crash(w)
  BY <1>1, <1>5, QuietStep
<1>6. ASSUME NEW kind \in Kinds, Publish(kind), UNCHANGED delivered PROVE D!Next
  <2>1. PICK e \in Events :
           /\ outbox[e] = None /\ outbox' \in [Events -> EventRow \cup {None}]
           /\ outbox'[e] = [kind |-> kind, attempts |-> 0, processed |-> FALSE]
           /\ outbox'[e] \in EventRow
           /\ \A d \in Events \ {e} : outbox'[d] = outbox[d]
    BY <1>0, <1>6, PublishEffect
  <2>2. outbox'[e] # None /\ outbox'[e].kind = kind /\ ~outbox'[e].processed
    <3>1. \A n \in Nat, b \in BOOLEAN :
            LET row == [kind |-> kind, attempts |-> n, processed |-> b]
            IN  row.kind = kind /\ row.processed = b
      OBVIOUS
    <3>2. outbox'[e].kind = kind /\ outbox'[e].processed = FALSE
      BY <2>1, <3>1
    <3>3. QED
      BY <2>1, <3>2, OutboxAssumption
  <2>3. Published' = [Published EXCEPT ![e] = kind]
    BY <2>1, <2>2 DEF Published
  <2>4. Settled' = Settled
    BY <2>1, <2>2 DEF Settled
  <2>5. Published[e] = None
    BY <2>1 DEF Published
  <2>6. D!Publish(e, kind)
    BY <1>6, <2>3, <2>4, <2>5 DEF D!Publish
  <2>7. QED
    BY <2>6 DEF D!Next
<1>7. CASE \/ PublishNotice \/ requestSearchRebuild
           \/ \E s \in StoreRequests : EditStore(s) \/ enqueueStoreSearchSync(s) \/ EditDies(s)
           \/ \E e \in Events : expireDead(e) \/ expireLive(e)
           \/ UNCHANGED vars
  <2>1. UNCHANGED delivered
    BY <1>7, OutsideStep
  <2>2. UNCHANGED outbox \/ \E kind \in Kinds : Publish(kind)
    BY <1>7 DEF PublishNotice, requestSearchRebuild, EditStore, enqueueStoreSearchSync, EditDies,
                expireDead, expireLive, vars, queueVars, Kinds
  <2>3. QED
    BY <1>1, <1>6, <2>1, <2>2
<1>8. QED
  BY <1>2, <1>3, <1>4, <1>5, <1>7 DEF Next, processEvent

\* For any number of workers and events, and whatever fails, the outbox
\* delivers: an event is settled only after it reached every channel.
THEOREM Implements == Spec => Delivers
<1>1. QED
  BY InitWorkersInv, StepWorkersInv, InitDelivers, StepDelivers, PTL DEF Spec, Delivers, D!Spec

-----------------------------------------------------------------------------
(***************************************************************************)
(* What the locks and the attempts of the outbox bound, for any number of  *)
(* workers and events.                                                     *)
(*                                                                         *)
(* As long as the lock of an event never expired under a worker, one       *)
(* worker at most is at it (Exclusive), so nobody creates a notification   *)
(* between another's look and its insert.  Attempts are bounded because a  *)
(* worker that may still add one has polled the event before: counting     *)
(* these workers in makes the bound inductive (Prepaid).                   *)
(***************************************************************************)

Exclusive ==
  \A e \in Events : e \notin overlapped.locks =>
    /\ \A w \in Workers : worker[w].event = e => e \in lock
    /\ \A v, w \in Workers : worker[v].event = e /\ worker[w].event = e => v = w
    /\ notifications[e] <= 1
    /\ \A w \in Workers : worker[w].event = e /\ worker[w].phase = "create" => notifications[e] = 0

\* May add an attempt to the event without polling again.
Pending(w, e) ==
  \/ e \in worker[w].batch
  \/ worker[w].phase = "attempt" /\ worker[w].event = e

Prepaid ==
  \A e \in Events : outbox[e] # None =>
    outbox[e].attempts + Cardinality({w \in Workers : Pending(w, e)})
      <= MaxAttempts - 1 + Cardinality(Workers)
-----------------------------------------------------------------------------
\* The steps within an event leave the worker with it.
LEMMA WithinEvent ==
  ASSUME WorkersInv, NEW w \in Workers,
         \/ countAttempt(w) \/ checkHandler(w) \/ findNotification(w) \/ createNotification(w)
         \/ send(w) \/ deleteIndex(w) \/ readStore(w) \/ writeIndex(w) \/ markDone(w)
         \/ finish(w) \/ fail(w)
  PROVE  /\ worker'[w].event = worker[w].event
         /\ worker'[w].batch = worker[w].batch
         /\ worker'[w].phase \notin {"poll", "lock", "attempt"}
         /\ worker'[w].phase = "create" => findNotification(w)
         /\ \A v \in Workers \ {w} : worker'[v] = worker[v]
         /\ UNCHANGED <<lock, overlapped.locks>>
<1>0. worker[w] \in Worker /\ worker \in [Workers -> Worker] /\ OutboxTypeOK
  BY DEF WorkersInv, OutboxTypeOK
<1>1. ASSUME NEW phase \in Phases \ {"poll", "lock", "attempt", "create"}, Goto(w, phase)
      PROVE  /\ worker'[w].event = worker[w].event
             /\ worker'[w].batch = worker[w].batch
             /\ worker'[w].phase \notin {"poll", "lock", "attempt", "create"}
             /\ \A v \in Workers \ {w} : worker'[v] = worker[v]
  BY <1>0, <1>1, GotoEffect
<1>2. CASE countAttempt(w)
  <2>1. worker' = [worker EXCEPT ![w] = [worker[w] EXCEPT
          !.phase = "check", !.channel = FirstChannel(outbox[worker[w].event].kind)]]
    BY <1>0, <1>2 DEF countAttempt
  <2>2. worker'[w] = [worker[w] EXCEPT
          !.phase = "check", !.channel = FirstChannel(outbox[worker[w].event].kind)]
    BY <1>0, <2>1
  <2>3. worker'[w].event = worker[w].event /\ worker'[w].batch = worker[w].batch
        /\ worker'[w].phase = "check"
    BY <1>0, <2>2 DEF Worker
  <2>4. QED
    BY <1>0, <1>2, <2>1, <2>3 DEF countAttempt, history
<1>3. CASE checkHandler(w)
  <2>1. NextHandler(w) \/ \E phase \in {"find", "publish", "drop", "read"} : Goto(w, phase)
    <3>1. worker[w].channel \in Channels
      BY <1>0 DEF Worker
    <3>2. QED
      BY <1>3, <3>1 DEF checkHandler, FirstPhase, Channels
  <2>2. CASE NextHandler(w)
    BY <1>0, <1>3, <2>2, NextHandlerEffect DEF checkHandler, history
  <2>3. CASE \E phase \in {"find", "publish", "drop", "read"} : Goto(w, phase)
    <3>1. PICK phase \in {"find", "publish", "drop", "read"} : Goto(w, phase)
      BY <2>3
    <3>2. phase \in Phases \ {"poll", "lock", "attempt", "create"}
      BY DEF Phases
    <3>3. QED
      BY <1>1, <1>3, <3>1, <3>2 DEF checkHandler, history
  <2>4. QED
    BY <2>1, <2>2, <2>3
<1>4. CASE findNotification(w)
  <2>1. PICK phase \in {"create", "send"} : Goto(w, phase)
    BY <1>4 DEF findNotification
  <2>2. phase \in Phases
    BY DEF Phases
  <2>3. QED
    BY <1>0, <1>4, <2>1, <2>2, GotoEffect DEF findNotification, history
<1>5. CASE createNotification(w) \/ send(w) \/ finish(w)
  <2>1. PICK phase \in {"send", "mark", "unlock"} : Goto(w, phase)
    BY <1>5 DEF createNotification, send, finish
  <2>2. phase \in Phases \ {"poll", "lock", "attempt", "create"}
    BY DEF Phases
  <2>3. QED
    BY <1>1, <1>5, <2>1, <2>2 DEF createNotification, send, finish, history
<1>6. CASE deleteIndex(w)
  <2>1. Goto(w, "read") /\ UNCHANGED lock
    BY <1>6 DEF deleteIndex
  <2>2. UNCHANGED overlapped.locks
    BY <1>6 DEF deleteIndex, history
  <2>3. "read" \in Phases \ {"poll", "lock", "attempt", "create"}
    BY DEF Phases
  <2>4. QED
    BY <1>1, <2>1, <2>2, <2>3
<1>7. CASE readStore(w)
  <2>1. Document \in StoreRow \cup {None} /\ "write" \in Phases
    BY DEF Document, Phases, WorkersInv, StoresInv, StoresTypeOK
  <2>2. worker' = [worker EXCEPT ![w].phase = "write", ![w].seen = Document]
    BY <1>0, <1>7 DEF readStore, Worker
  <2>3. /\ worker'[w].phase = "write"
        /\ worker'[w].event = worker[w].event
        /\ worker'[w].batch = worker[w].batch
        /\ \A v \in Workers \ {w} : worker'[v] = worker[v]
    BY <1>0, <2>1, <2>2, ForgetEffect
  <2>4. UNCHANGED <<lock, overlapped.locks>>
    BY <1>0, <1>7 DEF readStore, OutboxTypeOK
  <2>5. QED
    BY <2>3, <2>4
<1>8. CASE writeIndex(w) \/ fail(w)
  <2>1. PICK phase \in {"mark", "unlock"} :
          worker' = [worker EXCEPT ![w].phase = phase, ![w].seen = None]
    BY <1>8 DEF writeIndex, fail
  <2>2. phase \in Phases /\ None \in StoreRow \cup {None}
    BY DEF Phases
  <2>3. /\ worker'[w].phase = phase
        /\ worker'[w].event = worker[w].event
        /\ worker'[w].batch = worker[w].batch
        /\ \A v \in Workers \ {w} : worker'[v] = worker[v]
    BY <1>0, <2>1, <2>2, ForgetEffect
  <2>4. QED
    BY <1>8, <2>3 DEF writeIndex, fail, history
<1>9. CASE markDone(w)
  BY <1>0, <1>9, NextHandlerEffect DEF markDone, history
<1>10. QED
  BY <1>2, <1>3, <1>4, <1>5, <1>6, <1>7, <1>8, <1>9

\* Between events a worker has none, ...
LEMMA BetweenEvents ==
  ASSUME WorkersInv, NEW w \in Workers, processBatch(w) \/ unlock(w) \/ crash(w)
  PROVE  /\ worker'[w].event = None /\ None \notin Events
         /\ worker'[w].phase \in {"poll", "lock"}
         /\ processBatch(w) \/ worker'[w].batch \subseteq worker[w].batch
         /\ \A v \in Workers \ {w} : worker'[v] = worker[v]
         /\ UNCHANGED <<overlapped.locks, notifications>>
         /\ ~unlock(w) => UNCHANGED lock
         /\ unlock(w) => lock' = lock \ {worker[w].event}
<1>0. worker[w] \in Worker /\ worker \in [Workers -> Worker] /\ OutboxTypeOK /\ WorkerOK(w)
      /\ None \notin Events
  BY OutboxAssumption DEF WorkersInv, OutboxTypeOK, Events
<1>1. CASE processBatch(w)
  <2>1. PICK batch \in SUBSET Eligible :
          worker' = [worker EXCEPT ![w].phase = "lock", ![w].batch = batch]
    BY <1>1 DEF processBatch
  <2>2. worker' = [worker EXCEPT ![w] = [worker[w] EXCEPT !.phase = "lock", !.batch = batch]]
    BY <1>0, <2>1
  <2>3. worker'[w] = [worker[w] EXCEPT !.phase = "lock", !.batch = batch]
    BY <1>0, <2>2
  <2>4. worker'[w].phase = "lock" /\ worker'[w].event = None
    BY <1>0, <1>1, <2>3 DEF Worker, WorkerOK, processBatch
  <2>5. ~unlock(w)
    BY <1>1 DEF processBatch, unlock, At
  <2>6. QED
    BY <1>0, <1>1, <2>2, <2>4, <2>5 DEF processBatch, history
<1>2. CASE unlock(w)
  <2>1. worker[w].batch \in SUBSET Events
    BY <1>0 DEF Worker
  <2>2. NextEvent(w, worker[w].batch)
    BY <1>2 DEF unlock
  <2>3. QED
    BY <1>0, <1>2, <2>1, <2>2, NextEventEffect DEF unlock, history
<1>3. CASE crash(w) /\ ~unlock(w)
  <2>1. worker'[w] = Resting
    BY <1>0, <1>3 DEF crash
  <2>2. worker'[w].event = None /\ worker'[w].phase = "poll" /\ worker'[w].batch = {}
    BY <2>1 DEF Resting
  <2>3. QED
    BY <1>0, <1>3, <2>2 DEF crash
<1>4. QED
  BY <1>1, <1>2, <1>3

\* ... and it takes up the one it has locked.
LEMMA TakesEvent ==
  ASSUME WorkersInv, NEW w \in Workers, takeLock(w)
  PROVE  /\ \A v \in Workers \ {w} : worker'[v] = worker[v]
         /\ UNCHANGED <<overlapped.locks, notifications, outbox>>
         /\ worker'[w].phase # "create"
         /\ worker'[w].batch \subseteq worker[w].batch
         /\ None \notin Events
         /\ \/ /\ worker'[w].event = None /\ worker'[w].phase \in {"poll", "lock"}
               /\ UNCHANGED lock
            \/ /\ worker'[w].event \in worker[w].batch
               /\ worker'[w].event \notin lock
               /\ lock' = lock \cup {worker'[w].event}
<1>0. worker[w] \in Worker /\ worker \in [Workers -> Worker] /\ OutboxTypeOK
      /\ None \notin Events
  BY OutboxAssumption DEF WorkersInv, OutboxTypeOK, Events
<1>1. PICK e \in worker[w].batch :
          IF e \in lock THEN NextEvent(w, worker[w].batch \ {e}) /\ UNCHANGED lock
          ELSE /\ lock' = lock \cup {e}
               /\ worker' = [worker EXCEPT ![w] =
                    [Resting EXCEPT !.phase = "attempt", !.event = e, !.batch = worker[w].batch \ {e}]]
  BY DEF takeLock
<1>2. UNCHANGED <<overlapped.locks, notifications, outbox>>
  BY DEF takeLock, history
<1>3. CASE e \in lock
  <2>1. worker[w].batch \ {e} \in SUBSET Events
    BY <1>0 DEF Worker
  <2>2. NextEvent(w, worker[w].batch \ {e}) /\ UNCHANGED lock
    BY <1>1, <1>3
  <2>3. QED
    BY <1>0, <1>2, <2>1, <2>2, NextEventEffect
<1>4. CASE e \notin lock
  <2> DEFINE rest == worker[w].batch \ {e}
             k == [Resting EXCEPT !.phase = "attempt", !.event = e, !.batch = rest]
  <2>1. k.phase = "attempt" /\ k.event = e /\ k.batch = rest
    BY DEF Resting
  <2>2. worker' = [worker EXCEPT ![w] = k] /\ lock' = lock \cup {e}
    BY <1>1, <1>4
  <2> HIDE DEF k
  <2>3. worker'[w] = k /\ \A v \in Workers \ {w} : worker'[v] = worker[v]
    BY <1>0, <2>2
  <2>4. QED
    BY <1>0, <1>2, <1>4, <2>1, <2>2, <2>3
<1>5. QED
  BY <1>3, <1>4
-----------------------------------------------------------------------------
(* One worker at an event, one notification for it. *)

\* Nobody has an event at first.
LEMMA InitExclusive == Init => Exclusive
<1>1. None \notin Events /\ Resting.event = None
  BY OutboxAssumption DEF Events, Resting
<1>2. QED
  BY <1>1 DEF Init, Exclusive

\* A step keeps Exclusive.
LEMMA StepExclusive == WorkersInv /\ Exclusive /\ [Next]_vars => Exclusive'
<1> SUFFICES ASSUME WorkersInv, Exclusive, [Next]_vars PROVE Exclusive'
  OBVIOUS
<1>0. OutboxTypeOK /\ None \notin Events
  BY OutboxAssumption DEF WorkersInv, Events
<1>1. ASSUME NEW w \in Workers,
             \/ countAttempt(w) \/ checkHandler(w) \/ findNotification(w)
             \/ send(w) \/ deleteIndex(w) \/ readStore(w) \/ writeIndex(w) \/ markDone(w)
             \/ finish(w) \/ fail(w)
      PROVE  Exclusive'
  <2>1. /\ worker'[w].event = worker[w].event
        /\ worker'[w].phase = "create" => findNotification(w)
        /\ \A v \in Workers \ {w} : worker'[v] = worker[v]
        /\ UNCHANGED <<lock, overlapped.locks>>
    BY <1>1, WithinEvent
  <2>2. UNCHANGED notifications
    BY <1>1 DEF countAttempt, checkHandler, findNotification, send, deleteIndex, readStore,
                writeIndex, markDone, finish, fail
  <2>3. worker'[w].phase = "create" => notifications[worker[w].event] = 0
    <3>1. CASE findNotification(w)
      <4>1. notifications[worker[w].event] # 0 => Goto(w, "send") /\ "send" \in Phases
        BY <3>1 DEF findNotification, Phases
      <4>2. notifications[worker[w].event] # 0 => worker'[w].phase = "send"
        BY <1>0, <4>1, GotoEffect
      <4>3. QED
        BY <4>2
    <3>2. QED
      BY <2>1, <3>1
  <2>4. QED
    BY <2>1, <2>2, <2>3 DEF Exclusive
<1>2. ASSUME NEW w \in Workers, createNotification(w) PROVE Exclusive'
  <2> DEFINE e == worker[w].event
  <2>1. /\ worker'[w].event = e
        /\ \A v \in Workers \ {w} : worker'[v] = worker[v]
        /\ UNCHANGED <<lock, overlapped.locks>>
        /\ worker[w].phase = "create" /\ e \in Events
    BY <1>2, WithinEvent, Here DEF createNotification, At
  <2>2. worker'[w].phase = "send"
    <3>1. Goto(w, "send") /\ "send" \in Phases
      BY <1>2 DEF createNotification, Phases
    <3>2. QED
      BY <1>0, <3>1, GotoEffect
  <2>3. /\ notifications'[e] = notifications[e] + 1
        /\ \A d \in Events \ {e} : notifications'[d] = notifications[d]
    BY <1>0, <1>2, <2>1 DEF createNotification, OutboxTypeOK
  <2>4. ASSUME NEW d \in Events, d \notin overlapped.locks, d # e
        PROVE  /\ \A v \in Workers : worker'[v].event = d => d \in lock'
               /\ \A u, v \in Workers : worker'[u].event = d /\ worker'[v].event = d => u = v
               /\ notifications'[d] <= 1
               /\ \A v \in Workers :
                    worker'[v].event = d /\ worker'[v].phase = "create" => notifications'[d] = 0
    BY <2>1, <2>3, <2>4 DEF Exclusive
  <2>5. ASSUME e \notin overlapped.locks
        PROVE  /\ \A v \in Workers : worker'[v].event = e => e \in lock'
               /\ \A u, v \in Workers : worker'[u].event = e /\ worker'[v].event = e => u = v
               /\ notifications'[e] <= 1
               /\ \A v \in Workers : worker'[v].event = e => worker'[v].phase = "send"
    <3>1. \A v \in Workers : worker'[v].event = e => v = w
      BY <2>1, <2>5 DEF Exclusive
    <3>2. notifications[e] = 0 /\ e \in lock
      BY <2>1, <2>5 DEF Exclusive
    <3>3. QED
      BY <2>1, <2>2, <2>3, <3>1, <3>2
  <2>6. QED
    BY <2>1, <2>4, <2>5 DEF Exclusive
<1>3. ASSUME NEW w \in Workers, processBatch(w) \/ unlock(w) \/ crash(w) PROVE Exclusive'
  <2>1. /\ worker'[w].event = None
        /\ \A v \in Workers \ {w} : worker'[v] = worker[v]
        /\ UNCHANGED <<overlapped.locks, notifications>>
        /\ ~unlock(w) => UNCHANGED lock
        /\ unlock(w) => lock' = lock \ {worker[w].event}
    BY <1>3, BetweenEvents
  <2>2. CASE ~unlock(w)
    BY <1>0, <2>1, <2>2 DEF Exclusive
  <2>3. CASE unlock(w)
    <3>1. ASSUME NEW e \in Events, e \notin overlapped.locks, NEW v \in Workers, worker'[v].event = e
          PROVE  e \in lock'
      <4>1. v # w /\ worker[v].event = e
        BY <1>0, <2>1, <3>1
      <4>2. worker[w].event # e /\ e \in lock
        BY <3>1, <4>1 DEF Exclusive
      <4>3. QED
        BY <2>1, <2>3, <4>2
    <3>2. QED
      BY <1>0, <2>1, <3>1 DEF Exclusive
  <2>4. QED
    BY <2>2, <2>3
<1>4. ASSUME NEW w \in Workers, takeLock(w) PROVE Exclusive'
  <2>1. /\ \A v \in Workers \ {w} : worker'[v] = worker[v]
        /\ UNCHANGED <<overlapped.locks, notifications>>
        /\ worker'[w].phase # "create"
        /\ \/ worker'[w].event = None /\ UNCHANGED lock
           \/ worker'[w].event \notin lock /\ lock' = lock \cup {worker'[w].event}
    BY <1>4, TakesEvent
  <2>2. ASSUME NEW e \in Events, e \notin overlapped.locks, NEW v \in Workers \ {w},
               worker'[v].event = e
        PROVE  worker'[w].event # e
    BY <1>0, <2>1, <2>2 DEF Exclusive
  <2>3. QED
    BY <1>0, <2>1, <2>2 DEF Exclusive
<1>5. ASSUME NEW e \in Events, expireDead(e) \/ expireLive(e) PROVE Exclusive'
  <2>1. UNCHANGED <<worker, notifications>> /\ lock' = lock \ {e}
    BY <1>5 DEF expireDead, expireLive
  <2>2. CASE expireDead(e)
    BY <2>1, <2>2 DEF expireDead, history, Exclusive
  <2>3. CASE expireLive(e)
    <3>1. overlapped'.locks = overlapped.locks \cup {e}
      BY <1>0, <2>3 DEF expireLive, OutboxTypeOK
    <3>2. QED
      BY <2>1, <3>1 DEF Exclusive
  <2>4. QED
    BY <1>5, <2>2, <2>3
<1>6. CASE \/ PublishNotice \/ requestSearchRebuild
           \/ \E s \in StoreRequests : EditStore(s) \/ enqueueStoreSearchSync(s) \/ EditDies(s)
           \/ UNCHANGED vars
  <2>1. UNCHANGED <<worker, notifications, lock, overlapped>>
    BY <1>6 DEF PublishNotice, requestSearchRebuild, EditStore, enqueueStoreSearchSync, EditDies,
                vars, queueVars, history
  <2>2. QED
    BY <2>1 DEF Exclusive
<1>7. QED
  BY <1>1, <1>2, <1>3, <1>4, <1>5, <1>6 DEF Next, processEvent

\* The find before the insert is enough, whatever fails and crashes: an event
\* whose lock never expired under a worker has one notification at the most.
THEOREM NotifiedOnce == Spec => []OneNotification
<1>1. Exclusive => OneNotification
  BY DEF Exclusive, OneNotification
<1>2. WorkersInv /\ Exclusive /\ [Next]_vars => (WorkersInv /\ Exclusive)'
  BY StepWorkersInv, StepExclusive
<1>3. QED
  BY <1>1, <1>2, InitWorkersInv, InitExclusive, PTL DEF Spec
-----------------------------------------------------------------------------
(* Attempts. *)

\* Workers are finitely many, and so are those pending.
LEMMA PendingCount ==
  ASSUME NEW S, S \subseteq Workers
  PROVE  IsFiniteSet(S) /\ Cardinality(S) \in Nat /\ Cardinality(S) <= Cardinality(Workers)
         /\ Cardinality(Workers) \in Nat
BY OutboxAssumption, FS_Subset, FS_CardinalityType

\* An event that keeps its attempts while no worker becomes pending stays paid for.
LEMMA StaysPrepaid ==
  ASSUME OutboxTypeOK, Prepaid, NEW e \in Events, outbox[e] # None,
         outbox'[e].attempts = outbox[e].attempts,
         \A v \in Workers : Pending(v, e)' => Pending(v, e)
  PROVE  outbox'[e].attempts + Cardinality({v \in Workers : Pending(v, e)'})
           <= MaxAttempts - 1 + Cardinality(Workers)
<1> DEFINE S == {v \in Workers : Pending(v, e)}
           T == {v \in Workers : Pending(v, e)'}
<1>1. T \subseteq S /\ S \subseteq Workers
  OBVIOUS
<1>2. IsFiniteSet(S) /\ Cardinality(S) \in Nat /\ Cardinality(T) \in Nat /\ Cardinality(Workers) \in Nat
  BY <1>1, PendingCount
<1>3. Cardinality(T) <= Cardinality(S)
  BY <1>1, <1>2, FS_Subset
<1>4. outbox[e].attempts + Cardinality(S) <= MaxAttempts - 1 + Cardinality(Workers)
  BY DEF Prepaid
<1>5. outbox[e].attempts \in Nat /\ MaxAttempts \in Nat
  BY OutboxAssumption DEF OutboxTypeOK, EventRow
<1> HIDE DEF S, T
<1>6. QED
  BY <1>2, <1>3, <1>4, <1>5 DEF S, T

\* Nothing is published at first.
LEMMA InitPrepaid == Init => Prepaid
BY DEF Init, Prepaid

\* What a step does to the attempts of an event that was published before.
LEMMA StepPrepaid == WorkersInv /\ Prepaid /\ [Next]_vars => Prepaid'
<1> SUFFICES ASSUME WorkersInv, Prepaid, [Next]_vars, NEW e \in Events, outbox'[e] # None
             PROVE  outbox'[e].attempts + Cardinality({v \in Workers : Pending(v, e)'})
                      <= MaxAttempts - 1 + Cardinality(Workers)
  BY DEF Prepaid
<1> DEFINE T == {v \in Workers : Pending(v, e)'}
           S == {v \in Workers : Pending(v, e)}
<1>0. /\ OutboxTypeOK
      /\ MaxAttempts \in Nat /\ MaxAttempts > 0
      /\ T \subseteq Workers /\ S \subseteq Workers
      /\ Cardinality(T) \in Nat /\ Cardinality(T) <= Cardinality(Workers)
      /\ Cardinality(Workers) \in Nat
  BY OutboxAssumption, PendingCount DEF WorkersInv
<1>1. ASSUME NEW w \in Workers, countAttempt(w)
      PROVE  outbox'[e].attempts + Cardinality(T) <= MaxAttempts - 1 + Cardinality(Workers)
  <2> DEFINE d == worker[w].event
             row == [kind |-> outbox[d].kind, attempts |-> outbox[d].attempts + 1,
                     processed |-> outbox[d].processed]
  <2>1. /\ worker'[w].event = d
        /\ worker'[w].batch = worker[w].batch
        /\ worker'[w].phase # "attempt"
        /\ \A v \in Workers \ {w} : worker'[v] = worker[v]
        /\ worker[w].phase = "attempt" /\ d \notin worker[w].batch
        /\ d \in Events /\ outbox[d] \in EventRow
    BY <1>1, WithinEvent, Here DEF countAttempt, At, WorkerOK
  <2>2. outbox' = [outbox EXCEPT ![d] = row]
    BY <1>1, CountsAttempt
  <2>3. row.attempts = outbox[d].attempts + 1
    OBVIOUS
  <2> HIDE DEF row
  <2>4. \A v \in Workers : Pending(v, e)' => Pending(v, e)
    BY <2>1 DEF Pending
  <2>5. CASE e # d
    <3>1. outbox'[e] = outbox[e]
      BY <1>0, <2>1, <2>2, <2>5 DEF OutboxTypeOK
    <3>2. QED
      BY <1>0, <2>4, <3>1, StaysPrepaid
  <2>6. CASE e = d
    <3>1. T = S \ {w} /\ w \in S
      BY <2>1, <2>6 DEF Pending
    <3>2. IsFiniteSet(S) /\ Cardinality(S) \in Nat
      BY <1>0, PendingCount
    <3>3. Cardinality(T) = Cardinality(S) - 1
      BY <3>1, <3>2, FS_RemoveElement
    <3>4. outbox[e] # None /\ outbox[e].attempts \in Nat
      BY <2>1, <2>6, OutboxAssumption DEF EventRow
    <3>5. outbox[e].attempts + Cardinality(S) <= MaxAttempts - 1 + Cardinality(Workers)
      BY <3>4 DEF Prepaid
    <3>6. outbox'[e].attempts = outbox[e].attempts + 1
      BY <1>0, <2>1, <2>2, <2>3, <2>6 DEF OutboxTypeOK
    <3> HIDE DEF S, T
    <3>7. QED
      BY <1>0, <3>2, <3>3, <3>4, <3>5, <3>6
  <2>7. QED
    BY <2>5, <2>6
<1>2. ASSUME NEW w \in Workers,
             \/ checkHandler(w) \/ findNotification(w) \/ createNotification(w) \/ send(w)
             \/ deleteIndex(w) \/ readStore(w) \/ writeIndex(w) \/ markDone(w) \/ fail(w)
      PROVE  outbox'[e].attempts + Cardinality(T) <= MaxAttempts - 1 + Cardinality(Workers)
  <2>1. UNCHANGED outbox
    BY <1>2 DEF checkHandler, findNotification, createNotification, send, deleteIndex, readStore,
                writeIndex, markDone, fail
  <2>2. \A v \in Workers : Pending(v, e)' => Pending(v, e)
    BY <1>2, WithinEvent DEF Pending
  <2>3. QED
    BY <1>0, <2>1, <2>2, StaysPrepaid
<1>3. ASSUME NEW w \in Workers, finish(w)
      PROVE  outbox'[e].attempts + Cardinality(T) <= MaxAttempts - 1 + Cardinality(Workers)
  <2> DEFINE d == worker[w].event
             row == [kind |-> outbox[d].kind, attempts |-> outbox[d].attempts, processed |-> TRUE]
  <2>1. outbox' = [outbox EXCEPT ![d] = row] /\ d \in Events /\ outbox[d] # None
    BY <1>3, Finishes, Here, OutboxAssumption DEF finish, At
  <2>2. row.attempts = outbox[d].attempts
    OBVIOUS
  <2> HIDE DEF row
  <2>3. outbox[e] # None /\ outbox'[e].attempts = outbox[e].attempts
    BY <1>0, <2>1, <2>2 DEF OutboxTypeOK
  <2>4. \A v \in Workers : Pending(v, e)' => Pending(v, e)
    BY <1>3, WithinEvent DEF Pending
  <2>5. QED
    BY <1>0, <2>3, <2>4, StaysPrepaid
<1>4. ASSUME NEW w \in Workers, unlock(w) \/ crash(w) \/ takeLock(w)
      PROVE  outbox'[e].attempts + Cardinality(T) <= MaxAttempts - 1 + Cardinality(Workers)
  <2>1. UNCHANGED outbox
    BY <1>4 DEF unlock, crash, takeLock
  <2>2. \A v \in Workers : Pending(v, e)' => Pending(v, e)
    <3>1. CASE takeLock(w)
      <4>1. /\ \A v \in Workers \ {w} : worker'[v] = worker[v]
            /\ worker'[w].batch \subseteq worker[w].batch
            /\ worker'[w].event \in worker[w].batch \/ worker'[w].phase \in {"poll", "lock"}
        BY <3>1, TakesEvent
      <4>2. Pending(w, e)' => Pending(w, e)
        BY <4>1 DEF Pending
      <4>3. QED
        BY <4>1, <4>2 DEF Pending
    <3>2. CASE (unlock(w) \/ crash(w)) /\ ~processBatch(w)
      BY <3>2, BetweenEvents DEF Pending
    <3>3. ~(processBatch(w) /\ (unlock(w) \/ crash(w)))
      BY DEF processBatch, unlock, crash, At
    <3>4. QED
      BY <1>4, <3>1, <3>2, <3>3
  <2>3. QED
    BY <1>0, <2>1, <2>2, StaysPrepaid
<1>5. ASSUME NEW w \in Workers, processBatch(w)
      PROVE  outbox'[e].attempts + Cardinality(T) <= MaxAttempts - 1 + Cardinality(Workers)
  <2>1. UNCHANGED outbox /\ worker'[w].event = None
        /\ \A v \in Workers \ {w} : worker'[v] = worker[v]
    BY <1>5, BetweenEvents DEF processBatch
  <2>2. PICK batch \in SUBSET Eligible :
          worker' = [worker EXCEPT ![w].phase = "lock", ![w].batch = batch]
    BY <1>5 DEF processBatch
  <2>3. worker'[w].batch = batch /\ worker'[w].phase # "attempt"
    <3>1. worker[w] \in Worker /\ worker \in [Workers -> Worker]
      BY <1>0 DEF OutboxTypeOK
    <3>2. worker'[w] = [worker[w] EXCEPT !.phase = "lock", !.batch = batch]
      BY <2>2, <3>1
    <3>3. QED
      BY <3>1, <3>2 DEF Worker
  <2>4. CASE e \in batch
    <3>1. outbox[e] \in EventRow /\ outbox[e].attempts < MaxAttempts
      BY <1>0, <2>4 DEF Eligible, Unprocessed, OutboxTypeOK
    <3>2. outbox'[e].attempts \in Nat /\ outbox'[e].attempts < MaxAttempts
      BY <2>1, <3>1 DEF EventRow
    <3> HIDE DEF T
    <3>3. QED
      BY <1>0, <3>2
  <2>5. CASE e \notin batch
    <3>1. \A v \in Workers : Pending(v, e)' => Pending(v, e)
      BY <2>1, <2>3, <2>5 DEF Pending
    <3>2. QED
      BY <1>0, <2>1, <3>1, StaysPrepaid
  <2>6. QED
    BY <2>4, <2>5
<1>6. CASE \/ PublishNotice \/ requestSearchRebuild
           \/ \E s \in StoreRequests : EditStore(s) \/ enqueueStoreSearchSync(s) \/ EditDies(s)
           \/ \E d \in Events : expireDead(d) \/ expireLive(d)
           \/ UNCHANGED vars
  <2>1. UNCHANGED worker
    BY <1>6, OutsideStep
  <2>2. \A v \in Workers : Pending(v, e)' => Pending(v, e)
    BY <2>1 DEF Pending
  <2>3. UNCHANGED outbox \/ \E kind \in Kinds : Publish(kind)
    BY <1>6 DEF PublishNotice, requestSearchRebuild, EditStore, enqueueStoreSearchSync, EditDies,
                expireDead, expireLive, vars, queueVars, Kinds
  <2>4. CASE UNCHANGED outbox
    BY <1>0, <2>2, <2>4, StaysPrepaid
  <2>5. CASE \E kind \in Kinds : Publish(kind)
    <3>1. PICK kind \in Kinds : Publish(kind)
      BY <2>5
    <3>2. PICK d \in Events :
             /\ outbox[d] = None
             /\ outbox'[d] = [kind |-> kind, attempts |-> 0, processed |-> FALSE]
             /\ \A f \in Events \ {d} : outbox'[f] = outbox[f]
      BY <1>0, <3>1, PublishEffect
    <3>3. CASE e = d
      <4>1. outbox'[e].attempts = 0
        <5>1. \A n \in Nat, b \in BOOLEAN :
                [kind |-> kind, attempts |-> n, processed |-> b].attempts = n
          OBVIOUS
        <5>2. QED
          BY <3>2, <3>3, <5>1
      <4>2. 0 + Cardinality(T) <= MaxAttempts - 1 + Cardinality(Workers)
        <5> HIDE DEF T
        <5>1. QED
          BY <1>0
      <4>3. QED
        BY <4>1, <4>2
    <3>4. CASE e # d
      <4>1. outbox'[e] = outbox[e]
        BY <3>2, <3>4
      <4>2. QED
        BY <1>0, <2>2, <4>1, StaysPrepaid
    <3>5. QED
      BY <3>3, <3>4
  <2>6. QED
    BY <2>3, <2>4, <2>5
<1>7. QED
  BY <1>1, <1>2, <1>3, <1>4, <1>5, <1>6 DEF Next, processEvent

\* Attempts are bounded though they are counted without a look at the bound:
\* beyond it only by workers that polled the event while it was below.
THEOREM AttemptsAreBounded == Spec => []AttemptsBounded
<1>1. WorkersInv /\ Prepaid => AttemptsBounded
  <2> SUFFICES ASSUME WorkersInv, Prepaid, NEW e \in Events, outbox[e] # None
               PROVE  outbox[e].attempts <= MaxAttempts - 1 + Cardinality(Workers)
    BY DEF AttemptsBounded
  <2> DEFINE S == {v \in Workers : Pending(v, e)}
  <2>1. outbox[e].attempts + Cardinality(S) <= MaxAttempts - 1 + Cardinality(Workers)
    BY DEF Prepaid
  <2>2. S \subseteq Workers
    OBVIOUS
  <2>3. Cardinality(S) \in Nat /\ Cardinality(Workers) \in Nat
    BY <2>2, PendingCount
  <2>4. outbox[e].attempts \in Nat /\ MaxAttempts \in Nat
    BY OutboxAssumption DEF WorkersInv, OutboxTypeOK, EventRow
  <2> HIDE DEF S
  <2>5. QED
    BY <2>1, <2>3, <2>4
<1>2. WorkersInv /\ Prepaid /\ [Next]_vars => (WorkersInv /\ Prepaid)'
  BY StepWorkersInv, StepPrepaid
<1>3. QED
  BY <1>1, <1>2, InitWorkersInv, InitPrepaid, PTL DEF Spec
-----------------------------------------------------------------------------
(***************************************************************************)
(* The search document, for any number of workers, events and requests.    *)
(*                                                                         *)
(* As long as the behaviour is Clean, one worker at most is about to write *)
(* the index, and the index is Shown: it shows the store, or a rebuild has *)
(* dropped it and is still to fill it.  Unless somebody owes it a write: a *)
(* request between its edit and its event, or an event of an edit whose    *)
(* worker has not read the store, or has read it as it is (Owing).  An     *)
(* edit puts its request in debt, the request leaves the debt to its       *)
(* event, and the event's done key is set only after the write.  A rating  *)
(* changes nothing that has to be shown.                                   *)
(***************************************************************************)

\* An event that the handler of search is for, and whether it is done with it.
Syncs(e) == outbox[e] # None /\ outbox[e].kind # "notice"
Marked(e) == <<e, "search">> \in done

Clean ==
  /\ ~lost /\ ~overlapped.index
  /\ \A e \in Events : Syncs(e) => e \notin overlapped.locks

MarkedInv ==
  /\ \A e \in Events : Marked(e) => outbox[e] # None
  /\ \A e \in Events : Syncs(e) /\ outbox[e].processed => Marked(e)
  /\ \A w \in Workers :
       worker[w].phase = "finish" /\ Syncs(worker[w].event) => Marked(worker[w].event)
  /\ \A w \in Workers :
       worker[w].phase = "drop" => outbox[worker[w].event].kind = "rebuild"

Writing == {"drop", "read", "write", "mark"}

SyncInv ==
  /\ \A w \in Workers :
       worker[w].phase \in Writing /\ Syncs(worker[w].event) => ~Marked(worker[w].event)
  /\ \A v, w \in Workers : worker[v].phase = "write" /\ worker[w].phase = "write" => v = w

Unwritten(e) ==
  /\ Syncs(e) /\ ~Marked(e)
  /\ \A w \in Workers : worker[w].event = e => worker[w].phase # "mark"

Owed(e) ==
  /\ Unwritten(e) /\ outbox[e].kind = "store"
  /\ \A w \in Workers :
       worker[w].event = e /\ worker[w].phase = "write" => Shows(worker[w].seen)

Enqueuing == \E s \in StoreRequests : Holds(s, "enqueue")
Owing == Enqueuing \/ \E e \in Events : Owed(e)

Dropped == index = None /\ \E e \in Events : Unwritten(e) /\ outbox[e].kind = "rebuild"
Shown ==
  /\ Shows(index) \/ Dropped
  /\ \A w \in Workers : worker[w].phase = "write" => Shows(worker[w].seen)

\* Shows, in the state after a step, of a document that is known before it.
ShowsAfter(d) == IF rated' THEN Unrated(d) = Unrated(Document') ELSE d = Document'

LEMMA OwedAfter ==
  ASSUME NEW e
  PROVE  Owed(e)' <=>
           /\ Unwritten(e)' /\ outbox'[e].kind = "store"
           /\ \A w \in Workers :
                worker'[w].event = e /\ worker'[w].phase = "write" => ShowsAfter(worker'[w].seen)
BY DEF Owed, Shows, ShowsAfter

LEMMA ShownAfter ==
  Shown' <=> /\ ShowsAfter(index') \/ Dropped'
             /\ \A w \in Workers :
                  worker'[w].phase = "write" => ShowsAfter(worker'[w].seen)
BY DEF Shown, Shows, ShowsAfter

FreshInv == MarkedInv /\ (Clean => SyncInv /\ (Owing \/ Shown))
-----------------------------------------------------------------------------
\* Where a worker is that does not write the index.
Apart(w) ==
  LET k == worker[w] IN
    /\ k.phase # "write"
    /\ k.phase = "drop" => outbox[k.event].kind = "rebuild"
    /\ k.phase \in {"drop", "read"} => ~Marked(k.event)
    /\ k.phase = "mark" => ~Syncs(k.event)
    /\ k.phase = "finish" /\ Syncs(k.event) => Marked(k.event)

\* Events keep their rows and kinds.
SameRows ==
  \A d \in Events :
    /\ outbox'[d] = None <=> outbox[d] = None
    /\ outbox[d] # None => outbox'[d].kind = outbox[d].kind

\* Done keys stay, and the worker that has to sets its event's.
Marks(w) ==
  /\ done \subseteq done'
  /\ \A e \in Events : <<e, "search">> \in done' =>
       <<e, "search">> \in done \/ (e = worker[w].event /\ worker[w].phase = "mark")

\* What a step of a worker does to the rows.
LEMMA RowsKept ==
  ASSUME WorkersInv, NEW w \in Workers, processBatch(w) \/ processEvent(w) \/ fail(w) \/ crash(w)
  PROVE  /\ SameRows
         /\ \A d \in Events : outbox[d] # None =>
              (outbox'[d].processed => outbox[d].processed) \/ (finish(w) /\ d = worker[w].event)
<1>0. outbox \in [Events -> EventRow \cup {None}] /\ None \notin EventRow
  BY OutboxAssumption DEF WorkersInv, OutboxTypeOK
<1>1. ASSUME NEW e \in Events, outbox[e] # None, NEW row \in EventRow, row.kind = outbox[e].kind,
             outbox' = [outbox EXCEPT ![e] = row]
      PROVE  SameRows /\ outbox'[e] = row /\ \A d \in Events \ {e} : outbox'[d] = outbox[d]
  BY <1>0, <1>1 DEF SameRows
<1>2. CASE countAttempt(w)
  <2> DEFINE e == worker[w].event
             row == [kind |-> outbox[e].kind, attempts |-> outbox[e].attempts + 1,
                     processed |-> outbox[e].processed]
  <2>1. e \in Events /\ outbox[e] \in EventRow /\ outbox[e] # None
    BY <1>0, <1>2, Here DEF countAttempt, At
  <2>2. row \in EventRow /\ row.kind = outbox[e].kind /\ row.processed = outbox[e].processed
    BY <2>1 DEF EventRow
  <2>3. outbox' = [outbox EXCEPT ![e] = row]
    BY <1>2, CountsAttempt
  <2> HIDE DEF row, e
  <2>4. SameRows /\ outbox'[e] = row /\ \A d \in Events \ {e} : outbox'[d] = outbox[d]
    BY <1>1, <2>1, <2>2, <2>3
  <2>5. QED
    BY <2>2, <2>4
<1>3. CASE finish(w)
  <2> DEFINE e == worker[w].event
             row == [kind |-> outbox[e].kind, attempts |-> outbox[e].attempts, processed |-> TRUE]
  <2>1. e \in Events /\ outbox[e] \in EventRow /\ outbox[e] # None
    BY <1>0, <1>3, Here DEF finish, At
  <2>2. row \in EventRow /\ row.kind = outbox[e].kind
    BY <2>1 DEF EventRow
  <2>3. outbox' = [outbox EXCEPT ![e] = row]
    BY <1>3, Finishes
  <2> HIDE DEF row
  <2>4. SameRows /\ outbox'[e] = row /\ \A d \in Events \ {e} : outbox'[d] = outbox[d]
    BY <1>1, <2>1, <2>2, <2>3
  <2>5. QED
    BY <1>3, <2>4
<1>4. CASE UNCHANGED outbox
  <2>1. SameRows
    BY <1>4 DEF SameRows
  <2>2. QED
    BY <1>4, <2>1
<1>5. QED
  BY <1>2, <1>3, <1>4 DEF processBatch, processEvent, takeLock, checkHandler, findNotification,
                          createNotification, send, deleteIndex, readStore, writeIndex, markDone,
                          unlock, fail, crash

\* Steps of a worker that do not write the index.
LEMMA ApartStep ==
  ASSUME WorkersInv, Exclusive, FreshInv, NEW w \in Workers, WorkersInv',
         \A v \in Workers \ {w} : worker'[v] = worker[v],
         UNCHANGED <<index, store, rated, storeRequest, lost, overlapped>>,
         SameRows,
         \A d \in Events : Syncs(d) /\ outbox'[d].processed => outbox[d].processed \/ Marked(d),
         Marks(w),
         Apart(w)'
  PROVE  FreshInv'
<1>1. \A d \in Events : Syncs(d)' <=> Syncs(d)
  BY DEF SameRows, Syncs
<1>2. \A v \in Workers : worker[v].phase \notin {"poll", "lock"} =>
        worker[v].event \in Events /\ outbox[worker[v].event] # None
  BY DEF WorkersInv, WorkerOK
<1>3. \A v \in Workers : worker'[v].phase \notin {"poll", "lock"} => worker'[v].event \in Events
  BY DEF WorkersInv, WorkerOK
<1>4. Clean' => Clean
  BY <1>1 DEF Clean
<1>5. \A d : ShowsAfter(d) <=> Shows(d)
  BY DEF Shows, ShowsAfter, Document
<1>6. MarkedInv'
  <2>1. ASSUME NEW e \in Events, Marked(e)' PROVE outbox'[e] # None
    BY <1>2, <2>1 DEF FreshInv, MarkedInv, SameRows, Marks, Marked
  <2>2. ASSUME NEW e \in Events, Syncs(e)', outbox'[e].processed PROVE Marked(e)'
    BY <1>1, <2>2 DEF FreshInv, MarkedInv, Marks, Marked
  <2>3. ASSUME NEW v \in Workers, worker'[v].phase = "finish", Syncs(worker[v].event)'
        PROVE  Marked(worker[v].event)'
    <3>1. CASE v = w
      BY <2>3, <3>1 DEF Apart
    <3>2. CASE v # w
      BY <1>1, <1>2, <2>3, <3>2 DEF FreshInv, MarkedInv, Marks, Marked
    <3>3. QED
      BY <3>1, <3>2
  <2>4. ASSUME NEW v \in Workers, worker'[v].phase = "drop"
        PROVE  outbox'[worker'[v].event].kind = "rebuild"
    <3>1. CASE v = w
      BY <2>4, <3>1 DEF Apart
    <3>2. CASE v # w
      BY <1>2, <2>4, <3>2 DEF FreshInv, MarkedInv, SameRows
    <3>3. QED
      BY <3>1, <3>2
  <2>5. QED
    BY <2>1, <2>2, <2>3, <2>4 DEF MarkedInv
<1>7. ASSUME Clean' PROVE SyncInv'
  <2>0. SyncInv
    BY <1>4, <1>7 DEF FreshInv
  <2>1. ASSUME NEW v \in Workers, worker'[v].phase \in Writing, Syncs(worker[v].event)'
        PROVE  ~Marked(worker[v].event)'
    <3>1. CASE v = w
      BY <2>1, <3>1 DEF Apart, Writing
    <3>2. CASE v # w
      <4>1. worker'[v] = worker[v] /\ worker[v].event \in Events /\ Syncs(worker[v].event)
        BY <1>1, <1>2, <2>1, <3>2 DEF Writing
      <4>2. ~Marked(worker[v].event)
        BY <2>0, <2>1, <4>1 DEF SyncInv
      <4>3. worker[w].event # worker[v].event
        BY <1>4, <1>7, <3>2, <4>1 DEF Clean, Exclusive
      <4>4. QED
        BY <4>1, <4>2, <4>3 DEF Marks, Marked
    <3>3. QED
      BY <3>1, <3>2
  <2>2. \A v \in Workers : worker'[v].phase = "write" => v # w /\ worker[v].phase = "write"
    BY DEF Apart
  <2>3. QED
    BY <2>0, <2>1, <2>2 DEF SyncInv
<1>8. ASSUME Clean' PROVE (Owing \/ Shown)'
  <2>1. Owing \/ Shown
    BY <1>4, <1>8 DEF FreshInv
  <2>2. CASE Enqueuing
    BY <2>2 DEF Owing, Enqueuing, Holds
  <2>3. ASSUME NEW e \in Events, Unwritten(e)
        PROVE  Unwritten(e)' /\ outbox'[e].kind = outbox[e].kind
    <3>1. Syncs(e)' /\ outbox'[e].kind = outbox[e].kind /\ ~Marked(e)'
      BY <1>1, <2>3 DEF SameRows, Syncs, Unwritten, Marks, Marked
    <3>2. \A v \in Workers : worker'[v].event = e => worker'[v].phase # "mark"
      BY <2>3, <3>1 DEF Unwritten, Apart
    <3>3. QED
      BY <3>1, <3>2 DEF Unwritten
  <2>4. ASSUME NEW e \in Events, Owed(e) PROVE Owed(e)'
    <3>1. \A v \in Workers : worker'[v].phase = "write" => v # w /\ worker'[v] = worker[v]
      BY DEF Apart
    <3>2. QED
      BY <1>5, <2>3, <2>4, <3>1, OwedAfter DEF Owed
  <2>5. CASE Shown
    <3>1. \A v \in Workers : worker'[v].phase = "write" => v # w /\ worker'[v] = worker[v]
      BY DEF Apart
    <3>2. Dropped => Dropped'
      BY <2>3 DEF Dropped
    <3>3. QED
      BY <1>5, <2>5, <3>1, <3>2, ShownAfter DEF Shown
  <2>6. QED
    BY <2>1, <2>2, <2>4, <2>5 DEF Owing
<1>9. QED
  BY <1>6, <1>7, <1>8 DEF FreshInv

\* A handler's channel is one of its event's.
LEMMA ChannelIs ==
  ASSUME WorkersInv, NEW w \in Workers, worker[w].phase \in Handling
  PROVE  /\ worker[w].event \in Events /\ outbox[worker[w].event] # None
         /\ worker[w].channel \in Channels
         /\ Syncs(worker[w].event) <=> worker[w].channel = "search"
<1>1. /\ worker[w].event \in Events /\ outbox[worker[w].event] \in EventRow
      /\ outbox[worker[w].event] # None
      /\ worker[w].channel \in Targets[outbox[worker[w].event].kind]
      /\ worker[w] \in Worker
  BY OutboxAssumption, Here DEF WorkerOK, Handling
<1>2. outbox[worker[w].event].kind \in Kinds /\ worker[w].channel \in Channels
  BY <1>1 DEF EventRow, Worker
<1>3. Targets[outbox[worker[w].event].kind]
        = IF outbox[worker[w].event].kind = "notice" THEN {"notification", "realtime"} ELSE {"search"}
  BY <1>2 DEF Targets
<1>4. QED
  BY <1>1, <1>2, <1>3 DEF Syncs

\* Where the steps that do not write the index lead.
LEMMA LeadsApart ==
  ASSUME WorkersInv, FreshInv, NEW w \in Workers,
         \/ processBatch(w) \/ takeLock(w) \/ countAttempt(w) \/ checkHandler(w)
         \/ findNotification(w) \/ createNotification(w) \/ send(w) \/ markDone(w)
         \/ finish(w) \/ fail(w) \/ unlock(w) \/ crash(w)
  PROVE  /\ \A v \in Workers \ {w} : worker'[v] = worker[v]
         /\ Marks(w)
         /\ Apart(w)'
<1>0. worker[w] \in Worker /\ worker \in [Workers -> Worker] /\ OutboxTypeOK
  BY DEF WorkersInv, OutboxTypeOK
<1>1. ASSUME UNCHANGED done, \A v \in Workers \ {w} : worker'[v] = worker[v],
             worker'[w].phase \in {"poll", "lock", "attempt", "check", "find", "create", "send",
                                   "publish", "unlock"}
      PROVE  /\ \A v \in Workers \ {w} : worker'[v] = worker[v]
             /\ Marks(w)
             /\ Apart(w)'
  <2>1. Apart(w)'
    BY <1>1 DEF Apart
  <2>2. Marks(w)
    BY <1>1 DEF Marks
  <2>3. QED
    BY <1>1, <2>1, <2>2
<1>2. CASE processBatch(w) \/ unlock(w) \/ crash(w)
  <2>1. UNCHANGED done
    BY <1>2 DEF processBatch, unlock, crash
  <2>2. QED
    BY <1>1, <1>2, <2>1, BetweenEvents
<1>3. CASE takeLock(w)
  <2>1. UNCHANGED done
    BY <1>3 DEF takeLock
  <2>2. worker'[w].phase \in {"poll", "lock", "attempt"}
    <3>1. PICK e \in worker[w].batch :
            \/ NextEvent(w, worker[w].batch \ {e})
            \/ worker' = [worker EXCEPT ![w] =
                 [Resting EXCEPT !.phase = "attempt", !.event = e, !.batch = worker[w].batch \ {e}]]
      BY <1>3 DEF takeLock
    <3>2. worker[w].batch \ {e} \in SUBSET Events
      BY <1>0 DEF Worker
    <3>3. [Resting EXCEPT !.phase = "attempt", !.event = e, !.batch = worker[w].batch \ {e}].phase
            = "attempt"
      BY DEF Resting
    <3>4. QED
      BY <1>0, <3>1, <3>2, <3>3, NextEventEffect
  <2>3. QED
    BY <1>1, <1>3, <2>1, <2>2, TakesEvent
<1>4. CASE countAttempt(w)
  <2>1. worker'[w].phase = "check" /\ UNCHANGED done
    BY <1>0, <1>4 DEF countAttempt, Worker
  <2>2. QED
    BY <1>1, <1>4, <2>1, WithinEvent
<1>5. ASSUME NEW phase \in {"find", "create", "send", "publish", "unlock"}, Goto(w, phase), UNCHANGED done
      PROVE  /\ \A v \in Workers \ {w} : worker'[v] = worker[v]
             /\ Marks(w)
             /\ Apart(w)'
  <2>1. phase \in Phases
    BY DEF Phases
  <2>2. worker'[w].phase = phase /\ \A v \in Workers \ {w} : worker'[v] = worker[v]
    BY <1>0, <1>5, <2>1, GotoEffect
  <2>3. QED
    BY <1>1, <1>5, <2>2
<1>6. CASE findNotification(w) \/ createNotification(w) \/ finish(w)
  <2>1. PICK phase \in {"create", "send", "unlock"} : Goto(w, phase)
    BY <1>6 DEF findNotification, createNotification, finish
  <2>2. UNCHANGED done
    BY <1>6 DEF findNotification, createNotification, finish
  <2>3. QED
    BY <1>5, <2>1, <2>2
<1>7. CASE fail(w)
  <2>1. worker'[w].phase = "unlock" /\ UNCHANGED done
    BY <1>0, <1>7 DEF fail, Worker
  <2>2. QED
    BY <1>1, <1>7, <2>1, WithinEvent
<1>8. CASE send(w)
  <2>1. /\ worker[w].phase \in {"send", "publish"} /\ worker[w].phase \in Handling
        /\ worker[w].channel # "search" /\ WorkerOK(w)
    BY <1>8 DEF send, At, Handling, WorkersInv, WorkerOK
  <2>2. ~Syncs(worker[w].event)
    BY <2>1, ChannelIs
  <2>3. UNCHANGED <<outbox, done>> /\ Goto(w, "mark") /\ "mark" \in Phases
    BY <1>8 DEF send, Phases
  <2>4. /\ worker'[w].phase = "mark" /\ worker'[w].event = worker[w].event
        /\ \A v \in Workers \ {w} : worker'[v] = worker[v]
    BY <1>0, <2>3, GotoEffect
  <2>5. Apart(w)'
    BY <2>2, <2>3, <2>4 DEF Apart, Syncs
  <2>6. Marks(w)
    BY <2>3 DEF Marks
  <2>7. QED
    BY <2>4, <2>5, <2>6
<1>9. ASSUME NextHandler(w), worker[w].phase \in {"check", "mark"}, UNCHANGED outbox,
             <<worker[w].event, worker[w].channel>> \in done'
      PROVE  Apart(w)' /\ \A v \in Workers \ {w} : worker'[v] = worker[v]
  <2>1. /\ IF worker[w].channel = "notification" THEN worker'[w].phase = "check"
           ELSE worker'[w].phase = "finish"
        /\ worker'[w].event = worker[w].event
        /\ \A v \in Workers \ {w} : worker'[v] = worker[v]
    BY <1>0, <1>9, NextHandlerEffect
  <2>2. Syncs(worker[w].event) <=> worker[w].channel = "search"
    BY <1>9, ChannelIs DEF Handling
  <2>3. Syncs(worker[w].event)' => Syncs(worker[w].event)
    BY <1>9, <2>1 DEF Syncs
  <2>4. Syncs(worker[w].event) => Marked(worker[w].event)'
    BY <1>9, <2>1, <2>2 DEF Marked
  <2>5. QED
    BY <2>1, <2>3, <2>4 DEF Apart
<1>10. CASE markDone(w)
  <2>1. /\ NextHandler(w) /\ worker[w].phase = "mark" /\ UNCHANGED outbox
        /\ done' = done \cup {<<worker[w].event, worker[w].channel>>}
    BY <1>10 DEF markDone, At
  <2>2. Marks(w)
    BY <2>1 DEF Marks
  <2>3. QED
    BY <1>9, <2>1, <2>2
<1>11. CASE checkHandler(w)
  <2>1. worker[w].phase = "check" /\ UNCHANGED <<outbox, done>>
    BY <1>11 DEF checkHandler, At
  <2>0. Marks(w)
    BY <2>1 DEF Marks
  <2>2. CASE AlreadyDone(worker[w].event, worker[w].channel)
    <3>1. NextHandler(w) /\ <<worker[w].event, worker[w].channel>> \in done'
      BY <1>11, <2>1, <2>2 DEF checkHandler, AlreadyDone
    <3>2. QED
      BY <1>9, <2>0, <2>1, <3>1
  <2>3. CASE ~AlreadyDone(worker[w].event, worker[w].channel)
    <3> DEFINE phase == FirstPhase(outbox[worker[w].event].kind, worker[w].channel)
    <3>1. Goto(w, phase)
      BY <1>11, <2>3 DEF checkHandler
    <3>2. worker[w].channel \in Channels
      BY <1>0 DEF Worker
    <3>3. CASE worker[w].channel # "search"
      <4>1. phase \in {"find", "publish"}
        BY <3>2, <3>3 DEF FirstPhase, Channels
      <4>2. QED
        BY <1>5, <2>1, <3>1, <4>1
    <3>4. CASE worker[w].channel = "search"
      <4>1. phase = IF outbox[worker[w].event].kind = "rebuild" THEN "drop" ELSE "read"
        BY <3>4 DEF FirstPhase
      <4>2. phase \in Phases
        BY <4>1 DEF Phases
      <4> HIDE DEF phase
      <4>3. /\ worker'[w].phase = phase /\ worker'[w].event = worker[w].event
            /\ \A v \in Workers \ {w} : worker'[v] = worker[v]
        BY <1>0, <3>1, <4>2, GotoEffect
      <4>4. ~Marked(worker[w].event)
        BY <2>3, <3>4 DEF AlreadyDone, Marked
      <4>5. Apart(w)'
        BY <2>1, <4>1, <4>3, <4>4 DEF Apart, Marked
      <4>6. QED
        BY <2>0, <4>3, <4>5
    <3>5. QED
      BY <3>3, <3>4
  <2>4. QED
    BY <2>2, <2>3
<1>12. QED
  BY <1>2, <1>3, <1>4, <1>6, <1>7, <1>8, <1>10, <1>11

\* An overlap that is noted stays noted, and one that is not was none.
KeepsNote == overlapped.index => overlapped'.index
Alone(w) == ~overlapped'.index => \A v \in Workers \ {w} : worker[v].phase # "write"

\* The steps that write the index, or lead there.
LEMMA IndexEffect ==
  ASSUME WorkersInv, NEW w \in Workers, deleteIndex(w) \/ readStore(w) \/ writeIndex(w)
  PROVE  /\ worker[w].phase \in {"drop", "read", "write"}
         /\ worker[w].event \in Events /\ Syncs(worker[w].event)
         /\ worker'[w].event = worker[w].event
         /\ \A v \in Workers \ {w} : worker'[v] = worker[v]
         /\ UNCHANGED <<outbox, done, store, rated, storeRequest, lost>>
         /\ overlapped'.locks = overlapped.locks
         /\ KeepsNote
         /\ deleteIndex(w) => /\ worker[w].phase = "drop" /\ worker'[w].phase = "read"
                              /\ index' \in {None, index}
         /\ readStore(w) =>
              worker'[w].phase = "write" /\ worker'[w].seen = Document /\ UNCHANGED index
         /\ readStore(w) => Alone(w)
         /\ writeIndex(w) =>
              /\ worker[w].phase = "write" /\ worker'[w].phase = "mark"
              /\ index' = IF worker[w].seen = None /\ outbox[worker[w].event].kind = "rebuild"
                          THEN index ELSE worker[w].seen
<1>0. /\ worker[w] \in Worker /\ worker \in [Workers -> Worker] /\ OutboxTypeOK
      /\ overlapped \in [locks : SUBSET Events, index : BOOLEAN]
  BY DEF WorkersInv, OutboxTypeOK
<1>1. /\ worker[w].phase \in {"drop", "read", "write"}
      /\ UNCHANGED <<outbox, done, store, rated, storeRequest, lost>>
  BY DEF deleteIndex, readStore, writeIndex, At, history, storeVars
<1>2. worker[w].event \in Events /\ Syncs(worker[w].event)
  <2>1. worker[w].phase \in Handling /\ worker[w].channel = "search"
    BY <1>1 DEF Handling, WorkersInv, WorkerOK
  <2>2. QED
    BY <2>1, ChannelIs
<1>3. /\ worker'[w].event = worker[w].event
      /\ \A v \in Workers \ {w} : worker'[v] = worker[v]
      /\ overlapped'.locks = overlapped.locks
  BY WithinEvent
<1>4. CASE deleteIndex(w)
  <2>1. worker'[w].phase = "read"
    <3>1. Goto(w, "read") /\ "read" \in Phases
      BY <1>4 DEF deleteIndex, Phases
    <3>2. QED
      BY <1>0, <3>1, GotoEffect
  <2>2. KeepsNote
    BY <1>4 DEF deleteIndex, history, KeepsNote
  <2>3. worker[w].phase = "drop" /\ index' \in {None, index} /\ ~readStore(w) /\ ~writeIndex(w)
    BY <1>4 DEF deleteIndex, readStore, writeIndex, At
  <2>4. QED
    BY <1>1, <1>2, <1>3, <2>1, <2>2, <2>3
<1>5. CASE readStore(w)
  <2>1. worker'[w].phase = "write" /\ worker'[w].seen = Document
    <3>1. worker' = [worker EXCEPT ![w] = [worker[w] EXCEPT !.phase = "write", !.seen = Document]]
      BY <1>0, <1>5 DEF readStore
    <3>2. worker'[w] = [worker[w] EXCEPT !.phase = "write", !.seen = Document]
      BY <1>0, <3>1
    <3>3. QED
      BY <1>0, <3>2 DEF Worker
  <2>2. KeepsNote /\ Alone(w)
    <3>1. overlapped'.index = (overlapped.index \/ \E v \in Workers \ {w} : At(v, "write"))
      BY <1>0, <1>5 DEF readStore
    <3>2. QED
      BY <3>1, Zenon DEF KeepsNote, Alone, At
  <2>3. UNCHANGED index /\ ~deleteIndex(w) /\ ~writeIndex(w)
    BY <1>5 DEF deleteIndex, readStore, writeIndex, At
  <2>4. QED
    BY <1>1, <1>2, <1>3, <2>1, <2>2, <2>3
<1>6. CASE writeIndex(w)
  <2>1. worker'[w].phase = "mark"
    <3>1. worker' = [worker EXCEPT ![w] = [worker[w] EXCEPT !.phase = "mark", !.seen = None]]
      BY <1>0, <1>6 DEF writeIndex
    <3>2. worker'[w] = [worker[w] EXCEPT !.phase = "mark", !.seen = None]
      BY <1>0, <3>1
    <3>3. QED
      BY <1>0, <3>2 DEF Worker
  <2>2. KeepsNote /\ worker[w].phase = "write" /\ ~deleteIndex(w) /\ ~readStore(w)
    BY <1>6 DEF deleteIndex, readStore, writeIndex, At, history, KeepsNote
  <2>3. index' = IF worker[w].seen = None /\ outbox[worker[w].event].kind = "rebuild"
                 THEN index ELSE worker[w].seen
    BY <1>6 DEF writeIndex
  <2>4. QED
    BY <1>1, <1>2, <1>3, <2>1, <2>2, <2>3
<1>7. QED
  BY <1>4, <1>5, <1>6

\* They keep the index on the way to what the store is.
LEMMA IndexStep ==
  ASSUME WorkersInv, Exclusive, FreshInv, NEW w \in Workers,
         deleteIndex(w) \/ readStore(w) \/ writeIndex(w)
  PROVE  FreshInv'
<1> DEFINE e == worker[w].event
<1>1. /\ worker[w].phase \in {"drop", "read", "write"}
      /\ e \in Events /\ Syncs(e) /\ worker'[w].event = e
      /\ \A v \in Workers \ {w} : worker'[v] = worker[v]
      /\ UNCHANGED <<outbox, done, store, rated, storeRequest, lost>>
      /\ overlapped'.locks = overlapped.locks
      /\ KeepsNote
      /\ worker'[w].phase \in {"read", "write", "mark"}
  BY IndexEffect
<1>2. CASE ~Clean'
  <2>1. MarkedInv'
    BY <1>1 DEF FreshInv, MarkedInv, Marked, Syncs
  <2>2. QED
    BY <1>2, <2>1 DEF FreshInv
<1>3. ASSUME Clean' PROVE FreshInv'
  <2>1. Clean /\ MarkedInv /\ SyncInv /\ (Owing \/ Shown)
    <3>1. Clean
      BY <1>1, <1>3 DEF Clean, Syncs, KeepsNote
    <3>2. QED
      BY <3>1 DEF FreshInv
  <2>2. MarkedInv'
    BY <1>1, <2>1 DEF MarkedInv, Marked, Syncs
  <2>3. ~Marked(e) /\ \A v \in Workers : worker[v].event = e => v = w
    <3>1. ~Marked(e)
      BY <1>1, <2>1 DEF SyncInv, Writing
    <3>2. e \notin overlapped.locks
      BY <1>1, <2>1 DEF Clean
    <3>3. QED
      BY <1>1, <3>1, <3>2 DEF Exclusive
  <2>4. \A d : ShowsAfter(d) <=> Shows(d)
    BY <1>1 DEF Shows, ShowsAfter, Document
  <2>5. \A v \in Workers : worker'[v].phase \in Writing /\ Syncs(worker[v].event)'
                             => ~Marked(worker[v].event)'
    BY <1>1, <2>1, <2>3 DEF SyncInv, Writing, Marked, Syncs
  <2>6. SyncInv'
    <3>1. CASE readStore(w)
      <4>1. \A v \in Workers \ {w} : worker'[v].phase # "write"
        BY <1>1, <1>3, <3>1, IndexEffect DEF Clean, Alone
      <4>2. QED
        BY <2>5, <4>1 DEF SyncInv
    <3>2. CASE deleteIndex(w) \/ writeIndex(w)
      <4>1. worker'[w].phase # "write"
        BY <3>2, IndexEffect
      <4>2. QED
        BY <1>1, <2>1, <2>5, <4>1 DEF SyncInv
    <3>3. QED
      BY <3>1, <3>2
  <2>7. ASSUME NEW d \in Events, Unwritten(d), d # e \/ worker'[w].phase # "mark"
        PROVE  Unwritten(d)'
    BY <1>1, <2>7 DEF Unwritten, Syncs, Marked
  <2>8. ASSUME worker'[w].phase = "write" => ShowsAfter(worker'[w].seen),
               NEW d \in Events, Owed(d), d # e \/ worker'[w].phase # "mark"
        PROVE  Owed(d)'
    BY <1>1, <2>4, <2>7, <2>8, OwedAfter DEF Owed
  <2>9. (Owing \/ Shown)'
    <3>1. Enqueuing => Enqueuing'
      BY <1>1 DEF Enqueuing, Holds
    <3>2. CASE deleteIndex(w)
      <4>1. /\ worker[w].phase = "drop" /\ worker'[w].phase = "read" /\ index' \in {None, index}
            /\ outbox[e].kind = "rebuild"
        BY <2>1, <3>2, IndexEffect DEF MarkedInv
      <4>2. \A d \in Events : Owed(d) => Owed(d)'
        BY <2>8, <4>1
      <4>3. ASSUME Shown PROVE Shown'
        <5>1. Unwritten(e)'
          BY <1>1, <2>3, <4>1 DEF Unwritten, Syncs, Marked
        <5>2. index' = None => Dropped'
          BY <1>1, <4>1, <5>1 DEF Dropped
        <5>3. index' = index => ShowsAfter(index') \/ Dropped'
          BY <2>4, <4>3, <5>2 DEF Shown, Dropped
        <5>4. \A v \in Workers : worker'[v].phase = "write" => ShowsAfter(worker'[v].seen)
          BY <1>1, <2>4, <4>1, <4>3 DEF Shown
        <5>5. QED
          BY <4>1, <5>2, <5>3, <5>4, ShownAfter
      <4>4. QED
        BY <2>1, <3>1, <4>2, <4>3 DEF Owing
    <3>3. CASE readStore(w)
      <4>1. worker'[w].phase = "write" /\ worker'[w].seen = Document /\ UNCHANGED index
        BY <3>3, IndexEffect
      <4>2. ShowsAfter(worker'[w].seen)
        BY <2>4, <4>1 DEF Shows
      <4>3. \A d \in Events : Owed(d) => Owed(d)'
        BY <2>8, <4>1, <4>2
      <4>4. ASSUME Shown PROVE Shown'
        <5>1. Dropped => Dropped'
          BY <1>1, <2>7, <4>1 DEF Dropped
        <5>2. QED
          BY <1>1, <2>4, <4>1, <4>2, <4>4, <5>1, ShownAfter DEF Shown
      <4>5. QED
        BY <2>1, <3>1, <4>3, <4>4 DEF Owing
    <3>4. CASE writeIndex(w)
      <4>1. /\ worker[w].phase = "write" /\ worker'[w].phase = "mark"
            /\ index' = IF worker[w].seen = None /\ outbox[e].kind = "rebuild"
                        THEN index ELSE worker[w].seen
        BY <3>4, IndexEffect
      <4>2. \A v \in Workers : worker'[v].phase # "write"
        BY <1>1, <2>1, <4>1 DEF SyncInv
      <4>3. Shows(index') => Shown'
        BY <2>4, <4>2, ShownAfter
      <4>4. CASE Enqueuing \/ \E d \in Events \ {e} : Owed(d)
        BY <2>8, <3>1, <4>1, <4>4 DEF Owing
      <4>5. CASE Owed(e)
        BY <4>1, <4>3, <4>5 DEF Owed
      <4>6. CASE Shown
        <5>1. Shows(worker[w].seen) /\ (Shows(index) \/ index = None)
          BY <4>1, <4>6 DEF Shown, Dropped
        <5>2. QED
          BY <4>1, <4>3, <5>1
      <4>7. QED
        BY <2>1, <4>4, <4>5, <4>6 DEF Owing
    <3>5. QED
      BY <3>2, <3>3, <3>4
  <2>10. QED
    BY <2>2, <2>6, <2>9 DEF FreshInv
<1>4. QED
  BY <1>2, <1>3

\* A document that shows the store does so after the step.
KeepsShowing ==
  \A d \in StoreRow \cup {None} :
    Shows(d) => ShowsAfter(d)

\* A rating keeps what shows the store.
LEMMA RatingKeepsShowing ==
  ASSUME store \in StoreRow, NEW n \in Nat, store' = [store EXCEPT !.rating = n], rated' = TRUE
  PROVE  KeepsShowing
<1>1. store # NoStore /\ store # None
  BY NoStoreAssumption, OutboxAssumption
<1>2. store' \in StoreRow /\ store'.approval = store.approval
  BY DEF StoreRow
<1>3. store' # NoStore /\ store' # None
  BY <1>2, NoStoreAssumption, OutboxAssumption
<1>4. [store' EXCEPT !.rating = 0] = [store EXCEPT !.rating = 0]
  BY DEF StoreRow
<1>5. Unrated(Document') = Unrated(Document)
  BY <1>1, <1>2, <1>3, <1>4 DEF Document, Unrated
<1>6. QED
  BY <1>5 DEF KeepsShowing, Shows, ShowsAfter

\* New rows, and steps of the store's handlers that put somebody in debt or
\* leave the debts as they are.
LEMMA DebtStep ==
  ASSUME WorkersInv, FreshInv, UNCHANGED <<worker, done, index>>,
         \A e \in Events : outbox[e] # None => outbox'[e] = outbox[e],
         \A e \in Events : outbox[e] = None /\ outbox'[e] # None => ~outbox'[e].processed,
         overlapped.locks \subseteq overlapped'.locks,
         KeepsNote, lost => lost',
         Clean' => \/ Enqueuing' \/ \E e \in Events : Owed(e)'
                   \/ ~Enqueuing /\ KeepsShowing
  PROVE  FreshInv'
<1>0. \A w \in Workers : worker[w].phase \notin {"poll", "lock"} =>
        worker[w].event \in Events /\ outbox[worker[w].event] # None
  BY DEF WorkersInv, WorkerOK
<1>1. \A e \in Events : outbox[e] # None => outbox'[e] = outbox[e] /\ outbox'[e] # None
  OBVIOUS
<1>2. Clean' => Clean
  BY <1>1 DEF Clean, Syncs, KeepsNote
<1>3. MarkedInv'
  BY <1>0, <1>1 DEF FreshInv, MarkedInv, Marked, Syncs
<1>4. ASSUME Clean' PROVE SyncInv'
  <2>1. SyncInv
    BY <1>2, <1>4 DEF FreshInv
  <2>2. \A w \in Workers : worker'[w].phase \in Writing /\ Syncs(worker[w].event)'
                             => ~Marked(worker[w].event)'
    BY <1>0, <2>1 DEF SyncInv, Writing, Marked, Syncs
  <2>3. QED
    BY <2>1, <2>2 DEF SyncInv
<1>5. ASSUME Clean' PROVE (Owing \/ Shown)'
  <2>1. CASE Enqueuing' \/ \E e \in Events : Owed(e)'
    BY <2>1 DEF Owing
  <2>2. CASE ~Enqueuing /\ KeepsShowing
    <3>1. ASSUME NEW d \in StoreRow \cup {None}, Shows(d) PROVE ShowsAfter(d)
      BY <2>2, <3>1 DEF KeepsShowing
    <3>2. (\E e \in Events : Owed(e)) \/ Shown
      BY <1>2, <1>5, <2>2 DEF FreshInv, Owing
    <3>3. \A w \in Workers : worker[w].seen \in StoreRow \cup {None}
      BY DEF WorkersInv, OutboxTypeOK, Worker
    <3>4. \A w \in Workers : worker'[w] = worker[w]
                             /\ (Shows(worker[w].seen) => ShowsAfter(worker'[w].seen))
      BY <3>1, <3>3
    <3>5. ASSUME NEW e \in Events, Unwritten(e)
          PROVE  Unwritten(e)' /\ outbox'[e].kind = outbox[e].kind
      BY <1>1, <3>5 DEF Unwritten, Syncs, Marked
    <3>6. ASSUME NEW e \in Events, Owed(e) PROVE Owed(e)'
      BY <3>4, <3>5, <3>6, OwedAfter DEF Owed
    <3>7. ASSUME Shown PROVE Shown'
      <4>1. index \in StoreRow \cup {None} /\ index' = index
        BY DEF WorkersInv, OutboxTypeOK
      <4>2. Shows(index) => ShowsAfter(index')
        BY <3>1, <4>1
      <4>3. Dropped => Dropped'
        BY <3>5, <4>1 DEF Dropped
      <4>4. QED
        BY <3>4, <3>7, <4>2, <4>3, ShownAfter DEF Shown
    <3>8. QED
      BY <3>2, <3>6, <3>7 DEF Owing
  <2>3. QED
    BY <1>5, <2>1, <2>2
<1>6. QED
  BY <1>3, <1>4, <1>5 DEF FreshInv

\* An edit of the store, as far as its debt goes.
LEMMA EditOwes ==
  ASSUME WorkersInv, NEW s \in StoreRequests, Edit(s)
  PROVE  \/ Holds(s, "enqueue")'
         \/ KeepsShowing /\ (Enqueuing => Enqueuing')
<1>1. storeRequest \in [StoreRequests -> StoreRequest \cup {Idle}]
  BY DEF WorkersInv, StoresInv, StoresTypeOK
<1>2. ASSUME NEW row \in StoreRow, WriteStore(s, row)
      PROVE  Holds(s, "enqueue")'
  <2>1. storeRequest'[s] = [handler |-> "enqueue", seen |-> row]
    BY <1>1, <1>2 DEF WriteStore, StoreGoto
  <2>2. [handler |-> "enqueue", seen |-> row] \in StoreRequest
    BY <1>2 DEF StoreRequest
  <2>3. QED
    BY <2>1, <2>2, IdleAssumption DEF Holds
<1>3. CASE \E handler \in {"update", "open", "rate"} : ReadStore(s, handler)
  <2>1. UNCHANGED <<store, rated>>
    BY <1>3 DEF ReadStore
  <2>2. KeepsShowing
    BY <2>1 DEF KeepsShowing, Shows, ShowsAfter, Document
  <2>3. Enqueuing => Enqueuing'
    BY <1>1, <1>3 DEF ReadStore, Begin, StoreGoto, Enqueuing, Holds
  <2>4. QED
    BY <2>2, <2>3
<1>4. CASE createStore(s)
  <2>1. WriteStore(s, [approval |-> "PENDING", isOpen |-> FALSE, details |-> 0, rating |-> 0])
    BY <1>4 DEF createStore
  <2>2. [approval |-> "PENDING", isOpen |-> FALSE, details |-> 0, rating |-> 0] \in StoreRow
    BY DEF StoreRow, Approval
  <2>3. QED
    BY <1>2, <2>1, <2>2
<1>5. CASE \/ CommitUpdate(s) \/ CommitOpen(s) \/ Close(s) \/ EditMenu(s) \/ requestApproval(s)
           \/ \E decision \in {"APPROVED", "REJECTED"} : reviewStore(s, decision)
  <2>1. store \in StoreRow
    BY <1>5 DEF CommitUpdate, CommitOpen, Close, EditMenu, requestApproval, reviewStore, Holds,
                WorkersInv, StoresInv, StoresTypeOK, InFlightChecked
  <2>2. CASE CommitUpdate(s)
    <3> DEFINE seen == storeRequest[s].seen.approval
    <3>1. PICK a \in Approval : a = IF seen = "REJECTED" THEN "PENDING" ELSE seen
      <4>1. seen \in Approval
        BY <1>1, <2>2 DEF CommitUpdate, Holds, StoreRequest, StoreRow
      <4>2. QED
        BY <4>1 DEF Approval
    <3>2. PICK n \in Nat : n = store.details + 1
      BY <2>1 DEF StoreRow
    <3>3. WriteStore(s, [store EXCEPT !.details = n, !.approval = a])
      BY <2>2, <3>1, <3>2 DEF CommitUpdate
    <3>4. [store EXCEPT !.details = n, !.approval = a] \in StoreRow
      BY <2>1 DEF StoreRow
    <3>5. QED
      BY <1>2, <3>3, <3>4
  <2>3. CASE CommitOpen(s)
    <3>1. WriteStore(s, [store EXCEPT !.isOpen = TRUE])
      BY <2>3 DEF CommitOpen
    <3>2. [store EXCEPT !.isOpen = TRUE] \in StoreRow
      BY <2>1 DEF StoreRow
    <3>3. QED
      BY <1>2, <3>1, <3>2
  <2>4. CASE Close(s)
    <3>1. WriteStore(s, [store EXCEPT !.isOpen = FALSE])
      BY <2>4 DEF Close
    <3>2. [store EXCEPT !.isOpen = FALSE] \in StoreRow
      BY <2>1 DEF StoreRow
    <3>3. QED
      BY <1>2, <3>1, <3>2
  <2>5. CASE EditMenu(s)
    <3>1. WriteStore(s, [store EXCEPT !.details = @ + 1])
      BY <2>5 DEF EditMenu
    <3>2. [store EXCEPT !.details = @ + 1] \in StoreRow
      BY <2>1 DEF StoreRow
    <3>3. QED
      BY <1>2, <3>1, <3>2
  <2>6. CASE requestApproval(s)
    <3>1. WriteStore(s, [store EXCEPT !.approval = "PENDING", !.isOpen = FALSE])
      BY <2>6 DEF requestApproval
    <3>2. [store EXCEPT !.approval = "PENDING", !.isOpen = FALSE] \in StoreRow
      BY <2>1 DEF StoreRow, Approval
    <3>3. QED
      BY <1>2, <3>1, <3>2
  <2>7. ASSUME NEW decision \in {"APPROVED", "REJECTED"}, reviewStore(s, decision)
        PROVE  Holds(s, "enqueue")'
    <3> DEFINE row == [store EXCEPT !.approval = decision,
                                    !.isOpen = IF decision = "APPROVED" THEN @ ELSE FALSE]
    <3>1. WriteStore(s, row)
      BY <2>7 DEF reviewStore
    <3>2. row \in StoreRow
      BY <2>1 DEF StoreRow, Approval
    <3> HIDE DEF row
    <3>3. QED
      BY <1>2, <3>1, <3>2
  <2>8. QED
    BY <1>5, <2>2, <2>3, <2>4, <2>5, <2>6, <2>7
<1>6. CASE applyStoreRating(s)
  <2>1. store \in StoreRow /\ storeRequest[s].seen.rating + 1 \in Nat
    BY <1>6 DEF applyStoreRating, Holds, WorkersInv, StoresInv, StoresTypeOK, InFlightChecked,
                StoreRequest, StoreRow
  <2>2. KeepsShowing
    BY <1>6, <2>1, RatingKeepsShowing DEF applyStoreRating
  <2>3. Enqueuing => Enqueuing'
    BY <1>1, <1>6 DEF applyStoreRating, Enqueuing, Holds
  <2>4. QED
    BY <2>2, <2>3
<1>7. QED
  BY <1>3, <1>4, <1>5, <1>6 DEF Edit

\* The steps of nobody and of the store's handlers.
LEMMA OutsideFresh ==
  ASSUME WorkersInv, FreshInv, WorkersInv',
         \/ PublishNotice \/ requestSearchRebuild
         \/ \E s \in StoreRequests : EditStore(s) \/ enqueueStoreSearchSync(s) \/ EditDies(s)
         \/ \E e \in Events : expireDead(e) \/ expireLive(e)
         \/ UNCHANGED vars
  PROVE  FreshInv'
<1>0. /\ storeRequest \in [StoreRequests -> StoreRequest \cup {Idle}] /\ OutboxTypeOK
      /\ UNCHANGED <<worker, done, index>>
  BY OutsideStep DEF WorkersInv, StoresInv, StoresTypeOK
\* What a published row is.
<1>1. ASSUME NEW kind \in Kinds, Publish(kind)
      PROVE  \E e \in Events :
               /\ outbox[e] = None /\ outbox'[e] # None
               /\ outbox'[e].kind = kind /\ ~outbox'[e].processed
               /\ \A d \in Events \ {e} : outbox'[d] = outbox[d]
  <2>1. PICK e \in Events :
          /\ outbox[e] = None
          /\ outbox'[e] = [kind |-> kind, attempts |-> 0, processed |-> FALSE]
          /\ outbox'[e] \in EventRow
          /\ \A d \in Events \ {e} : outbox'[d] = outbox[d]
    BY <1>0, <1>1, PublishEffect
  <2>2. outbox'[e].kind = kind /\ outbox'[e].processed = FALSE
    BY <2>1
  <2>3. outbox'[e] # None
    BY <2>1, OutboxAssumption
  <2>4. QED
    BY <2>1, <2>2, <2>3
\* The debts stay when the store and its requests do.
<1>2. ASSUME UNCHANGED <<store, rated, storeRequest, lost>>, KeepsNote,
             overlapped.locks \subseteq overlapped'.locks,
             \A e \in Events : outbox[e] # None => outbox'[e] = outbox[e],
             \A e \in Events : outbox[e] = None /\ outbox'[e] # None => ~outbox'[e].processed
      PROVE  FreshInv'
  <2>1. (Enqueuing => Enqueuing') /\ KeepsShowing
    BY <1>2 DEF Enqueuing, Holds, KeepsShowing, Shows, ShowsAfter, Document
  <2>2. QED
    BY <1>0, <1>2, <2>1, DebtStep
<1>3. CASE PublishNotice \/ requestSearchRebuild
  <2>1. PICK kind \in Kinds : Publish(kind)
    BY <1>3 DEF PublishNotice, requestSearchRebuild, Kinds
  <2>2. UNCHANGED <<store, rated, storeRequest, lost, overlapped>>
    BY <1>3 DEF PublishNotice, requestSearchRebuild, storeVars
  <2>3. PICK e \in Events :
          /\ outbox[e] = None /\ outbox'[e] # None
          /\ ~outbox'[e].processed
          /\ \A d \in Events \ {e} : outbox'[d] = outbox[d]
    BY <1>1, <2>1
  <2>4. QED
    BY <1>2, <2>2, <2>3 DEF KeepsNote
<1>4. ASSUME NEW s \in StoreRequests, EditStore(s) PROVE FreshInv'
  <2>1. UNCHANGED <<outbox, overlapped, lost>>
    BY <1>4 DEF EditStore, queueVars, history
  <2>2. CASE Holds(s, "enqueue")'
    <3>1. Enqueuing'
      BY <2>2 DEF Enqueuing
    <3>2. QED
      BY <1>0, <2>1, <3>1, DebtStep DEF KeepsNote
  <2>3. CASE KeepsShowing /\ (Enqueuing => Enqueuing')
    BY <1>0, <2>1, <2>3, DebtStep DEF KeepsNote
  <2>4. QED
    BY <1>4, <2>2, <2>3, EditOwes DEF EditStore
<1>5. ASSUME NEW s \in StoreRequests, enqueueStoreSearchSync(s) PROVE FreshInv'
  <2>1. UNCHANGED <<store, overlapped, lost>> /\ Publish("store") /\ "store" \in Kinds
    BY <1>5 DEF enqueueStoreSearchSync, Enqueued, history, Kinds
  <2>2. PICK e \in Events :
          /\ outbox[e] = None /\ outbox'[e] # None
          /\ outbox'[e].kind = "store" /\ ~outbox'[e].processed
          /\ \A d \in Events \ {e} : outbox'[d] = outbox[d]
    BY <1>1, <2>1
  <2>3. Owed(e)'
    <3>1. \A w \in Workers : worker'[w].event # e
      BY <1>0, <2>2, OutboxAssumption DEF WorkersInv, WorkerOK, Events
    <3>2. <<e, "search">> \notin done'
      BY <1>0, <2>2 DEF FreshInv, MarkedInv, Marked
    <3>3. QED
      BY <2>2, <3>1, <3>2, OwedAfter DEF Unwritten, Syncs, Marked
  <2>4. QED
    BY <1>0, <2>1, <2>2, <2>3, DebtStep DEF KeepsNote
<1>6. ASSUME NEW s \in StoreRequests, EditDies(s) PROVE FreshInv'
  <2>1. /\ UNCHANGED <<store, rated, outbox, overlapped>>
        /\ lost' = (lost \/ storeRequest[s].handler = "enqueue")
        /\ storeRequest' = [storeRequest EXCEPT ![s] = Idle]
    BY <1>6 DEF EditDies, StoreRequestDies, queueVars
  <2>2. /\ lost => lost'
        /\ ~lost' => storeRequest[s].handler # "enqueue"
    BY <2>1, Zenon
  <2>3. Clean' /\ Enqueuing => Enqueuing'
    BY <1>0, <2>1, <2>2 DEF Clean, Enqueuing, Holds
  <2>4. KeepsShowing
    BY <2>1 DEF KeepsShowing, Shows, ShowsAfter, Document
  <2>5. QED
    BY <1>0, <2>1, <2>2, <2>3, <2>4, DebtStep DEF KeepsNote
<1>7. ASSUME NEW e \in Events, expireDead(e) \/ expireLive(e) PROVE FreshInv'
  <2>1. UNCHANGED <<outbox, store, rated, storeRequest, lost>>
    BY <1>7 DEF expireDead, expireLive, storeVars, history
  <2>2. KeepsNote /\ overlapped.locks \subseteq overlapped'.locks
    BY <1>0, <1>7 DEF expireDead, expireLive, history, OutboxTypeOK, KeepsNote
  <2>3. QED
    BY <1>2, <2>1, <2>2
<1>8. CASE UNCHANGED vars
  <2>1. UNCHANGED <<outbox, store, rated, storeRequest, lost, overlapped>>
    BY <1>8 DEF vars, queueVars, history, storeVars
  <2>2. QED
    BY <1>2, <2>1 DEF KeepsNote
<1>9. QED
  BY <1>3, <1>4, <1>5, <1>6, <1>7, <1>8

LEMMA InitFresh == Init => FreshInv
<1> SUFFICES ASSUME Init PROVE FreshInv
  OBVIOUS
<1>1. /\ \A e \in Events : outbox[e] = None
      /\ \A w \in Workers : worker[w].phase = "poll"
      /\ done = {} /\ index = Document
  BY DEF Init, Resting
<1>2. MarkedInv
  BY <1>1 DEF MarkedInv, Marked, Syncs
<1>3. SyncInv
  BY <1>1 DEF SyncInv, Writing
<1>4. Shown
  BY <1>1 DEF Shown, Shows
<1>5. QED
  BY <1>2, <1>3, <1>4 DEF FreshInv

LEMMA StepFresh == WorkersInv /\ Exclusive /\ FreshInv /\ [Next]_vars => FreshInv'
<1> SUFFICES ASSUME WorkersInv, Exclusive, FreshInv, [Next]_vars PROVE FreshInv'
  OBVIOUS
<1>1. WorkersInv'
  BY StepWorkersInv
<1>2. ASSUME NEW w \in Workers, deleteIndex(w) \/ readStore(w) \/ writeIndex(w) PROVE FreshInv'
  BY <1>2, IndexStep
<1>3. ASSUME NEW w \in Workers,
             \/ processBatch(w) \/ takeLock(w) \/ countAttempt(w) \/ checkHandler(w)
             \/ findNotification(w) \/ createNotification(w) \/ send(w) \/ markDone(w)
             \/ finish(w) \/ fail(w) \/ unlock(w) \/ crash(w)
      PROVE  FreshInv'
  <2>1. (\A v \in Workers \ {w} : worker'[v] = worker[v]) /\ Marks(w) /\ Apart(w)'
    BY <1>3, LeadsApart
  <2>2. UNCHANGED <<index, store, rated, storeRequest, lost, overlapped>>
    BY <1>3 DEF processBatch, takeLock, countAttempt, checkHandler, findNotification,
                createNotification, send, markDone, finish, fail, unlock, crash, history, storeVars
  <2>3. /\ SameRows
        /\ \A d \in Events : outbox[d] # None =>
             (outbox'[d].processed => outbox[d].processed) \/ (finish(w) /\ d = worker[w].event)
    BY <1>3, RowsKept DEF processEvent
  <2>4. ASSUME NEW d \in Events, Syncs(d), outbox'[d].processed
        PROVE  outbox[d].processed \/ Marked(d)
    <3>1. outbox[d].processed \/ (finish(w) /\ d = worker[w].event)
      BY <2>3, <2>4 DEF Syncs
    <3>2. finish(w) /\ d = worker[w].event => Marked(d)
      BY <2>4 DEF finish, At, FreshInv, MarkedInv
    <3>3. QED
      BY <3>1, <3>2
  <2>5. QED
    BY <1>1, <2>1, <2>2, <2>3, <2>4, ApartStep
<1>4. CASE \/ PublishNotice \/ requestSearchRebuild
           \/ \E s \in StoreRequests : EditStore(s) \/ enqueueStoreSearchSync(s) \/ EditDies(s)
           \/ \E e \in Events : expireDead(e) \/ expireLive(e)
           \/ UNCHANGED vars
  BY <1>1, <1>4, OutsideFresh
<1>5. QED
  BY <1>2, <1>3, <1>4 DEF Next, processEvent

\* For any number of workers, events and store requests: once everything has
\* settled the index shows the store, but for a rating that came after the last
\* edit; unless an edit died before its event, two workers overlapped between
\* reading the store and writing the index, or one had lost its lock.
THEOREM IndexIsFresh == Spec => []IndexFresh
<1>1. FreshInv => IndexFresh
  <2> SUFFICES ASSUME FreshInv,
                      \A s \in StoreRequests : storeRequest[s] = Idle,
                      \A e \in Events : outbox[e] # None /\ outbox[e].kind # "notice" =>
                                          outbox[e].processed /\ e \notin overlapped.locks,
                      ~lost /\ ~overlapped.index
               PROVE  Shows(index)
    BY DEF IndexFresh
  <2>1. Clean
    BY DEF Clean, Syncs
  <2>2. ~Enqueuing
    BY DEF Enqueuing, Holds
  <2>3. \A e \in Events : ~Owed(e)
    BY DEF Owed, Unwritten, Syncs, FreshInv, MarkedInv
  <2>4. ~Dropped
    BY DEF Dropped, Unwritten, Syncs, FreshInv, MarkedInv
  <2>5. QED
    BY <2>1, <2>2, <2>3, <2>4 DEF FreshInv, Owing, Shown
<1>2. Init => WorkersInv /\ Exclusive /\ FreshInv
  BY InitWorkersInv, InitExclusive, InitFresh
<1>3. WorkersInv /\ Exclusive /\ FreshInv /\ [Next]_vars => (WorkersInv /\ Exclusive /\ FreshInv)'
  BY StepWorkersInv, StepExclusive, StepFresh
<1>4. QED
  BY <1>1, <1>2, <1>3, PTL DEF Spec
=============================================================================
