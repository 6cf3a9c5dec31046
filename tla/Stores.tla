-------------------------------- MODULE Stores --------------------------------
(***************************************************************************)
(* MarketplaceService: one partner's store, edited by the partner and      *)
(* reviewed by staff; and the ratings of its orders, which                 *)
(* OrdersService.rateOrder adds to the same row.                           *)
(*                                                                         *)
(* A handler that decides by the row it read is a Read step and a Commit   *)
(* step; one that writes constants is a single step.  Each edit then       *)
(* enqueues search.store.changed with a write of its own, before which its *)
(* process may die; a rating enqueues nothing.  What neither the review    *)
(* nor the opening concerns of the store and its menu is a number that     *)
(* every edit changes, and ratingAverage and ratingCount are the number of *)
(* ratings counted.  Left out: that two creations at once make two stores, *)
(* for the other handlers take whichever comes first; favourites, queries; *)
(* stock, which is in Checkout and not in the search document; and which   *)
(* orders may be rated: any store may have a delivered one.                *)
(***************************************************************************)
EXTENDS Integers

CONSTANTS
  StoreRequests,  \* requests on the store that can be in flight together
  NoStore,        \* no row yet
  Idle            \* no request in the slot

Approval == {"PENDING", "APPROVED", "REJECTED"}
StoreRow == [approval : Approval, isOpen : BOOLEAN, details : Nat, rating : Nat]
StoreRequest == [handler : {"update", "open", "rate", "enqueue"}, seen : StoreRow]

ASSUME NoStoreAssumption == NoStore \notin StoreRow
ASSUME IdleAssumption == Idle \notin StoreRequest

VARIABLES
  store,         \* the Store row with its MenuItem rows
  storeRequest,  \* of each slot, the request between two of its steps
  verdict,       \* history: what staff last decided
  overtaken,     \* history: a handler wrote after the approval it read had changed
  rated,         \* history: a rating was stored after the last edit
  edits          \* bound: requests that may still start

storeVars == <<store, storeRequest, verdict, overtaken, rated, edits>>

StoresTypeOK ==
  /\ store \in StoreRow \cup {NoStore}
  /\ storeRequest \in [StoreRequests -> StoreRequest \cup {Idle}]
  /\ verdict \in Approval
  /\ overtaken \in BOOLEAN /\ rated \in BOOLEAN
  /\ edits \in Nat

\* There is no store yet, or one that was approved and opened.
StoresInit ==
  /\ \/ store = NoStore /\ verdict = "PENDING"
     \/ /\ store = [approval |-> "APPROVED", isOpen |-> TRUE, details |-> 0, rating |-> 0]
        /\ verdict = "APPROVED"
  /\ storeRequest = [s \in StoreRequests |-> Idle]
  /\ overtaken = FALSE /\ rated = FALSE
  /\ edits \in Nat
-----------------------------------------------------------------------------
Begin(s) == storeRequest[s] = Idle /\ edits > 0 /\ edits' = edits - 1

StoreGoto(s, handler, seen) ==
  storeRequest' = [storeRequest EXCEPT ![s] = [handler |-> handler, seen |-> seen]]

\* An edit: UPDATE the row, then enqueue the sync.
WriteStore(s, row) ==
  /\ store' = row
  /\ rated' = FALSE
  /\ StoreGoto(s, "enqueue", row)

createStore(s) ==
  /\ Begin(s)
  /\ store = NoStore
  /\ WriteStore(s, [approval |-> "PENDING", isOpen |-> FALSE, details |-> 0, rating |-> 0])
  /\ UNCHANGED <<verdict, overtaken>>

\* updateMyStore, setMyStoreOpen(TRUE): findOwnedStore and the check of the
\* approval; applyStoreRating: the query of the aggregate, ...
ReadStore(s, handler) ==
  /\ Begin(s)
  /\ store # NoStore
  /\ handler = "open" => store.approval = "APPROVED"
  /\ StoreGoto(s, handler, store)
  /\ UNCHANGED <<store, verdict, overtaken, rated>>

Holds(s, handler) == storeRequest[s] # Idle /\ storeRequest[s].handler = handler

Overtake(s) == overtaken' = (overtaken \/ store.approval # storeRequest[s].seen.approval)

\* ... and the update, which writes the approval that was read back.
CommitUpdate(s) ==
  /\ Holds(s, "update")
  /\ LET seen == storeRequest[s].seen.approval IN
       WriteStore(s, [store EXCEPT
         !.details = @ + 1,
         !.approval = IF seen = "REJECTED" THEN "PENDING" ELSE seen])
  /\ Overtake(s)
  /\ UNCHANGED <<verdict, edits>>

CommitOpen(s) ==
  /\ Holds(s, "open")
  /\ WriteStore(s, [store EXCEPT !.isOpen = TRUE])
  /\ Overtake(s)
  /\ UNCHANGED <<verdict, edits>>

\* One more rating, on top of those that were read.  The transaction ends here:
\* nothing is enqueued for the index.
applyStoreRating(s) ==
  /\ Holds(s, "rate")
  /\ store' = [store EXCEPT !.rating = storeRequest[s].seen.rating + 1]
  /\ rated' = TRUE
  /\ storeRequest' = [storeRequest EXCEPT ![s] = Idle]
  /\ UNCHANGED <<verdict, overtaken, edits>>

\* The handlers that look only whether there is a store: setMyStoreOpen(FALSE),
\* the menu edits, requestApproval, ...
Close(s) ==
  /\ Begin(s)
  /\ store # NoStore
  /\ WriteStore(s, [store EXCEPT !.isOpen = FALSE])
  /\ UNCHANGED <<verdict, overtaken>>

EditMenu(s) ==
  /\ Begin(s)
  /\ store # NoStore
  /\ WriteStore(s, [store EXCEPT !.details = @ + 1])
  /\ UNCHANGED <<verdict, overtaken>>

requestApproval(s) ==
  /\ Begin(s)
  /\ store # NoStore
  /\ WriteStore(s, [store EXCEPT !.approval = "PENDING", !.isOpen = FALSE])
  /\ UNCHANGED <<verdict, overtaken>>

\* ... and staff: reviewStore, and suspendStore, which rejects too.
WrongReviewStore(s, decision) ==
  /\ Begin(s)
  /\ store # NoStore
  /\ WriteStore(s, [store EXCEPT !.approval = decision])
  /\ verdict' = decision
  /\ UNCHANGED overtaken

reviewStore(s, decision) ==
  /\ Begin(s)
  /\ store # NoStore
  /\ WriteStore(s, [store EXCEPT
       !.approval = decision,
       !.isOpen = IF decision = "APPROVED" THEN @ ELSE FALSE])
  /\ verdict' = decision
  /\ UNCHANGED overtaken

Edit(s) ==
  \/ createStore(s)
  \/ \E handler \in {"update", "open", "rate"} : ReadStore(s, handler)
  \/ CommitUpdate(s) \/ CommitOpen(s) \/ applyStoreRating(s)
  \/ Close(s) \/ EditMenu(s) \/ requestApproval(s)
  \/ \E decision \in {"APPROVED", "REJECTED"} : reviewStore(s, decision)

\* enqueueStoreSearchSync, the part of the store's side.
Enqueued(s) ==
  /\ Holds(s, "enqueue")
  /\ storeRequest' = [storeRequest EXCEPT ![s] = Idle]
  /\ UNCHANGED <<store, verdict, overtaken, rated, edits>>

\* The process dies, or a write fails: what was not committed is gone.
StoreRequestDies(s) ==
  /\ storeRequest[s] # Idle
  /\ storeRequest' = [storeRequest EXCEPT ![s] = Idle]
  /\ UNCHANGED <<store, verdict, overtaken, rated, edits>>

StoresNext == \E s \in StoreRequests : Edit(s) \/ Enqueued(s) \/ StoreRequestDies(s)

StoresSpec == StoresInit /\ [][StoresNext]_storeVars
-----------------------------------------------------------------------------
\* A store is open only while it is approved, and approved only if that was the
\* last decision of staff, unless an owner's handler wrote after the approval
\* it had read was changed: its check came too early (setMyStoreOpen), or it
\* undid the review (updateMyStore).
OpenStoresAreReviewed ==
  store # NoStore /\ ~overtaken =>
    /\ store.isOpen => store.approval = "APPROVED"
    /\ store.approval = "APPROVED" => verdict = "APPROVED"
=============================================================================
