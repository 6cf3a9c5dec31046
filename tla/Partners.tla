------------------------------- MODULE Partners -------------------------------
(***************************************************************************)
(* A partner's verification: its documents, its submission and its review  *)
(* by staff, with the sessions of Sessions.  The handlers run with the     *)
(* user as the session's copy shows it.                                    *)
(*                                                                         *)
(* One document type stands for all.  A row is named by its object in the  *)
(* store, which is new for every upload; sending the same file again       *)
(* changes nothing and is left out.  The upload's transaction is two       *)
(* steps: it sees the rows to supersede when it updates them, and commits  *)
(* with the insert.                                                        *)
(***************************************************************************)
EXTENDS Sessions, FiniteSets

CONSTANT Objects  \* objects the store can hold

Row == [ version : Nat, status : {"UPLOADED", "APPROVED", "SUPERSEDED"}, attached : BOOLEAN ]

Work == [ phase : {"none", "put", "supersede", "create", "undo", "deleteObject", "deleteRow",
                   "transaction", "verification", "documents"},
          version : Nat, object : Objects \cup {None}, rows : SUBSET Objects,
          decision : Approvals ]

ASSUME PartnersAssumption == None \notin Objects \cup Row

VARIABLES
  document,      \* PartnerDocument rows, attached when verificationId is set
  storage,       \* the object store
  verification,  \* PartnerVerification's status, None when there is no row
  work,          \* of each slot, what its handler has read so far
  orphans,       \* history: objects of uploads and removals that died
  deletedAmid,   \* history: a document was removed during an upload
  torn           \* history: a review died, or overlapped another or a submission

partnerVars == <<document, storage, verification, work, orphans, deletedAmid, torn>>
vars == <<sessionVars, partnerVars>>

TypeOK ==
  /\ SessionsTypeOK
  /\ document \in [Objects -> Row \cup {None}]
  /\ storage \subseteq Objects
  /\ verification \in Approvals \cup {None}
  /\ work \in [Requests -> Work]
  /\ orphans \subseteq Objects
  /\ deletedAmid \in BOOLEAN
  /\ torn \in BOOLEAN

NoWork ==
  [phase |-> "none", version |-> 0, object |-> None, rows |-> {}, decision |-> "NONE"]

\* A partner that nobody reviewed yet, or that was reviewed with a document.
Init ==
  /\ SessionsInit
  /\ \/ /\ user.partnerApproval = "NONE"
        /\ verification = None
        /\ storage = {}
        /\ document = [o \in Objects |-> None]
     \/ /\ user.partnerApproval \in {"APPROVED", "REJECTED"}
        /\ verification = user.partnerApproval
        /\ \E o \in Objects :
             /\ storage = {o}
             /\ document = [p \in Objects |->
                  IF p # o THEN None
                  ELSE [ version |-> 1, attached |-> TRUE,
                         status |-> IF verification = "APPROVED" THEN "APPROVED" ELSE "UPLOADED" ]]
  /\ work = [r \in Requests |-> NoWork]
  /\ orphans = {}
  /\ deletedAmid = FALSE
  /\ torn = FALSE
-----------------------------------------------------------------------------
Rows == {o \in Objects : document[o] # None}
Live == {o \in Rows : document[o].status # "SUPERSEDED"}

Phase(r, handler, phase) == Runs(r, handler) /\ work[r].phase = phase
Working(r, next) == work' = [work EXCEPT ![r] = next] /\ UNCHANGED sessionVars
GotoPhase(r, phase) == Working(r, [work[r] EXCEPT !.phase = phase])

\* The handler returns or throws.
Return(r) ==
  /\ work' = [work EXCEPT ![r] = NoWork]
  /\ Finish(r)
  /\ UNCHANGED <<session, cache, raced, requests>>

arrivePartner(r) ==
  /\ \E t \in Tokens, handler \in {"upload", "remove", "submit", "profile"} : arrive(r, handler, t)
  /\ UNCHANGED partnerVars

\* assertDocumentsEditable, on the session's copy.
DocumentsEditable(r) == request[r].seen.partnerApproval \notin {"PENDING", "APPROVED"}

Refuse(r) ==
  /\ \/ Phase(r, "upload", "none") /\ ~DocumentsEditable(r)
     \/ Phase(r, "remove", "none") /\ (~DocumentsEditable(r) \/ Live = {})
     \/ Phase(r, "submit", "none") /\ Live = {}
  /\ Return(r)
  /\ UNCHANGED <<user, document, storage, verification, orphans, deletedAmid, torn>>

\* upload: the latest version, ...
findLatest(r) ==
  /\ Phase(r, "upload", "none")
  /\ DocumentsEditable(r)
  /\ \E latest \in {0} \cup {document[o].version : o \in Rows} :
       /\ \A o \in Rows : document[o].version <= latest
       /\ Working(r, [NoWork EXCEPT !.phase = "put", !.version = latest + 1])
  /\ UNCHANGED <<document, storage, verification, orphans, deletedAmid, torn>>

\* ... the object, ...
putObject(r) ==
  /\ Phase(r, "upload", "put")
  /\ \E o \in Objects \ (storage \cup Rows \cup orphans) :
       /\ \A q \in Requests : work[q].object # o
       /\ storage' = storage \cup {o}
       /\ Working(r, [work[r] EXCEPT !.phase = "supersede", !.object = o])
  /\ UNCHANGED <<document, verification, orphans, deletedAmid, torn>>

\* ... the rows that the new one replaces, ...
supersede(r) ==
  /\ Phase(r, "upload", "supersede")
  /\ Working(r, [work[r] EXCEPT !.phase = "create", !.rows = Live])
  /\ UNCHANGED <<document, storage, verification, orphans, deletedAmid, torn>>

WrongVersionTaken(version) == FALSE
\* @@unique([userId, documentType, version])
VersionTaken(version) == \E o \in Rows : document[o].version = version

\* ... and the new row with the commit.
createDocument(r) ==
  /\ Phase(r, "upload", "create")
  /\ IF VersionTaken(work[r].version)
     THEN GotoPhase(r, "undo") /\ UNCHANGED <<user, document>>
     ELSE /\ document' = [o \in Objects |->
               IF o = work[r].object
               THEN [version |-> work[r].version, status |-> "UPLOADED", attached |-> FALSE]
               ELSE IF o \in work[r].rows \cap Rows
                    THEN [document[o] EXCEPT !.status = "SUPERSEDED"] ELSE document[o]]
          /\ Return(r) /\ UNCHANGED user
  /\ UNCHANGED <<storage, verification, orphans, deletedAmid, torn>>

WrongUndoUpload(r) ==
  /\ Phase(r, "upload", "undo")
  /\ Return(r)
  /\ UNCHANGED <<user, document, storage, verification, orphans, deletedAmid, torn>>

\* The catch block.
undoUpload(r) ==
  /\ Phase(r, "upload", "undo")
  /\ storage' = storage \ {work[r].object}
  /\ Return(r)
  /\ UNCHANGED <<user, document, verification, orphans, deletedAmid, torn>>

\* removeOwn: requireDocument, the object, the row.
requireDocument(r) ==
  /\ Phase(r, "remove", "none")
  /\ DocumentsEditable(r)
  /\ \E o \in Live : Working(r, [NoWork EXCEPT !.phase = "deleteObject", !.object = o])
  /\ UNCHANGED <<document, storage, verification, orphans, deletedAmid, torn>>

deleteObject(r) ==
  /\ Phase(r, "remove", "deleteObject")
  /\ storage' = storage \ {work[r].object}
  /\ GotoPhase(r, "deleteRow")
  /\ UNCHANGED <<document, verification, orphans, deletedAmid, torn>>

deleteDocument(r) ==
  /\ Phase(r, "remove", "deleteRow")
  /\ document' = [document EXCEPT ![work[r].object] = None]
  /\ deletedAmid' = (deletedAmid \/ \E q \in Requests : work[q].version > 0)
  /\ Return(r)
  /\ UNCHANGED <<user, storage, verification, orphans, torn>>

\* submitPartnerVerification: assertSubmissionReady, ...
assertSubmissionReady(r) ==
  /\ Phase(r, "submit", "none")
  /\ Live # {}
  /\ GotoPhase(r, "transaction")
  /\ UNCHANGED <<document, storage, verification, orphans, deletedAmid, torn>>

Reviewing(r) == work[r].phase \in {"verification", "documents"}

\* ... and a transaction.  The sessions keep their copies.
submitVerification(r) ==
  /\ Phase(r, "submit", "transaction")
  /\ user' = [user EXCEPT !.partnerApproval = "PENDING"]
  /\ verification' = "PENDING"
  /\ document' = [o \in Objects |->
       IF o \in Live THEN [document[o] EXCEPT !.attached = TRUE] ELSE document[o]]
  /\ torn' = (torn \/ \E q \in Requests : Reviewing(q))
  /\ Return(r)
  /\ UNCHANGED <<storage, orphans, deletedAmid>>

submitPartnerProfile(r) ==
  /\ Runs(r, "profile")
  /\ user' = [user EXCEPT !.partnerApproval = "PENDING"]
  /\ Return(r)
  /\ UNCHANGED <<document, storage, verification, orphans, deletedAmid, torn>>

\* reviewPartner: the user, ...
reviewPartner(r, decision) ==
  /\ Begin(r, [Idle EXCEPT !.step = "run", !.handler = "review"])
  /\ user' = [user EXCEPT !.partnerApproval = decision]
  /\ work' = [work EXCEPT ![r] = [NoWork EXCEPT !.phase = "verification", !.decision = decision]]
  /\ torn' = (torn \/ \E q \in Requests : Reviewing(q))
  /\ UNCHANGED <<session, cache, raced, document, storage, verification, orphans, deletedAmid>>

RevokeNext(r) ==
  /\ Goto(r, "collect")
  /\ work' = [work EXCEPT ![r] = NoWork]
  /\ UNCHANGED <<user, session, cache, raced, requests>>

WrongReviewVerification(r) ==
  /\ Phase(r, "review", "verification")
  /\ IF verification # None /\ work[r].decision = "APPROVED"
     THEN verification' = "APPROVED" /\ GotoPhase(r, "documents")
     ELSE UNCHANGED verification /\ RevokeNext(r)
  /\ UNCHANGED <<document, storage, orphans, deletedAmid, torn>>

\* ... the verification, if there is one, ...
reviewVerification(r) ==
  /\ Phase(r, "review", "verification")
  /\ verification' = IF verification = None THEN None ELSE work[r].decision
  /\ IF verification # None /\ work[r].decision = "APPROVED"
     THEN GotoPhase(r, "documents") ELSE RevokeNext(r)
  /\ UNCHANGED <<document, storage, orphans, deletedAmid, torn>>

\* ... and the documents uploaded by now; then revokeAllForUser.
reviewDocuments(r) ==
  /\ Phase(r, "review", "documents")
  /\ document' = [o \in Objects |->
       IF o \in Rows /\ document[o].status = "UPLOADED"
       THEN [document[o] EXCEPT !.status = "APPROVED"] ELSE document[o]]
  /\ RevokeNext(r)
  /\ UNCHANGED <<storage, verification, orphans, deletedAmid, torn>>

Dies(r) ==
  /\ RequestDies(r)
  /\ work' = [work EXCEPT ![r] = NoWork]
  /\ orphans' = orphans \cup ({work[r].object} \ {None})
  /\ torn' = (torn \/ Reviewing(r))
  /\ UNCHANGED <<document, storage, verification, deletedAmid>>
-----------------------------------------------------------------------------
PartnerStep(r) ==
  \/ arrivePartner(r) \/ Refuse(r)
  \/ findLatest(r) \/ putObject(r) \/ supersede(r) \/ createDocument(r) \/ undoUpload(r)
  \/ requireDocument(r) \/ deleteObject(r) \/ deleteDocument(r)
  \/ assertSubmissionReady(r) \/ submitVerification(r) \/ submitPartnerProfile(r)
  \/ \E decision \in {"APPROVED", "REJECTED"} : reviewPartner(r, decision)
  \/ reviewVerification(r) \/ reviewDocuments(r)

Next ==
  \E r \in Requests :
    \/ SessionStep(r) /\ UNCHANGED partnerVars
    \/ PartnerStep(r)
    \/ Dies(r)

Spec == Init /\ [][Next]_vars
-----------------------------------------------------------------------------
\* The partner's approval, by which work is handed out, and the verification's,
\* by which payouts are made, do not contradict each other once the reviews are
\* through: unless a review died between its writes, or overlapped another or a
\* submission.
ReviewIsWhole ==
  /\ ~torn
  /\ \A r \in Requests : ~Reviewing(r)
  /\ verification # None
  /\ user.partnerApproval \in {"APPROVED", "REJECTED"}
  => verification = user.partnerApproval

\* One document of a type counts, however uploads interleave: the versions of
\* two that would both replace it collide; unless one was removed during an
\* upload, which makes room for a second version.
OneLiveDocument == Cardinality(Live) <= 1 \/ deletedAmid

\* The table and the object store agree through failed uploads and removals,
\* but for what a request has in hand or has left behind when it died.
DocumentsMatchStorage ==
  \A o \in Objects \ orphans :
    \/ o \in Rows <=> o \in storage
    \/ \E r \in Requests : work[r].object = o
=============================================================================
