------------------------------- MODULE Sessions -------------------------------
(***************************************************************************)
(* SessionService and what revokes sessions: one user's Session rows and   *)
(* their copies in Redis, each of which holds the user row as it was when  *)
(* it was cached.                                                          *)
(*                                                                         *)
(* A request goes through resolveToken before its handler runs, with the   *)
(* copy it found; every await on the database or Redis is a step, and its  *)
(* process may die between two.  Left out: expiry, which the row and the   *)
(* copy agree on; the OTP, password or staff token that a login or a reset *)
(* uses up; and lastSeenAt and the like.  Deleting a cached copy that is   *)
(* refused, and the query that follows, are seen by others as one step.    *)
(***************************************************************************)
EXTENDS Integers

CONSTANTS
  Tokens,       \* sessions there can be
  Requests,     \* requests that can be in flight together
  MaxRequests,  \* bound: requests of a behaviour
  None          \* no copy, no token

Approvals == {"NONE", "PENDING", "APPROVED", "REJECTED"}
User == [isBanned : BOOLEAN, partnerApproval : Approvals]

\* me and refresh are handlers of this module, the others of Partners.
Handlers == {"login", "me", "refresh", "logout", "logoutAll", "reset", "ban",
             "upload", "remove", "submit", "profile", "review"}
Steps == {"idle", "lookup", "find", "run", "insert", "cache", "revoke", "collect", "revokeAll", "drop"}

\* seen is the copy the handler runs with, doomed the tokens to be revoked.
Request == [ step : Steps, handler : Handlers, token : Tokens \cup {None},
             seen : User \cup {None}, doomed : SUBSET Tokens ]

ASSUME SessionsAssumption == None \notin Tokens \cup User /\ MaxRequests \in Nat

VARIABLES
  user,     \* the User row
  session,  \* of each token, its Session row
  cache,    \* Redis identity:session:<token>
  request,  \* of each slot, the request between two of its steps
  raced,    \* history: tokens whose copy a request brought back, missed or
            \* left behind when it died
  requests  \* bound: how many may still start

sessionVars == <<user, session, cache, request, raced, requests>>

SessionsTypeOK ==
  /\ user \in User
  /\ session \in [Tokens -> {"none", "active", "revoked"}]
  /\ cache \in [Tokens -> User \cup {None}]
  /\ request \in [Requests -> Request]
  /\ raced \subseteq Tokens
  /\ requests \in Nat

Idle == [step |-> "idle", handler |-> "login", token |-> None, seen |-> None, doomed |-> {}]

\* Sessions may have been opened before, and be cached.
SessionsInit ==
  /\ user \in [isBanned : {FALSE}, partnerApproval : {"NONE", "REJECTED", "APPROVED"}]
  /\ session \in [Tokens -> {"none", "active"}]
  /\ cache = [t \in Tokens |-> IF session[t] = "active" THEN user ELSE None]
  /\ request = [r \in Requests |-> Idle]
  /\ raced = {}
  /\ requests = MaxRequests
-----------------------------------------------------------------------------
At(r, step) == request[r].step = step
Runs(r, handler) == At(r, "run") /\ request[r].handler = handler
Become(r, next) == request' = [request EXCEPT ![r] = next]
Goto(r, step) == request' = [request EXCEPT ![r].step = step]
Finish(r) == Become(r, Idle)

Begin(r, next) ==
  /\ At(r, "idle")
  /\ requests > 0 /\ requests' = requests - 1
  /\ Become(r, next)

Active == {t \in Tokens : session[t] = "active"}

\* verifyOtp, loginAdmin: the account is looked up, ...
login(r) ==
  /\ ~user.isBanned
  /\ Begin(r, [Idle EXCEPT !.step = "insert"])
  /\ UNCHANGED <<user, session, cache, raced>>

\* ... and createSession inserts the row, which reads the user again.  A
\* refresh does it too, and will revoke the token it came with.
createSession(r) ==
  /\ At(r, "insert")
  /\ \E t \in Tokens :
       /\ session[t] = "none"
       /\ session' = [session EXCEPT ![t] = "active"]
       /\ Become(r, [request[r] EXCEPT
            !.step = "cache", !.token = t, !.seen = user, !.doomed = {request[r].token} \ {None}])
  /\ UNCHANGED <<user, cache, raced, requests>>

\* JwtAuthGuard: a request with a token.
arrive(r, handler, t) ==
  /\ session[t] # "none"
  /\ Begin(r, [Idle EXCEPT !.step = "lookup", !.handler = handler, !.token = t])
  /\ UNCHANGED <<user, session, cache, raced>>

\* resolveToken: a cached copy is taken unless it is a banned user's.
lookup(r) ==
  /\ At(r, "lookup")
  /\ LET t == request[r].token IN
       IF cache[t] # None /\ ~cache[t].isBanned
       THEN /\ Become(r, [request[r] EXCEPT !.step = "run", !.seen = cache[t]])
            /\ UNCHANGED cache
       ELSE /\ Goto(r, "find")
            /\ cache' = [cache EXCEPT ![t] = None]
  /\ UNCHANGED <<user, session, raced, requests>>

findActiveSession(r) ==
  /\ At(r, "find")
  /\ IF request[r].token \in Active /\ ~user.isBanned
     THEN Become(r, [request[r] EXCEPT !.step = "cache", !.seen = user])
     ELSE Finish(r)
  /\ UNCHANGED <<user, session, cache, raced, requests>>

\* The copy written is that of the row read before, which may be revoked now.
WriteCopy(r) ==
  LET t == request[r].token IN
    /\ cache' = [cache EXCEPT ![t] = request[r].seen]
    /\ raced' = IF t \in Active THEN raced ELSE raced \cup {t}

cacheSession(r) ==
  /\ At(r, "cache")
  /\ WriteCopy(r)
  /\ CASE request[r].handler = "login" -> Finish(r)
       [] request[r].handler = "refresh" -> Goto(r, "revoke")
       [] OTHER -> Goto(r, "run")
  /\ UNCHANGED <<user, session, requests>>

\* touchSession caches the copy once more.
getMe(r) ==
  /\ Runs(r, "me")
  /\ WriteCopy(r)
  /\ Finish(r)
  /\ UNCHANGED <<user, session, requests>>

rotateSession(r) ==
  /\ Runs(r, "refresh")
  /\ Goto(r, "insert")
  /\ UNCHANGED <<user, session, cache, raced, requests>>

logout(r) ==
  /\ Runs(r, "logout")
  /\ Become(r, [request[r] EXCEPT !.step = "revoke", !.doomed = {request[r].token}])
  /\ UNCHANGED <<user, session, cache, raced, requests>>

Revoked(tokens) ==
  session' = [t \in Tokens |-> IF t \in tokens \cap Active THEN "revoked" ELSE session[t]]

\* revokeToken: the row, then the copy.
revokeToken(r) ==
  /\ At(r, "revoke")
  /\ Revoked(request[r].doomed)
  /\ Goto(r, "drop")
  /\ UNCHANGED <<user, cache, raced, requests>>

\* Also changeStaffPassword, once the password is written.
logoutAll(r) ==
  /\ Runs(r, "logoutAll")
  /\ Goto(r, "collect")
  /\ UNCHANGED <<user, session, cache, raced, requests>>

\* resetStaffPassword, acceptStaffInvitation: by a staff token, not a session.
resetStaffPassword(r) ==
  /\ Begin(r, [Idle EXCEPT !.step = "collect", !.handler = "reset"])
  /\ UNCHANGED <<user, session, cache, raced>>

WrongBanUser(r) ==
  /\ Begin(r, Idle)
  /\ user' = [user EXCEPT !.isBanned = TRUE]
  /\ UNCHANGED <<session, cache, raced>>

banUser(r) ==
  /\ Begin(r, [Idle EXCEPT !.step = "collect", !.handler = "ban"])
  /\ user' = [user EXCEPT !.isBanned = TRUE]
  /\ UNCHANGED <<session, cache, raced>>

unbanUser(r) ==
  /\ Begin(r, Idle)
  /\ user' = [user EXCEPT !.isBanned = FALSE]
  /\ UNCHANGED <<session, cache, raced>>

\* revokeAllUserSessions: the query for the tokens, ...
collect(r) ==
  /\ At(r, "collect")
  /\ Become(r, [request[r] EXCEPT !.step = "revokeAll", !.doomed = Active])
  /\ UNCHANGED <<user, session, cache, raced, requests>>

\* ... the update, which may revoke a session born since, ...
revokeAll(r) ==
  /\ At(r, "revokeAll")
  /\ Revoked(Tokens)
  /\ raced' = raced \cup (Active \ request[r].doomed)
  /\ Goto(r, "drop")
  /\ UNCHANGED <<user, cache, requests>>

WrongDrop(r) ==
  /\ At(r, "drop")
  /\ cache' = [t \in Tokens |-> IF t = request[r].token THEN None ELSE cache[t]]
  /\ Finish(r)
  /\ UNCHANGED <<user, session, raced, requests>>

\* ... and the deletion of their copies.
drop(r) ==
  /\ At(r, "drop")
  /\ cache' = [t \in Tokens |-> IF t \in request[r].doomed THEN None ELSE cache[t]]
  /\ Finish(r)
  /\ UNCHANGED <<user, session, raced, requests>>

\* Between the change of the user and the end of the revocation.
Revoking(r) == request[r].handler \in {"ban", "review"} /\ request[r].step # "idle"

\* The process dies, or Redis or the database fails.
RequestDies(r) ==
  /\ ~At(r, "idle")
  /\ raced' = raced \cup
       (IF At(r, "drop") THEN request[r].doomed ELSE IF Revoking(r) THEN Active ELSE {})
  /\ Finish(r)
  /\ UNCHANGED <<user, session, cache, requests>>

SessionStep(r) ==
  \/ login(r) \/ createSession(r)
  \/ \E t \in Tokens : \E h \in {"me", "refresh", "logout", "logoutAll"} : arrive(r, h, t)
  \/ lookup(r) \/ findActiveSession(r) \/ cacheSession(r)
  \/ getMe(r) \/ rotateSession(r) \/ logout(r) \/ revokeToken(r)
  \/ logoutAll(r) \/ resetStaffPassword(r) \/ banUser(r) \/ unbanUser(r)
  \/ collect(r) \/ revokeAll(r) \/ drop(r)

SessionsNext == \E r \in Requests : SessionStep(r) \/ RequestDies(r)

SessionsSpec == SessionsInit /\ [][SessionsNext]_sessionVars
-----------------------------------------------------------------------------
AboutToDrop(t) == \E r \in Requests : At(r, "drop") /\ t \in request[r].doomed

\* A revoked session has no copy left in Redis, whatever requests were resolving
\* it meanwhile, but for the copy that a revocation is about to delete, and the
\* races named by raced: a copy read before and written after, a session born
\* between revokeAllUserSessions' query and its update, a process that died.
RevokedIsRefused ==
  \A t \in Tokens \ raced :
    session[t] = "revoked" => cache[t] = None \/ AboutToDrop(t)

\* Once a ban or a review is through, no copy that resolveToken accepts shows
\* the user as it was before, not banned or approved; but for the same races,
\* and a copy that another revocation, which came first, is about to delete.
NoStaleAccess ==
  (\A r \in Requests : ~Revoking(r)) =>
    \A t \in Tokens \ raced :
      cache[t] # None /\ ~cache[t].isBanned =>
        \/ AboutToDrop(t)
        \/ /\ ~user.isBanned
           /\ user.partnerApproval = "REJECTED" => cache[t].partnerApproval # "APPROVED"
=============================================================================
