---------------------------- MODULE PartnersProofs ----------------------------
(***************************************************************************)
(* What the session cache keeps up, for any number of sessions, requests   *)
(* and documents: a revoked session is refused, and a ban or a review      *)
(* overrules the copies made before it, but for the races named by raced.  *)
(*                                                                         *)
(* StepEffect sums up every action as what it does to the user, to the     *)
(* sessions, to their copies and to the request that takes it; the         *)
(* invariants follow from that summary without looking at actions again.   *)
(***************************************************************************)
EXTENDS Partners, FiniteSetTheorems, TLAPS

\* The copy grants no more than the user row u does.
Harmless(c, u) ==
  ~c.isBanned =>
    ~u.isBanned /\ (u.partnerApproval = "REJECTED" => c.partnerApproval # "APPROVED")

\* A ban or a review that has changed the user and will revoke all sessions.
Overrules(q) == q.handler \in {"ban", "review"} /\ q.step \in {"run", "collect", "revokeAll"}

\* Copies and requests are of sessions there are.
KnownTokens ==
  /\ \A t \in Tokens : cache[t] # None => session[t] # "none"
  /\ \A r \in Requests : request[r].token # None => session[request[r].token] # "none"

\* A request that handles a session's token has one.
Tokened(q) ==
  q.step \in {"lookup", "find", "cache"} \/ (q.step = "run" /\ q.handler # "review") => q.token # None

\* What is cached of an active session, or may still be, is harmless until
\* someone overrules it, who will revoke that session.
StaleIsOverruled ==
  \/ \E r \in Requests : Overrules(request[r])
  \/ \A t \in Active \ raced :
       /\ cache[t] # None => Harmless(cache[t], user)
       /\ \A r \in Requests :
            request[r].token = t /\ request[r].seen # None => Harmless(request[r].seen, user)

SessionsInv ==
  /\ SessionsTypeOK
  /\ KnownTokens
  /\ \A r \in Requests : Tokened(request[r])
  /\ RevokedIsRefused
  /\ StaleIsOverruled

\* What a step of r may do, next being the request r becomes.
Effect(r, next) ==
  /\ next \in Request /\ Tokened(next)
  /\ request' = [request EXCEPT ![r] = next]
  /\ user' \in User /\ requests' \in Nat
  /\ session' \in [Tokens -> {"none", "active", "revoked"}]
  /\ cache' \in [Tokens -> User \cup {None}]
  /\ raced \subseteq raced' /\ raced' \subseteq Tokens
  /\ \A t \in Tokens :
       \/ session'[t] = session[t]
       \/ session[t] = "none" /\ session'[t] = "active"
       \/ /\ session[t] = "active" /\ session'[t] = "revoked"
          /\ t \in raced' \/ (next.step = "drop" /\ t \in next.doomed)
  /\ request[r].step = "drop" => \A t \in request[r].doomed : t \in raced' \/ cache'[t] = None
  /\ \A t \in Tokens :
       \/ cache'[t] \in {cache[t], None}
       \/ /\ t = request[r].token /\ cache'[t] = request[r].seen
          /\ session'[t] = session[t] /\ (session[t] = "active" \/ t \in raced')
  /\ next.token \in {request[r].token, None} \/ session'[next.token] # "none"
  /\ \/ next.seen = None
     \/ next.seen = user /\ user' = user
     \/ next.token = request[r].token /\ next.seen = request[r].seen
     \/ next.token = request[r].token /\ next.token # None /\ next.seen = cache[next.token]
  /\ (\A c \in User : Harmless(c, user) => Harmless(c, user')) \/ Overrules(next)
  /\ Overrules(request[r]) => Overrules(next) \/ \A t \in Tokens \ raced' : session'[t] # "active"
-----------------------------------------------------------------------------
\* The invariants follow from the summary.
LEMMA EffectKeepsTypes ==
  ASSUME SessionsTypeOK, NEW r \in Requests, NEW next, Effect(r, next)
  PROVE  SessionsTypeOK'
<1>1. request' \in [Requests -> Request]
  BY DEF SessionsTypeOK, Effect
<1>2. QED
  BY <1>1 DEF SessionsTypeOK, Effect

LEMMA EffectOnRequests ==
  ASSUME SessionsTypeOK, NEW r \in Requests, NEW next, Effect(r, next)
  PROVE  request'[r] = next /\ \A q \in Requests \ {r} : request'[q] = request[q]
BY DEF SessionsTypeOK, Effect

LEMMA EffectKeepsTokens ==
  ASSUME SessionsTypeOK, KnownTokens, NEW r \in Requests, NEW next, Effect(r, next)
  PROVE  KnownTokens'
<1>0. /\ request'[r] = next /\ \A q \in Requests \ {r} : request'[q] = request[q]
      /\ \A q \in Requests : request[q].token \in Tokens \cup {None}
      /\ next.token \in Tokens \cup {None}
  BY EffectOnRequests DEF SessionsTypeOK, Effect, Request
<1>1. \A t \in Tokens : session[t] # "none" => session'[t] # "none"
  BY DEF Effect
<1>2. ASSUME NEW t \in Tokens, cache'[t] # None PROVE session'[t] # "none"
  <2>1. CASE cache'[t] = cache[t]
    BY <1>1, <1>2, <2>1 DEF KnownTokens
  <2>2. CASE cache'[t] # cache[t]
    <3>1. t = request[r].token /\ t # None
      BY <1>2, <2>2, SessionsAssumption DEF Effect
    <3>2. QED
      BY <1>1, <3>1 DEF KnownTokens
  <2>3. QED
    BY <2>1, <2>2
<1>3. ASSUME NEW q \in Requests, request'[q].token # None
      PROVE  session'[request'[q].token] # "none"
  <2>1. CASE q = r
    BY <1>0, <1>1, <1>3, <2>1 DEF Effect, KnownTokens
  <2>2. CASE q # r
    BY <1>0, <1>1, <1>3, <2>2 DEF KnownTokens
  <2>3. QED
    BY <2>1, <2>2
<1>4. QED
  BY <1>2, <1>3 DEF KnownTokens

LEMMA EffectKeepsRefused ==
  ASSUME SessionsTypeOK, RevokedIsRefused, NEW r \in Requests, NEW next, Effect(r, next)
  PROVE  RevokedIsRefused'
<1>0. request'[r] = next /\ \A q \in Requests \ {r} : request'[q] = request[q]
  BY EffectOnRequests
<1> SUFFICES ASSUME NEW t \in Tokens, t \notin raced', session'[t] = "revoked"
             PROVE  cache'[t] = None \/ \E q \in Requests : request'[q].step = "drop" /\ t \in request'[q].doomed
  BY DEF RevokedIsRefused, AboutToDrop, At
<1>1. t \notin raced
  BY DEF Effect
<1>2. CASE session[t] = "revoked"
  <2>1. cache'[t] \in {cache[t], None}
    BY <1>2 DEF Effect
  <2>2. CASE cache[t] = None
    BY <2>1, <2>2
  <2>3. ASSUME NEW q \in Requests, request[q].step = "drop", t \in request[q].doomed
        PROVE  cache'[t] = None \/ \E p \in Requests : request'[p].step = "drop" /\ t \in request'[p].doomed
    <3>1. CASE q = r
      BY <2>3, <3>1 DEF Effect
    <3>2. CASE q # r
      BY <1>0, <2>3, <3>2
    <3>3. QED
      BY <3>1, <3>2
  <2>4. QED
    BY <1>1, <1>2, <2>2, <2>3 DEF RevokedIsRefused, AboutToDrop, At
<1>3. CASE session[t] # "revoked"
  BY <1>0, <1>3 DEF Effect
<1>4. QED
  BY <1>2, <1>3

LEMMA EffectKeepsOverruled ==
  ASSUME SessionsTypeOK, KnownTokens, StaleIsOverruled, NEW r \in Requests, NEW next, Effect(r, next)
  PROVE  StaleIsOverruled'
<1>0. request'[r] = next /\ \A q \in Requests \ {r} : request'[q] = request[q]
  BY EffectOnRequests
<1>1. CASE \E q \in Requests \ {r} : Overrules(request[q])
  BY <1>0, <1>1 DEF StaleIsOverruled, Overrules
<1>2. CASE Overrules(next)
  BY <1>0, <1>2 DEF StaleIsOverruled, Overrules
<1>3. CASE Overrules(request[r]) /\ ~Overrules(next)
  <2>1. \A t \in Tokens \ raced' : session'[t] # "active"
    BY <1>3 DEF Effect
  <2>2. QED
    BY <2>1 DEF StaleIsOverruled, Active
<1>4. CASE ~Overrules(next) /\ ~\E q \in Requests : Overrules(request[q])
  <2>1. ASSUME NEW c \in User, Harmless(c, user) PROVE Harmless(c, user')
    BY <1>4, <2>1 DEF Effect
  <2>2. \A t \in Active \ raced :
          /\ cache[t] # None => Harmless(cache[t], user)
          /\ \A q \in Requests :
               request[q].token = t /\ request[q].seen # None => Harmless(request[q].seen, user)
    BY <1>4 DEF StaleIsOverruled
  <2>3. SUFFICES ASSUME NEW t \in Tokens, session'[t] = "active", t \notin raced'
                 PROVE  /\ cache'[t] # None => Harmless(cache'[t], user')
                        /\ \A q \in Requests :
                             request'[q].token = t /\ request'[q].seen # None => Harmless(request'[q].seen, user')
    BY DEF StaleIsOverruled, Active
  <2>4. /\ cache \in [Tokens -> User \cup {None}]
        /\ \A q \in Requests : request[q].seen \in User \cup {None}
        /\ user \in User /\ next.seen \in User \cup {None}
    BY DEF SessionsTypeOK, Request, Effect
  <2>5. CASE session[t] = "active"
    <3>1. cache[t] # None => Harmless(cache[t], user)
      BY <2>2, <2>3, <2>5 DEF Active, Effect
    <3>2. \A q \in Requests :
            request[q].token = t /\ request[q].seen # None => Harmless(request[q].seen, user)
      BY <2>2, <2>3, <2>5 DEF Active, Effect
    <3>3. cache'[t] # None => Harmless(cache'[t], user)
      BY <3>1, <3>2 DEF Effect
    <3>4. next.token = t /\ next.seen # None => Harmless(next.seen, user) \/ (next.seen = user /\ user' = user)
      <4>1. SUFFICES ASSUME next.token = t, next.seen # None
                     PROVE  Harmless(next.seen, user) \/ (next.seen = user /\ user' = user)
        OBVIOUS
      <4>2. CASE next.seen = user /\ user' = user
        BY <4>2
      <4>3. CASE next.token = request[r].token /\ next.seen = request[r].seen
        BY <3>2, <4>1, <4>3
      <4>4. CASE next.token = request[r].token /\ next.seen = cache[next.token]
        BY <3>1, <4>1, <4>4
      <4>5. QED
        BY <4>1, <4>2, <4>3, <4>4 DEF Effect
    <3>5. Harmless(user, user)
      BY DEF Harmless
    <3>6. ASSUME NEW q \in Requests, request'[q].token = t, request'[q].seen # None
          PROVE  Harmless(request'[q].seen, user)
      BY <1>0, <3>2, <3>4, <3>5, <3>6
    <3>7. cache'[t] \in User \cup {None} /\ \A q \in Requests : request'[q].seen \in User \cup {None}
      BY <1>0, <2>4 DEF Effect
    <3>8. ASSUME NEW c \in User, Harmless(c, user) PROVE Harmless(c, user')
      BY <2>1, <3>8
    <3>9. cache'[t] # None => Harmless(cache'[t], user')
      BY <2>1, <3>3, <3>7
    <3>10. \A q \in Requests :
             request'[q].token = t /\ request'[q].seen # None => Harmless(request'[q].seen, user')
      BY <2>1, <3>6, <3>7
    <3>11. QED
      BY <3>9, <3>10
  <2>6. CASE session[t] # "active"
    <3>1. session[t] = "none"
      BY <2>3, <2>6 DEF Effect
    <3>2. cache'[t] = None
      <4>1. cache[t] = None
        BY <3>1 DEF KnownTokens
      <4>2. t # None
        BY SessionsAssumption
      <4>3. t # request[r].token
        BY <3>1, <4>2 DEF KnownTokens
      <4>4. QED
        BY <4>1, <4>3 DEF Effect
    <3>3. \A q \in Requests : request[q].token # t
      BY <3>1, SessionsAssumption DEF KnownTokens
    <3>4. ASSUME NEW q \in Requests, request'[q].token = t, request'[q].seen # None
          PROVE  Harmless(request'[q].seen, user')
      <4>1. q = r /\ next.token = t /\ next.seen = user /\ user' = user
        BY <1>0, <3>3, <3>4 DEF Effect
      <4>2. Harmless(user, user)
        BY DEF Harmless
      <4>3. QED
        BY <1>0, <2>1, <2>4, <4>1, <4>2
    <3>5. QED
      BY <3>2, <3>4
  <2>7. QED
    BY <2>5, <2>6
<1>5. QED
  BY <1>1, <1>2, <1>3, <1>4
-----------------------------------------------------------------------------
\* Every action has such an effect, or leaves the sessions alone.

\* A step that touches no session, copy or history.
LEMMA QuietEffect ==
  ASSUME SessionsInv, NEW r \in Requests, NEW next \in Request, Tokened(next),
         request' = [request EXCEPT ![r] = next],
         UNCHANGED <<session, cache, raced>>, user' \in User, requests' \in Nat,
         request[r].step # "drop",
         next.token \in {request[r].token, None} \/ session[next.token] # "none",
         \/ next.seen \in {None, request[r].seen} /\ (next.seen = None \/ next.token = request[r].token)
         \/ next.seen = user /\ user' = user
         \/ next.token = request[r].token /\ next.token # None /\ next.seen = cache[next.token],
         (\A c \in User : Harmless(c, user) => Harmless(c, user')) \/ Overrules(next),
         Overrules(request[r]) => Overrules(next)
  PROVE  Effect(r, next)
<1>1. /\ session' \in [Tokens -> {"none", "active", "revoked"}]
      /\ cache' \in [Tokens -> User \cup {None}]
      /\ raced' \subseteq Tokens
  BY DEF SessionsInv, SessionsTypeOK
<1>2. QED
  BY <1>1 DEF Effect

LEMMA IdleIsRequest == Idle \in Request /\ Tokened(Idle) /\ ~Overrules(Idle)
BY DEF Idle, Request, Steps, Handlers, Tokened, Overrules

\* The request is over, and has revoked nothing.
LEMMA FinishEffect ==
  ASSUME SessionsInv, NEW r \in Requests, Finish(r),
         UNCHANGED <<session, cache, raced>>, user' \in User, requests' \in Nat,
         request[r].step # "drop", ~Overrules(request[r]),
         \A c \in User : Harmless(c, user) => Harmless(c, user')
  PROVE  Effect(r, Idle)
BY QuietEffect, IdleIsRequest DEF Finish, Become, Idle

\* The request goes to another step.
LEMMA GotoEffect ==
  ASSUME SessionsInv, NEW r \in Requests, NEW step \in Steps, Goto(r, step),
         UNCHANGED <<session, cache, raced, user, requests>>,
         request[r].step # "drop",
         Tokened([request[r] EXCEPT !.step = step]),
         Overrules(request[r]) => step \in {"run", "collect", "revokeAll"}
  PROVE  Effect(r, [request[r] EXCEPT !.step = step])
<1> DEFINE next == [request[r] EXCEPT !.step = step]
<1>1. request[r] \in Request
  BY DEF SessionsInv, SessionsTypeOK
<1>2. /\ next \in Request /\ next.token = request[r].token /\ next.seen = request[r].seen
      /\ next.handler = request[r].handler /\ next.step = step
  BY <1>1 DEF Request
<1>3. request' = [request EXCEPT ![r] = next]
  BY DEF Goto
<1>4. user' \in User /\ requests' \in Nat
  BY DEF SessionsInv, SessionsTypeOK
<1>5. Overrules(request[r]) => Overrules(next)
  BY <1>2 DEF Overrules
<1> HIDE DEF next
<1>6. Effect(r, next)
  BY <1>2, <1>3, <1>4, <1>5, QuietEffect DEF next
<1>7. QED
  BY <1>6 DEF next

\* A new request.
LEMMA BeginEffect ==
  ASSUME SessionsInv, NEW r \in Requests, NEW next \in Request, Tokened(next), Begin(r, next),
         UNCHANGED <<session, cache, raced>>, user' \in User,
         next.token # None => session[next.token] # "none", next.seen = None,
         (\A c \in User : Harmless(c, user) => Harmless(c, user')) \/ Overrules(next)
  PROVE  Effect(r, next)
<1>1. requests' \in Nat
  BY DEF SessionsInv, SessionsTypeOK, Begin
<1>2. request[r].step = "idle" /\ ~Overrules(request[r])
  BY DEF Begin, At, Overrules
<1>3. request' = [request EXCEPT ![r] = next]
  BY DEF Begin, Become
<1>4. QED
  BY <1>1, <1>2, <1>3, QuietEffect

\* A copy is written, and the request goes on.
LEMMA WriteEffect ==
  ASSUME SessionsInv, NEW r \in Requests, WriteCopy(r), request[r].token # None,
         NEW next \in Request, Tokened(next), request' = [request EXCEPT ![r] = next],
         UNCHANGED <<session, user, requests>>, request[r].step # "drop",
         \/ next.seen = None
         \/ next.token = request[r].token /\ next.seen = request[r].seen,
         next.token \in {request[r].token, None}, ~Overrules(request[r])
  PROVE  Effect(r, next)
<1> DEFINE t == request[r].token
<1>1. t \in Tokens /\ request[r].seen \in User \cup {None}
  BY DEF SessionsInv, SessionsTypeOK, Request
<1>2. /\ cache' \in [Tokens -> User \cup {None}] /\ session' \in [Tokens -> {"none", "active", "revoked"}]
      /\ user' \in User /\ requests' \in Nat
      /\ raced \subseteq raced' /\ raced' \subseteq Tokens
  BY <1>1 DEF SessionsInv, SessionsTypeOK, WriteCopy
<1>3. \A u \in Tokens :
        \/ cache'[u] \in {cache[u], None}
        \/ /\ u = t /\ cache'[u] = request[r].seen
           /\ session'[u] = session[u] /\ (session[u] = "active" \/ u \in raced')
  BY <1>1 DEF SessionsInv, SessionsTypeOK, WriteCopy, Active
<1>4. QED
  BY <1>2, <1>3 DEF Effect

LEMMA LoginEffect ==
  ASSUME SessionsInv, NEW r \in Requests, login(r)
  PROVE  \E next : Effect(r, next)
<1> DEFINE next == [Idle EXCEPT !.step = "insert"]
<1>1. next \in Request /\ Tokened(next) /\ next.token = None /\ next.seen = None
  BY DEF Idle, Request, Steps, Handlers, Tokened
<1>2. user' \in User /\ Begin(r, next) /\ UNCHANGED <<user, session, cache, raced>>
  BY DEF login, SessionsInv, SessionsTypeOK
<1> HIDE DEF next
<1>3. Effect(r, next)
  BY <1>1, <1>2, BeginEffect
<1>4. QED
  BY <1>3

LEMMA CreateSessionEffect ==
  ASSUME SessionsInv, NEW r \in Requests, createSession(r)
  PROVE  \E next : Effect(r, next)
<1>1. PICK t \in Tokens :
        /\ session[t] = "none"
        /\ session' = [session EXCEPT ![t] = "active"]
        /\ Become(r, [request[r] EXCEPT
             !.step = "cache", !.token = t, !.seen = user, !.doomed = {request[r].token} \ {None}])
  BY DEF createSession
<1> DEFINE next == [request[r] EXCEPT
             !.step = "cache", !.token = t, !.seen = user, !.doomed = {request[r].token} \ {None}]
<1>2. request[r] \in Request /\ request[r].step = "insert" /\ user \in User
  BY DEF SessionsInv, SessionsTypeOK, createSession, At
<1>3. next \in Request /\ next.step = "cache" /\ next.token = t /\ next.seen = user
  BY <1>2 DEF Request, Steps
<1>4. request' = [request EXCEPT ![r] = next] /\ UNCHANGED <<user, cache, raced, requests>>
  BY <1>1 DEF Become, createSession
<1> HIDE DEF next
<1>5. Tokened(next) /\ ~Overrules(request[r])
  BY <1>2, <1>3, SessionsAssumption DEF Tokened, Overrules
<1>6. /\ session' \in [Tokens -> {"none", "active", "revoked"}]
      /\ \A u \in Tokens : session'[u] = session[u] \/ (session[u] = "none" /\ session'[u] = "active")
      /\ session'[t] # "none"
  BY <1>1 DEF SessionsInv, SessionsTypeOK
<1>7. Effect(r, next)
  BY <1>2, <1>3, <1>4, <1>5, <1>6 DEF Effect, SessionsInv, SessionsTypeOK
<1>8. QED
  BY <1>7

LEMMA ArriveEffect ==
  ASSUME SessionsInv, NEW r \in Requests, NEW handler \in Handlers, NEW t \in Tokens, arrive(r, handler, t)
  PROVE  \E next : Effect(r, next)
<1> DEFINE next == [Idle EXCEPT !.step = "lookup", !.handler = handler, !.token = t]
<1>1. next \in Request /\ next.token = t /\ next.seen = None
  BY DEF Idle, Request, Steps
<1>2. /\ user' \in User /\ Begin(r, next) /\ UNCHANGED <<user, session, cache, raced>>
      /\ session[t] # "none"
  BY DEF arrive, SessionsInv, SessionsTypeOK
<1> HIDE DEF next
<1>3. Tokened(next)
  BY <1>1, SessionsAssumption DEF Tokened
<1>4. Effect(r, next)
  BY <1>1, <1>2, <1>3, BeginEffect
<1>5. QED
  BY <1>4

LEMMA LookupEffect ==
  ASSUME SessionsInv, NEW r \in Requests, lookup(r)
  PROVE  \E next : Effect(r, next)
<1> DEFINE t == request[r].token
<1>1. request[r] \in Request /\ request[r].step = "lookup" /\ t # None
  BY DEF SessionsInv, SessionsTypeOK, lookup, At, Tokened
<1>2. t \in Tokens /\ UNCHANGED <<user, session, raced, requests>> /\ user' \in User /\ requests' \in Nat
  BY <1>1 DEF Request, lookup, SessionsInv, SessionsTypeOK
<1>3. CASE cache[t] # None /\ ~cache[t].isBanned
  <2> DEFINE next == [request[r] EXCEPT !.step = "run", !.seen = cache[t]]
  <2>1. /\ next \in Request /\ next.token = t /\ next.seen = cache[t] /\ next.step = "run"
        /\ next.handler = request[r].handler
    BY <1>1, <1>2 DEF Request, Steps, SessionsInv, SessionsTypeOK
  <2>2. request' = [request EXCEPT ![r] = next] /\ UNCHANGED cache
    BY <1>3 DEF lookup, Become
  <2> HIDE DEF next
  <2>3. Tokened(next) /\ ~Overrules(request[r])
    BY <1>1, <2>1 DEF Tokened, Overrules
  <2>4. Effect(r, next)
    BY <1>1, <1>2, <2>1, <2>2, <2>3, QuietEffect
  <2>5. QED
    BY <2>4
<1>4. CASE ~(cache[t] # None /\ ~cache[t].isBanned)
  <2> DEFINE next == [request[r] EXCEPT !.step = "find"]
  <2>1. next \in Request /\ next.token = t /\ next.seen = request[r].seen /\ next.step = "find"
    BY <1>1, <1>2 DEF Request, Steps
  <2>2. request' = [request EXCEPT ![r] = next] /\ cache' = [cache EXCEPT ![t] = None]
    BY <1>4 DEF lookup, Goto
  <2> HIDE DEF next
  <2>3. Tokened(next) /\ ~Overrules(request[r])
    BY <1>1, <2>1 DEF Tokened, Overrules
  <2>4. /\ cache' \in [Tokens -> User \cup {None}]
        /\ \A u \in Tokens : cache'[u] \in {cache[u], None}
    BY <1>2, <2>2 DEF SessionsInv, SessionsTypeOK
  <2>5. Effect(r, next)
    BY <1>1, <1>2, <2>1, <2>2, <2>3, <2>4 DEF Effect, SessionsInv, SessionsTypeOK
  <2>6. QED
    BY <2>5
<1>5. QED
  BY <1>3, <1>4

LEMMA FindEffect ==
  ASSUME SessionsInv, NEW r \in Requests, findActiveSession(r)
  PROVE  \E next : Effect(r, next)
<1>1. /\ request[r] \in Request /\ request[r].step = "find" /\ request[r].token # None
      /\ ~Overrules(request[r])
  BY DEF SessionsInv, SessionsTypeOK, findActiveSession, At, Tokened, Overrules
<1>2. UNCHANGED <<user, session, cache, raced, requests>> /\ user' \in User /\ requests' \in Nat
  BY DEF findActiveSession, SessionsInv, SessionsTypeOK
<1>3. CASE request[r].token \in Active /\ ~user.isBanned
  <2> DEFINE next == [request[r] EXCEPT !.step = "cache", !.seen = user]
  <2>1. next \in Request /\ next.token = request[r].token /\ next.seen = user
    BY <1>1, <1>2 DEF Request, Steps
  <2>2. request' = [request EXCEPT ![r] = next]
    BY <1>3 DEF findActiveSession, Become
  <2> HIDE DEF next
  <2>3. Tokened(next)
    BY <1>1, <2>1 DEF Tokened
  <2>4. Effect(r, next)
    BY <1>1, <1>2, <2>1, <2>2, <2>3, QuietEffect
  <2>5. QED
    BY <2>4
<1>4. CASE ~(request[r].token \in Active /\ ~user.isBanned)
  <2>1. Finish(r)
    BY <1>4 DEF findActiveSession
  <2>2. Effect(r, Idle)
    BY <1>1, <1>2, <2>1, FinishEffect
  <2>3. QED
    BY <2>2
<1>5. QED
  BY <1>3, <1>4

LEMMA CacheEffect ==
  ASSUME SessionsInv, NEW r \in Requests, cacheSession(r)
  PROVE  \E next : Effect(r, next)
<1>1. /\ request[r] \in Request /\ request[r].step = "cache" /\ request[r].token # None
      /\ ~Overrules(request[r])
  BY DEF SessionsInv, SessionsTypeOK, cacheSession, At, Tokened, Overrules
<1>2. WriteCopy(r) /\ UNCHANGED <<session, user, requests>>
  BY DEF cacheSession
<1>3. CASE request[r].handler = "login"
  <2>1. request' = [request EXCEPT ![r] = Idle]
    BY <1>3 DEF cacheSession, Finish, Become
  <2>2. Idle.seen = None /\ Idle.token = None
    BY DEF Idle
  <2>3. Effect(r, Idle)
    BY <1>1, <1>2, <2>1, <2>2, IdleIsRequest, WriteEffect
  <2>4. QED
    BY <2>3
<1>4. ASSUME NEW step \in {"revoke", "run"}, Goto(r, step) PROVE \E next : Effect(r, next)
  <2> DEFINE next == [request[r] EXCEPT !.step = step]
  <2>1. next \in Request /\ next.token = request[r].token /\ next.seen = request[r].seen
    BY <1>1 DEF Request, Steps
  <2>2. request' = [request EXCEPT ![r] = next]
    BY <1>4 DEF Goto
  <2> HIDE DEF next
  <2>3. Tokened(next)
    BY <1>1, <2>1 DEF Tokened
  <2>4. Effect(r, next)
    BY <1>1, <1>2, <2>1, <2>2, <2>3, WriteEffect
  <2>5. QED
    BY <2>4
<1>5. \/ request[r].handler = "login"
      \/ Goto(r, "revoke")
      \/ Goto(r, "run")
  BY DEF cacheSession
<1>6. QED
  BY <1>3, <1>4, <1>5

LEMMA GetMeEffect ==
  ASSUME SessionsInv, NEW r \in Requests, getMe(r)
  PROVE  \E next : Effect(r, next)
<1>1. request[r].step = "run" /\ request[r].handler = "me" /\ request[r].token # None /\ ~Overrules(request[r])
  BY DEF SessionsInv, getMe, Runs, At, Tokened, Overrules
<1>2. WriteCopy(r) /\ UNCHANGED <<session, user, requests>> /\ request' = [request EXCEPT ![r] = Idle]
  BY DEF getMe, Finish, Become
<1>3. Idle.seen = None /\ Idle.token = None
  BY DEF Idle
<1>4. Effect(r, Idle)
  BY <1>1, <1>2, <1>3, IdleIsRequest, WriteEffect
<1>5. QED
  BY <1>4

\* A refresh or a logout of all sessions starts its own work.
LEMMA HandlerGoesOn ==
  ASSUME SessionsInv, NEW r \in Requests, rotateSession(r) \/ logoutAll(r)
  PROVE  \E next : Effect(r, next)
<1>1. PICK step \in {"insert", "collect"} : Goto(r, step) /\ UNCHANGED <<user, session, cache, raced, requests>>
  BY DEF rotateSession, logoutAll
<1>2. request[r] \in Request /\ request[r].step # "drop" /\ ~Overrules(request[r])
  BY DEF SessionsInv, SessionsTypeOK, rotateSession, logoutAll, Runs, At, Overrules
<1>3. Tokened([request[r] EXCEPT !.step = step])
  BY <1>2 DEF Tokened, Request
<1>4. Effect(r, [request[r] EXCEPT !.step = step])
  BY <1>1, <1>2, <1>3, GotoEffect DEF Steps
<1>5. QED
  BY <1>4

LEMMA LogoutEffect ==
  ASSUME SessionsInv, NEW r \in Requests, logout(r)
  PROVE  \E next : Effect(r, next)
<1> DEFINE next == [request[r] EXCEPT !.step = "revoke", !.doomed = {request[r].token}]
<1>1. /\ request[r] \in Request /\ request[r].step = "run" /\ request[r].token # None
      /\ ~Overrules(request[r])
  BY DEF SessionsInv, SessionsTypeOK, logout, Runs, At, Tokened, Overrules
<1>2. /\ UNCHANGED <<user, session, cache, raced, requests>> /\ user' \in User /\ requests' \in Nat
      /\ request' = [request EXCEPT ![r] = next]
  BY DEF logout, Become, SessionsInv, SessionsTypeOK
<1>3. /\ next \in Request /\ next.token = request[r].token /\ next.seen = request[r].seen
      /\ next.step = "revoke"
  BY <1>1 DEF Request, Steps
<1> HIDE DEF next
<1>4. Tokened(next) /\ next.seen \in {None, request[r].seen}
  BY <1>1, <1>3 DEF Tokened
<1>5. Effect(r, next)
  BY <1>1, <1>2, <1>3, <1>4, QuietEffect
<1>6. QED
  BY <1>5

LEMMA RevokeTokenEffect ==
  ASSUME SessionsInv, NEW r \in Requests, revokeToken(r)
  PROVE  \E next : Effect(r, next)
<1> DEFINE next == [request[r] EXCEPT !.step = "drop"]
<1>1. request[r] \in Request /\ request[r].step = "revoke" /\ ~Overrules(request[r])
  BY DEF SessionsInv, SessionsTypeOK, revokeToken, At, Overrules
<1>2. /\ UNCHANGED <<user, cache, raced, requests>> /\ request' = [request EXCEPT ![r] = next]
      /\ session' = [t \in Tokens |-> IF t \in request[r].doomed \cap Active THEN "revoked" ELSE session[t]]
  BY DEF revokeToken, Goto, Revoked
<1>3. /\ next \in Request /\ next.token = request[r].token /\ next.seen = request[r].seen
      /\ next.step = "drop" /\ next.doomed = request[r].doomed
  BY <1>1 DEF Request, Steps
<1> HIDE DEF next
<1>4. Tokened(next)
  BY <1>3 DEF Tokened
<1>5. /\ session' \in [Tokens -> {"none", "active", "revoked"}]
      /\ \A t \in Tokens :
           \/ session'[t] = session[t]
           \/ session[t] = "active" /\ session'[t] = "revoked" /\ t \in next.doomed
  BY <1>2, <1>3 DEF SessionsInv, SessionsTypeOK, Active
<1>6. Effect(r, next)
  BY <1>1, <1>2, <1>3, <1>4, <1>5 DEF Effect, SessionsInv, SessionsTypeOK
<1>7. QED
  BY <1>6

LEMMA BeginSessionsEffect ==
  ASSUME SessionsInv, NEW r \in Requests, resetStaffPassword(r) \/ banUser(r) \/ unbanUser(r)
  PROVE  \E next : Effect(r, next)
<1>1. UNCHANGED <<session, cache, raced>>
  BY DEF resetStaffPassword, banUser, unbanUser
<1>2. CASE resetStaffPassword(r)
  <2> DEFINE next == [Idle EXCEPT !.step = "collect", !.handler = "reset"]
  <2>1. next \in Request /\ Tokened(next) /\ next.token = None /\ next.seen = None
    BY DEF Idle, Request, Steps, Handlers, Tokened
  <2>2. Begin(r, next) /\ user' = user /\ user' \in User
    BY <1>2 DEF resetStaffPassword, SessionsInv, SessionsTypeOK
  <2> HIDE DEF next
  <2>3. Effect(r, next)
    BY <1>1, <2>1, <2>2, BeginEffect
  <2>4. QED
    BY <2>3
<1>3. CASE banUser(r)
  <2> DEFINE next == [Idle EXCEPT !.step = "collect", !.handler = "ban"]
  <2>1. next \in Request /\ Tokened(next) /\ next.token = None /\ next.seen = None /\ Overrules(next)
    BY DEF Idle, Request, Steps, Handlers, Tokened, Overrules
  <2>2. Begin(r, next) /\ user' \in User
    BY <1>3 DEF banUser, SessionsInv, SessionsTypeOK, User
  <2> HIDE DEF next
  <2>3. Effect(r, next)
    BY <1>1, <2>1, <2>2, BeginEffect
  <2>4. QED
    BY <2>3
<1>4. CASE unbanUser(r)
  <2>1. Idle.token = None /\ Idle.seen = None
    BY DEF Idle
  <2>2. /\ Begin(r, Idle) /\ user' \in User
        /\ \A c \in User : Harmless(c, user) => Harmless(c, user')
    BY <1>4 DEF unbanUser, SessionsInv, SessionsTypeOK, User, Harmless
  <2>3. Effect(r, Idle)
    BY <1>1, <2>1, <2>2, BeginEffect, IdleIsRequest
  <2>4. QED
    BY <2>3
<1>5. QED
  BY <1>2, <1>3, <1>4

LEMMA CollectEffect ==
  ASSUME SessionsInv, NEW r \in Requests, collect(r)
  PROVE  \E next : Effect(r, next)
<1> DEFINE next == [request[r] EXCEPT !.step = "revokeAll", !.doomed = Active]
<1>1. request[r] \in Request /\ request[r].step = "collect"
  BY DEF SessionsInv, SessionsTypeOK, collect, At
<1>2. /\ UNCHANGED <<user, session, cache, raced, requests>> /\ user' \in User /\ requests' \in Nat
      /\ request' = [request EXCEPT ![r] = next]
  BY DEF collect, Become, SessionsInv, SessionsTypeOK
<1>3. /\ next \in Request /\ next.token = request[r].token /\ next.seen = request[r].seen
      /\ next.step = "revokeAll" /\ next.handler = request[r].handler
  BY <1>1 DEF Request, Steps, Active
<1> HIDE DEF next
<1>4. Tokened(next) /\ (Overrules(request[r]) => Overrules(next))
  BY <1>3 DEF Tokened, Overrules
<1>5. Effect(r, next)
  BY <1>1, <1>2, <1>3, <1>4, QuietEffect
<1>6. QED
  BY <1>5

LEMMA RevokeAllEffect ==
  ASSUME SessionsInv, NEW r \in Requests, revokeAll(r)
  PROVE  \E next : Effect(r, next)
<1> DEFINE next == [request[r] EXCEPT !.step = "drop"]
<1>1. request[r] \in Request /\ request[r].step = "revokeAll"
  BY DEF SessionsInv, SessionsTypeOK, revokeAll, At
<1>2. /\ UNCHANGED <<user, cache, requests>> /\ request' = [request EXCEPT ![r] = next]
      /\ session' = [t \in Tokens |-> IF t \in Tokens \cap Active THEN "revoked" ELSE session[t]]
      /\ raced' = raced \cup (Active \ request[r].doomed)
  BY DEF revokeAll, Goto, Revoked
<1>3. /\ next \in Request /\ next.token = request[r].token /\ next.seen = request[r].seen
      /\ next.step = "drop" /\ next.doomed = request[r].doomed
  BY <1>1 DEF Request, Steps
<1> HIDE DEF next
<1>4. Tokened(next)
  BY <1>3 DEF Tokened
<1>5. /\ session' \in [Tokens -> {"none", "active", "revoked"}]
      /\ raced \subseteq raced' /\ raced' \subseteq Tokens
      /\ \A t \in Tokens : session'[t] # "active"
      /\ \A t \in Tokens :
           \/ session'[t] = session[t]
           \/ session[t] = "active" /\ session'[t] = "revoked" /\ (t \in raced' \/ t \in next.doomed)
  BY <1>2, <1>3 DEF SessionsInv, SessionsTypeOK, Active
<1>6. Effect(r, next)
  BY <1>1, <1>2, <1>3, <1>4, <1>5 DEF Effect, SessionsInv, SessionsTypeOK
<1>7. QED
  BY <1>6

LEMMA DropEffect ==
  ASSUME SessionsInv, NEW r \in Requests, drop(r)
  PROVE  \E next : Effect(r, next)
<1>1. /\ request[r].step = "drop" /\ ~Overrules(request[r])
      /\ UNCHANGED <<user, session, raced, requests>> /\ request' = [request EXCEPT ![r] = Idle]
      /\ cache' = [t \in Tokens |-> IF t \in request[r].doomed THEN None ELSE cache[t]]
  BY DEF drop, At, Overrules, Finish, Become
<1>2. /\ Idle \in Request /\ Tokened(Idle) /\ Idle.token = None /\ Idle.seen = None
  BY IdleIsRequest DEF Idle
<1>3. /\ cache' \in [Tokens -> User \cup {None}]
      /\ \A t \in Tokens : cache'[t] \in {cache[t], None}
      /\ request[r].doomed \subseteq Tokens
      /\ \A t \in request[r].doomed : cache'[t] = None
  BY <1>1 DEF SessionsInv, SessionsTypeOK, Request
<1>4. Effect(r, Idle)
  BY <1>1, <1>2, <1>3 DEF Effect, SessionsInv, SessionsTypeOK
<1>5. QED
  BY <1>4

LEMMA DiesEffect ==
  ASSUME SessionsInv, NEW r \in Requests, RequestDies(r)
  PROVE  \E next : Effect(r, next)
<1>1. /\ UNCHANGED <<user, session, cache, requests>> /\ request' = [request EXCEPT ![r] = Idle]
      /\ request[r] \in Request
  BY DEF RequestDies, Finish, Become, SessionsInv, SessionsTypeOK
<1>2. /\ Idle \in Request /\ Tokened(Idle) /\ Idle.token = None /\ Idle.seen = None
  BY IdleIsRequest DEF Idle
<1>3. /\ raced \subseteq raced' /\ raced' \subseteq Tokens
      /\ request[r].step = "drop" => request[r].doomed \subseteq raced'
      /\ Overrules(request[r]) => Active \subseteq raced'
  BY <1>1 DEF RequestDies, At, Revoking, Overrules, Request, Active, SessionsInv, SessionsTypeOK
<1>4. Effect(r, Idle)
  BY <1>1, <1>2, <1>3 DEF Effect, SessionsInv, SessionsTypeOK, Active
<1>5. QED
  BY <1>4

LEMMA SessionStepEffect ==
  ASSUME SessionsInv, NEW r \in Requests, SessionStep(r)
  PROVE  \E next : Effect(r, next)
<1>1. CASE \E t \in Tokens : \E h \in {"me", "refresh", "logout", "logoutAll"} : arrive(r, h, t)
  BY <1>1, ArriveEffect DEF Handlers
<1>2. CASE login(r) \/ createSession(r) \/ lookup(r) \/ findActiveSession(r) \/ cacheSession(r)
  BY <1>2, LoginEffect, CreateSessionEffect, LookupEffect, FindEffect, CacheEffect
<1>3. CASE \/ getMe(r) \/ rotateSession(r) \/ logout(r) \/ revokeToken(r) \/ logoutAll(r)
           \/ resetStaffPassword(r) \/ banUser(r) \/ unbanUser(r)
  BY <1>3, GetMeEffect, HandlerGoesOn, LogoutEffect, RevokeTokenEffect, BeginSessionsEffect
<1>4. CASE collect(r) \/ revokeAll(r) \/ drop(r)
  BY <1>4, CollectEffect, RevokeAllEffect, DropEffect
<1>5. QED
  BY <1>1, <1>2, <1>3, <1>4 DEF SessionStep
-----------------------------------------------------------------------------
\* A handler of a partner returns or throws.
LEMMA ReturnEffect ==
  ASSUME SessionsInv, NEW r \in Requests, Return(r),
         NEW handler \in {"upload", "remove", "submit", "profile"}, Runs(r, handler),
         user' \in User, \A c \in User : Harmless(c, user) => Harmless(c, user')
  PROVE  Effect(r, Idle)
<1>1. request[r].step # "drop" /\ ~Overrules(request[r])
  BY DEF Runs, At, Overrules
<1>2. Finish(r) /\ UNCHANGED <<session, cache, raced>> /\ requests' \in Nat
  BY DEF Return, SessionsInv, SessionsTypeOK
<1>3. QED
  BY <1>1, <1>2, FinishEffect

\* A review has written, and revokes next.
LEMMA RevokeNextEffect ==
  ASSUME SessionsInv, NEW r \in Requests, RevokeNext(r), Runs(r, "review")
  PROVE  \E next : Effect(r, next)
<1>1. /\ request[r].step # "drop" /\ Tokened([request[r] EXCEPT !.step = "collect"])
      /\ Goto(r, "collect") /\ UNCHANGED <<session, cache, raced, user, requests>>
  <2>1. request[r] \in Request
    BY DEF SessionsInv, SessionsTypeOK
  <2>2. QED
    BY <2>1 DEF Runs, At, Tokened, Request, RevokeNext
<1>2. Effect(r, [request[r] EXCEPT !.step = "collect"])
  BY <1>1, GotoEffect DEF Steps
<1>3. QED
  BY <1>2

LEMMA ReviewPartnerEffect ==
  ASSUME SessionsInv, NEW r \in Requests, NEW decision \in {"APPROVED", "REJECTED"},
         reviewPartner(r, decision)
  PROVE  \E next : Effect(r, next)
<1> DEFINE next == [Idle EXCEPT !.step = "run", !.handler = "review"]
<1>1. next \in Request /\ Tokened(next) /\ next.token = None /\ next.seen = None /\ Overrules(next)
  BY DEF Idle, Request, Steps, Handlers, Tokened, Overrules
<1>2. Begin(r, next) /\ UNCHANGED <<session, cache, raced>> /\ user' \in User
  BY DEF reviewPartner, SessionsInv, SessionsTypeOK, User, Approvals
<1> HIDE DEF next
<1>3. Effect(r, next)
  BY <1>1, <1>2, BeginEffect
<1>4. QED
  BY <1>3

LEMMA PartnerStepEffect ==
  ASSUME SessionsInv, NEW r \in Requests, PartnerStep(r)
  PROVE  UNCHANGED sessionVars \/ \E next : Effect(r, next)
<1>1. user \in User
  BY DEF SessionsInv, SessionsTypeOK
<1>2. CASE arrivePartner(r)
  BY <1>2, ArriveEffect DEF arrivePartner, Handlers
<1>3. CASE Refuse(r) \/ undoUpload(r) \/ deleteDocument(r)
  <2>1. Return(r) /\ user' = user
    BY <1>3 DEF Refuse, undoUpload, deleteDocument
  <2>2. PICK handler \in {"upload", "remove", "submit", "profile"} : Runs(r, handler)
    BY <1>3 DEF Refuse, undoUpload, deleteDocument, Phase
  <2>3. QED
    BY <1>1, <2>1, <2>2, ReturnEffect
<1>4. CASE \/ findLatest(r) \/ putObject(r) \/ supersede(r)
           \/ requireDocument(r) \/ deleteObject(r) \/ assertSubmissionReady(r)
  BY <1>4 DEF findLatest, putObject, supersede, requireDocument, deleteObject,
              assertSubmissionReady, GotoPhase, Working
<1>5. CASE createDocument(r)
  <2>1. Runs(r, "upload") /\ UNCHANGED user
    BY <1>5 DEF createDocument, Phase, GotoPhase, Working, sessionVars
  <2>2. CASE VersionTaken(work[r].version)
    BY <1>5, <2>2 DEF createDocument, GotoPhase, Working
  <2>3. CASE ~VersionTaken(work[r].version)
    <3>1. Return(r)
      BY <1>5, <2>3 DEF createDocument
    <3>2. QED
      BY <1>1, <2>1, <3>1, ReturnEffect
  <2>4. QED
    BY <2>2, <2>3
<1>6. CASE submitVerification(r) \/ submitPartnerProfile(r)
  <2>1. Return(r) /\ user' = [user EXCEPT !.partnerApproval = "PENDING"]
    BY <1>6 DEF submitVerification, submitPartnerProfile
  <2>2. PICK handler \in {"submit", "profile"} : Runs(r, handler)
    BY <1>6 DEF submitVerification, submitPartnerProfile, Phase
  <2>3. user' \in User /\ \A c \in User : Harmless(c, user) => Harmless(c, user')
    BY <1>1, <2>1 DEF User, Approvals, Harmless
  <2>4. QED
    BY <2>1, <2>2, <2>3, ReturnEffect
<1>7. CASE \E decision \in {"APPROVED", "REJECTED"} : reviewPartner(r, decision)
  BY <1>7, ReviewPartnerEffect
<1>8. CASE reviewVerification(r) \/ reviewDocuments(r)
  <2>1. Runs(r, "review")
    BY <1>8 DEF reviewVerification, reviewDocuments, Phase
  <2>2. UNCHANGED sessionVars \/ RevokeNext(r)
    BY <1>8 DEF reviewVerification, reviewDocuments, GotoPhase, Working
  <2>3. QED
    BY <2>1, <2>2, RevokeNextEffect
<1>9. QED
  BY <1>2, <1>3, <1>4, <1>5, <1>6, <1>7, <1>8 DEF PartnerStep
-----------------------------------------------------------------------------
\* The sessions keep their invariant.
LEMMA SessionsInitially == SessionsInit => SessionsInv
<1> SUFFICES ASSUME SessionsInit PROVE SessionsInv
  OBVIOUS
<1>1. user \in User /\ requests \in Nat
  BY SessionsAssumption DEF SessionsInit, User, Approvals
<1>2. \A r \in Requests : request[r] = Idle
  BY DEF SessionsInit
<1>3. SessionsTypeOK
  BY <1>1, IdleIsRequest DEF SessionsInit, SessionsTypeOK
<1>4. KnownTokens
  BY <1>2 DEF SessionsInit, KnownTokens, Idle
<1>5. \A r \in Requests : Tokened(request[r])
  BY <1>2, IdleIsRequest
<1>6. RevokedIsRefused
  BY DEF SessionsInit, RevokedIsRefused
<1>7. StaleIsOverruled
  <2>1. Harmless(user, user)
    BY DEF Harmless
  <2>2. \A t \in Active : cache[t] = user
    BY DEF SessionsInit, Active
  <2>3. QED
    BY <1>2, <2>1, <2>2 DEF StaleIsOverruled, Idle
<1>8. QED
  BY <1>3, <1>4, <1>5, <1>6, <1>7 DEF SessionsInv

LEMMA SessionsInductive == SessionsInv /\ [Next]_vars => SessionsInv'
<1>1. ASSUME SessionsInv, UNCHANGED sessionVars PROVE SessionsInv'
  BY <1>1 DEF SessionsInv, sessionVars, SessionsTypeOK, KnownTokens, RevokedIsRefused,
              StaleIsOverruled, Active, AboutToDrop, At
<1>2. ASSUME SessionsInv, NEW r \in Requests, NEW next, Effect(r, next) PROVE SessionsInv'
  <2>1. SessionsTypeOK' /\ KnownTokens' /\ RevokedIsRefused' /\ StaleIsOverruled'
    BY <1>2, EffectKeepsTypes, EffectKeepsTokens, EffectKeepsRefused, EffectKeepsOverruled DEF SessionsInv
  <2>2. \A q \in Requests : Tokened(request'[q])
    BY <1>2, EffectOnRequests DEF SessionsInv, Effect
  <2>3. QED
    BY <2>1, <2>2 DEF SessionsInv
<1>3. SUFFICES ASSUME SessionsInv, [Next]_vars PROVE SessionsInv'
  OBVIOUS
<1>4. CASE UNCHANGED vars
  BY <1>1, <1>3, <1>4 DEF vars
<1>5. CASE Next
  <2>1. PICK r \in Requests : SessionStep(r) \/ PartnerStep(r) \/ Dies(r)
    BY <1>5 DEF Next
  <2>2. UNCHANGED sessionVars \/ \E next : Effect(r, next)
    BY <1>3, <2>1, SessionStepEffect, PartnerStepEffect, DiesEffect DEF Dies
  <2>3. QED
    BY <1>1, <1>2, <1>3, <2>2
<1>6. QED
  BY <1>3, <1>4, <1>5

LEMMA NoWorkIsWork == NoWork \in Work
BY DEF NoWork, Work, Approvals

\* What a handler has read keeps its type.
LEMMA WorkTypes ==
  ASSUME TypeOK, NEW r \in Requests, PartnerStep(r)
  PROVE  work' \in [Requests -> Work]
<1>1. work \in [Requests -> Work] /\ work[r] \in Work
  BY DEF TypeOK
<1>2. ASSUME NEW phase \in {"transaction", "undo", "deleteRow", "documents"},
             work' = [work EXCEPT ![r] = [work[r] EXCEPT !.phase = phase]]
      PROVE  work' \in [Requests -> Work]
  <2>1. [work[r] EXCEPT !.phase = phase] \in Work
    BY <1>1 DEF Work
  <2>2. QED
    BY <1>1, <1>2, <2>1
<1>3. ASSUME work' = [work EXCEPT ![r] = NoWork] PROVE work' \in [Requests -> Work]
  BY <1>1, <1>3, NoWorkIsWork
<1>4. CASE arrivePartner(r)
  BY <1>1, <1>4 DEF arrivePartner, partnerVars
<1>5. CASE Refuse(r) \/ undoUpload(r) \/ deleteDocument(r) \/ submitVerification(r) \/ submitPartnerProfile(r)
  BY <1>3, <1>5 DEF Refuse, undoUpload, deleteDocument, submitVerification, submitPartnerProfile, Return
<1>6. CASE findLatest(r)
  <2>1. PICK latest \in {0} \cup {document[o].version : o \in Rows} :
          Working(r, [NoWork EXCEPT !.phase = "put", !.version = latest + 1])
    BY <1>6 DEF findLatest
  <2>2. \A o \in Rows : document[o].version \in Nat
    BY DEF TypeOK, Rows, Row
  <2>3. latest + 1 \in Nat
    BY <2>2
  <2>4. [NoWork EXCEPT !.phase = "put", !.version = latest + 1] \in Work
    BY <2>3, NoWorkIsWork DEF Work
  <2>5. QED
    BY <1>1, <2>1, <2>4 DEF Working
<1>7. CASE putObject(r)
  <2>1. PICK o \in Objects : Working(r, [work[r] EXCEPT !.phase = "supersede", !.object = o])
    BY <1>7 DEF putObject
  <2>2. [work[r] EXCEPT !.phase = "supersede", !.object = o] \in Work
    BY <1>1 DEF Work
  <2>3. QED
    BY <1>1, <2>1, <2>2 DEF Working
<1>8. CASE supersede(r)
  <2>1. [work[r] EXCEPT !.phase = "create", !.rows = Live] \in Work
    BY <1>1 DEF Work, Live, Rows
  <2>2. QED
    BY <1>1, <1>8, <2>1 DEF supersede, Working
<1>9. CASE createDocument(r)
  BY <1>2, <1>3, <1>9 DEF createDocument, GotoPhase, Working, Return
<1>10. CASE requireDocument(r)
  <2>1. PICK o \in Live : Working(r, [NoWork EXCEPT !.phase = "deleteObject", !.object = o])
    BY <1>10 DEF requireDocument
  <2>2. [NoWork EXCEPT !.phase = "deleteObject", !.object = o] \in Work
    BY NoWorkIsWork DEF Work, Live, Rows
  <2>3. QED
    BY <1>1, <2>1, <2>2 DEF Working
<1>11. CASE deleteObject(r) \/ assertSubmissionReady(r)
  BY <1>2, <1>11 DEF deleteObject, assertSubmissionReady, GotoPhase, Working
<1>12. CASE \E decision \in {"APPROVED", "REJECTED"} : reviewPartner(r, decision)
  <2>1. PICK decision \in {"APPROVED", "REJECTED"} :
          work' = [work EXCEPT ![r] = [NoWork EXCEPT !.phase = "verification", !.decision = decision]]
    BY <1>12 DEF reviewPartner
  <2>2. [NoWork EXCEPT !.phase = "verification", !.decision = decision] \in Work
    BY NoWorkIsWork DEF Work, Approvals
  <2>3. QED
    BY <1>1, <2>1, <2>2
<1>13. CASE reviewVerification(r) \/ reviewDocuments(r)
  BY <1>2, <1>3, <1>13 DEF reviewVerification, reviewDocuments, GotoPhase, Working, RevokeNext
<1>14. QED
  BY <1>4, <1>5, <1>6, <1>7, <1>8, <1>9, <1>10, <1>11, <1>12, <1>13 DEF PartnerStep

\* So do the documents.
LEMMA DocumentTypes ==
  ASSUME TypeOK, NEW r \in Requests, PartnerStep(r)
  PROVE  document' \in [Objects -> Row \cup {None}]
<1>1. /\ document \in [Objects -> Row \cup {None}]
      /\ \A o \in Rows : document[o] \in Row
      /\ work[r] \in Work
  BY DEF TypeOK, Rows
<1>2. CASE document' = document
  BY <1>1, <1>2
<1>3. CASE createDocument(r) /\ document' # document
  <2>1. document' = [o \in Objects |->
               IF o = work[r].object
               THEN [version |-> work[r].version, status |-> "UPLOADED", attached |-> FALSE]
               ELSE IF o \in work[r].rows \cap Rows
                    THEN [document[o] EXCEPT !.status = "SUPERSEDED"] ELSE document[o]]
    BY <1>3 DEF createDocument
  <2>2. [version |-> work[r].version, status |-> "UPLOADED", attached |-> FALSE] \in Row
    BY <1>1 DEF Row, Work
  <2>3. \A o \in Rows : [document[o] EXCEPT !.status = "SUPERSEDED"] \in Row
    BY <1>1 DEF Row
  <2>4. QED
    BY <1>1, <2>1, <2>2, <2>3
<1>4. CASE deleteDocument(r)
  BY <1>1, <1>4 DEF deleteDocument
<1>5. CASE submitVerification(r)
  <2>1. \A o \in Rows : [document[o] EXCEPT !.attached = TRUE] \in Row
    BY <1>1 DEF Row
  <2>2. QED
    BY <1>1, <1>5, <2>1 DEF submitVerification, Live
<1>6. CASE reviewDocuments(r)
  <2>1. \A o \in Rows : [document[o] EXCEPT !.status = "APPROVED"] \in Row
    BY <1>1 DEF Row
  <2>2. QED
    BY <1>1, <1>6, <2>1 DEF reviewDocuments
<1>7. QED
  BY <1>2, <1>3, <1>4, <1>5, <1>6 DEF PartnerStep, arrivePartner, partnerVars, Refuse, findLatest,
     putObject, supersede, createDocument, undoUpload, requireDocument, deleteObject,
     assertSubmissionReady, submitPartnerProfile, reviewPartner, reviewVerification

LEMMA TypesInductive == SessionsInv /\ TypeOK /\ [Next]_vars => TypeOK'
<1> SUFFICES ASSUME SessionsInv, TypeOK, [Next]_vars PROVE TypeOK'
  OBVIOUS
<1>1. SessionsTypeOK'
  BY SessionsInductive DEF SessionsInv
<1>2. CASE UNCHANGED partnerVars
  BY <1>1, <1>2 DEF TypeOK, partnerVars
<1>3. ASSUME NEW r \in Requests, PartnerStep(r) PROVE TypeOK'
  <2>1. work[r] \in Work
    BY DEF TypeOK
  <2>2. storage' \subseteq Objects
    <3>1. CASE putObject(r)
      BY <3>1 DEF putObject, TypeOK
    <3>2. CASE undoUpload(r) \/ deleteObject(r)
      BY <3>2 DEF undoUpload, deleteObject, TypeOK
    <3>3. ASSUME ~putObject(r), ~undoUpload(r), ~deleteObject(r) PROVE storage' = storage
      BY <1>3, <3>3 DEF PartnerStep, arrivePartner, partnerVars, Refuse, findLatest, supersede,
         createDocument, requireDocument, deleteDocument, assertSubmissionReady, submitVerification,
         submitPartnerProfile, reviewPartner, reviewVerification, reviewDocuments
    <3>4. QED
      BY <3>1, <3>2, <3>3 DEF TypeOK
  <2>3. verification' \in Approvals \cup {None}
    BY <1>3, <2>1 DEF PartnerStep, TypeOK, arrivePartner, partnerVars, Refuse, findLatest, putObject, supersede,
       createDocument, undoUpload, requireDocument, deleteObject, deleteDocument, assertSubmissionReady,
       submitVerification, submitPartnerProfile, reviewPartner, reviewVerification, reviewDocuments, Work, Approvals
  <2>4. orphans' \subseteq Objects
    BY <1>3 DEF PartnerStep, TypeOK, arrivePartner, partnerVars, Refuse, findLatest, putObject, supersede,
       createDocument, undoUpload, requireDocument, deleteObject, deleteDocument, assertSubmissionReady,
       submitVerification, submitPartnerProfile, reviewPartner, reviewVerification, reviewDocuments
  <2>5. deletedAmid' = deletedAmid \/ deletedAmid' \in BOOLEAN
    BY <1>3, Zenon DEF PartnerStep, TypeOK, arrivePartner, partnerVars, Refuse, findLatest, putObject, supersede,
       createDocument, undoUpload, requireDocument, deleteObject, deleteDocument, assertSubmissionReady,
       submitVerification, submitPartnerProfile, reviewPartner, reviewVerification, reviewDocuments
  <2>6. torn' = torn \/ torn' \in BOOLEAN
    BY <1>3, Zenon DEF PartnerStep, TypeOK, arrivePartner, partnerVars, Refuse, findLatest, putObject, supersede,
       createDocument, undoUpload, requireDocument, deleteObject, deleteDocument, assertSubmissionReady,
       submitVerification, submitPartnerProfile, reviewPartner, reviewVerification, reviewDocuments
  <2>7. QED
    BY <1>1, <1>3, <2>2, <2>3, <2>4, <2>5, <2>6, WorkTypes, DocumentTypes DEF TypeOK
<1>4. ASSUME NEW r \in Requests, Dies(r) PROVE TypeOK'
  <2>1. work[r] \in Work
    BY DEF TypeOK
  <2>2. work' \in [Requests -> Work]
    BY <1>4, NoWorkIsWork DEF Dies, TypeOK
  <2>3. orphans' \subseteq Objects
    BY <1>4, <2>1 DEF Dies, TypeOK, Work
  <2>4. torn' \in BOOLEAN
    BY <1>4 DEF Dies, TypeOK, Reviewing
  <2>5. QED
    BY <1>1, <1>4, <2>2, <2>3, <2>4 DEF Dies, TypeOK
<1>5. QED
  BY <1>2, <1>3, <1>4 DEF Next, vars

LEMMA TypesInitially == Init => TypeOK
<1> SUFFICES ASSUME Init PROVE TypeOK
  OBVIOUS
<1>1. SessionsTypeOK
  BY SessionsInitially DEF Init, SessionsInv
<1>2. document \in [Objects -> Row \cup {None}] /\ storage \subseteq Objects
  <2>1. [version |-> 1, attached |-> TRUE,
         status |-> IF verification = "APPROVED" THEN "APPROVED" ELSE "UPLOADED"] \in Row
    BY DEF Row
  <2>2. CASE document = [o \in Objects |-> None] /\ storage = {}
    BY <2>2
  <2>3. CASE \E o \in Objects :
               /\ storage = {o}
               /\ document = [p \in Objects |->
                    IF p # o THEN None
                    ELSE [ version |-> 1, attached |-> TRUE,
                           status |-> IF verification = "APPROVED" THEN "APPROVED" ELSE "UPLOADED" ]]
    BY <2>1, <2>3
  <2>4. QED
    BY <2>2, <2>3 DEF Init
<1>3. verification \in Approvals \cup {None}
  BY DEF Init, Approvals
<1>4. QED
  BY <1>1, <1>2, <1>3, NoWorkIsWork DEF Init, TypeOK
-----------------------------------------------------------------------------
\* Sessions, copies, requests, documents and what handlers have read keep their
\* types whatever requests do between each other's awaits, or die: for any number of
\* sessions, requests and objects.
THEOREM TypeCorrect == Spec => []TypeOK
<1>1. Init => SessionsInv /\ TypeOK
  BY SessionsInitially, TypesInitially DEF Init
<1>2. SessionsInv /\ TypeOK /\ [Next]_vars => (SessionsInv /\ TypeOK)'
  BY SessionsInductive, TypesInductive
<1>3. QED
  BY <1>1, <1>2, PTL DEF Spec

\* For any number of sessions and requests: a session revoked by logout, refresh,
\* ban, review or password reset has no copy in Redis, but for one that is about to
\* be deleted and for the races of the history.
THEOREM RevokedAreRefused == Spec => []RevokedIsRefused
<1>1. Init => SessionsInv
  BY SessionsInitially DEF Init
<1>2. SessionsInv => RevokedIsRefused
  BY DEF SessionsInv
<1>3. QED
  BY <1>1, <1>2, SessionsInductive, PTL DEF Spec

\* For any number of sessions and requests: once the bans and reviews are
\* through, no copy that resolveToken accepts grants what they took away, but for one
\* that is about to be deleted and for the races of the history.
THEOREM StaleIsNotAccepted == Spec => []NoStaleAccess
<1>1. Init => SessionsInv
  BY SessionsInitially DEF Init
<1>2. SessionsInv => NoStaleAccess
  <2> SUFFICES ASSUME SessionsInv, \A r \in Requests : ~Revoking(r),
                      NEW t \in Tokens, t \notin raced, cache[t] # None, ~cache[t].isBanned
               PROVE  \/ AboutToDrop(t)
                      \/ /\ ~user.isBanned
                         /\ user.partnerApproval = "REJECTED" => cache[t].partnerApproval # "APPROVED"
    BY DEF NoStaleAccess
  <2>1. \A r \in Requests : ~Overrules(request[r])
    BY DEF Revoking, Overrules
  <2>2. session[t] \in {"active", "revoked"}
    BY DEF SessionsInv, SessionsTypeOK, KnownTokens
  <2>3. CASE session[t] = "active"
    BY <2>1, <2>3 DEF SessionsInv, StaleIsOverruled, Active, Harmless
  <2>4. CASE session[t] = "revoked"
    BY <2>4 DEF SessionsInv, RevokedIsRefused
  <2>5. QED
    BY <2>2, <2>3, <2>4
<1>3. QED
  BY <1>1, <1>2, SessionsInductive, PTL DEF Spec

-----------------------------------------------------------------------------
(***************************************************************************)
(* What uploads, removals, submissions and reviews keep up between them,   *)
(* for any number of requests and objects: the approval and the            *)
(* verification agree, one document counts, and the table and the object   *)
(* store match.                                                            *)
(***************************************************************************)

\* A step of one request.
StepOf(r) ==
  \/ SessionStep(r) /\ UNCHANGED partnerVars
  \/ PartnerStep(r)
  \/ Dies(r)

\* Only a partner's request at its handler has something in hand.
InHand ==
  \A r \in Requests :
    work[r].phase # "none" =>
      request[r].step = "run" /\ request[r].handler \in {"upload", "remove", "submit", "review"}

\* A step of r is r's alone.
LEMMA StepOfOne ==
  ASSUME SessionsInv, TypeOK, NEW r \in Requests, StepOf(r)
  PROVE  \A q \in Requests \ {r} : request'[q] = request[q] /\ work'[q] = work[q]
<1>1. UNCHANGED sessionVars \/ \E next : Effect(r, next)
  BY SessionStepEffect, PartnerStepEffect, DiesEffect DEF StepOf, Dies
<1>2. \A q \in Requests \ {r} : request'[q] = request[q]
  BY <1>1, EffectOnRequests DEF SessionsInv, sessionVars
<1>3. ASSUME NEW q \in Requests \ {r} PROVE work'[q] = work[q]
  <2>1. work \in [Requests -> Work]
    BY DEF TypeOK
  <2>2. CASE UNCHANGED work
    BY <2>2
  <2>3. CASE \E w : work' = [work EXCEPT ![r] = w]
    BY <2>1, <2>3
  <2>4. CASE Dies(r) \/ Refuse(r) \/ undoUpload(r) \/ deleteDocument(r) \/ submitVerification(r)
             \/ submitPartnerProfile(r) \/ \E d \in {"APPROVED", "REJECTED"} : reviewPartner(r, d)
    <3>1. \E w : work' = [work EXCEPT ![r] = w]
      BY <2>4 DEF Dies, Refuse, undoUpload, deleteDocument, submitVerification, submitPartnerProfile,
                  Return, reviewPartner
    <3>2. QED
      BY <2>3, <3>1
  <2>5. CASE findLatest(r) \/ putObject(r) \/ supersede(r) \/ requireDocument(r)
             \/ deleteObject(r) \/ assertSubmissionReady(r)
    <3>1. \E w : Working(r, w)
      BY <2>5 DEF findLatest, putObject, supersede, requireDocument, deleteObject,
                  assertSubmissionReady, GotoPhase
    <3>2. QED
      BY <2>3, <3>1 DEF Working
  <2>6. CASE createDocument(r) \/ reviewVerification(r) \/ reviewDocuments(r)
    <3>1. \/ GotoPhase(r, "undo") \/ Return(r) \/ GotoPhase(r, "documents") \/ RevokeNext(r)
      BY <2>6 DEF createDocument, reviewVerification, reviewDocuments
    <3>2. \E w : work' = [work EXCEPT ![r] = w]
      BY <3>1 DEF GotoPhase, Working, Return, RevokeNext
    <3>3. QED
      BY <2>3, <3>2
  <2>7. CASE arrivePartner(r) \/ (SessionStep(r) /\ UNCHANGED partnerVars)
    BY <2>2, <2>7 DEF arrivePartner, partnerVars
  <2>8. QED
    BY <2>4, <2>5, <2>6, <2>7 DEF StepOf, PartnerStep
<1>4. QED
  BY <1>2, <1>3

\* A step of the sessions is not one of a partner's handler.
LEMMA SessionStepIsNotInHand ==
  ASSUME InHand, NEW r \in Requests, SessionStep(r)
  PROVE  work[r].phase = "none"
BY DEF InHand, SessionStep, login, createSession, arrive, lookup, findActiveSession, cacheSession,
       getMe, rotateSession, logout, revokeToken, logoutAll, resetStaffPassword, banUser, unbanUser,
       collect, revokeAll, drop, Begin, Runs, At

LEMMA InHandInductive ==
  ASSUME SessionsInv, TypeOK, InHand, NEW r \in Requests, StepOf(r)
  PROVE  InHand'
<1>1. work \in [Requests -> Work] /\ request \in [Requests -> Request]
  BY DEF SessionsInv, SessionsTypeOK, TypeOK
<1>2. ASSUME work'[r].phase # "none"
      PROVE  request'[r].step = "run" /\ request'[r].handler \in {"upload", "remove", "submit", "review"}
  <2>1. CASE (SessionStep(r) \/ arrivePartner(r)) /\ UNCHANGED partnerVars
    <3>1. work[r].phase = "none"
      BY <2>1, SessionStepIsNotInHand DEF InHand, arrivePartner, arrive, Begin, At
    <3>2. QED
      BY <1>2, <2>1, <3>1 DEF partnerVars
  <2>2. CASE work' = [work EXCEPT ![r] = NoWork]
    BY <1>1, <1>2, <2>2 DEF NoWork
  <2>3. CASE Dies(r) \/ Refuse(r) \/ undoUpload(r) \/ deleteDocument(r)
             \/ submitVerification(r) \/ submitPartnerProfile(r)
    BY <2>2, <2>3 DEF Dies, Refuse, undoUpload, deleteDocument, submitVerification,
                      submitPartnerProfile, Return
  <2>4. CASE findLatest(r) \/ putObject(r) \/ supersede(r) \/ requireDocument(r)
             \/ deleteObject(r) \/ assertSubmissionReady(r)
    <3>1. UNCHANGED request /\ \E h \in {"upload", "remove", "submit"} : Runs(r, h)
      BY <2>4 DEF findLatest, putObject, supersede, requireDocument, deleteObject,
                  assertSubmissionReady, GotoPhase, Working, sessionVars, Phase
    <3>2. QED
      BY <3>1 DEF Runs, At
  <2>5. CASE createDocument(r) \/ reviewVerification(r) \/ reviewDocuments(r)
    <3>1. \E h \in {"upload", "review"} : Runs(r, h)
      BY <2>5 DEF createDocument, reviewVerification, reviewDocuments, Phase
    <3>2. \/ GotoPhase(r, "undo") \/ Return(r) \/ GotoPhase(r, "documents") \/ RevokeNext(r)
      BY <2>5 DEF createDocument, reviewVerification, reviewDocuments
    <3>3. UNCHANGED request \/ work' = [work EXCEPT ![r] = NoWork]
      BY <3>2 DEF GotoPhase, Working, sessionVars, Return, RevokeNext
    <3>4. QED
      BY <2>2, <3>1, <3>3 DEF Runs, At
  <2>6. CASE \E d \in {"APPROVED", "REJECTED"} : reviewPartner(r, d)
    BY <1>1, <2>6 DEF reviewPartner, Begin, Become, Idle
  <2>7. QED
    BY <2>1, <2>3, <2>4, <2>5, <2>6 DEF StepOf, PartnerStep, arrivePartner
<1>3. QED
  BY <1>2, StepOfOne DEF InHand
-----------------------------------------------------------------------------
\* Unless reviews overlapped or died, there is one at a time, and nobody but it
\* and submissions before or after it writes what it writes.
OneReview == \A q, r \in Requests : Reviewing(q) /\ Reviewing(r) => q = r

ReviewWrites(r) ==
  /\ work[r].decision \in {"APPROVED", "REJECTED"}
  /\ user.partnerApproval \in {work[r].decision, "PENDING"}
  /\ work[r].phase = "documents" => verification = work[r].decision

ReviewInv ==
  \/ torn
  \/ /\ OneReview
     /\ \A r \in Requests : Reviewing(r) => ReviewWrites(r)
     /\ ReviewIsWhole

\* A step that neither begins nor continues a review.
LEMMA NoReviewStep ==
  ASSUME ReviewInv, verification' = verification,
         user'.partnerApproval \in {user.partnerApproval, "PENDING"},
         \A q \in Requests : Reviewing(q)' = Reviewing(q),
         \A q \in Requests : Reviewing(q) => work'[q] = work[q],
         torn => torn'
  PROVE  ReviewInv'
<1>1. CASE torn
  BY <1>1 DEF ReviewInv
<1>2. CASE ~torn
  <2>1. OneReview'
    BY <1>2 DEF ReviewInv, OneReview
  <2>2. \A r \in Requests : Reviewing(r)' => ReviewWrites(r)'
    BY <1>2 DEF ReviewInv, ReviewWrites
  <2>3. ReviewIsWhole'
    BY <1>2 DEF ReviewInv, ReviewIsWhole
  <2>4. QED
    BY <2>1, <2>2, <2>3 DEF ReviewInv
<1>3. QED
  BY <1>1, <1>2

\* Sessions come and go, are banned or not: the approval stays.
LEMMA SessionsKeepApproval ==
  ASSUME user \in User, NEW r \in Requests,
         SessionStep(r) \/ RequestDies(r) \/ (\E t \in Tokens, h \in Handlers : arrive(r, h, t))
  PROVE  user'.partnerApproval = user.partnerApproval
<1>1. user' = user \/ \E b \in BOOLEAN : user' = [user EXCEPT !.isBanned = b]
  BY DEF SessionStep, login, createSession, arrive, lookup, findActiveSession, cacheSession,
         getMe, rotateSession, logout, revokeToken, logoutAll, resetStaffPassword, banUser, unbanUser,
         collect, revokeAll, drop, RequestDies
<1>2. QED
  BY <1>1 DEF User

LEMMA ReviewInvInductive ==
  ASSUME SessionsInv, TypeOK, InHand, ReviewInv, NEW r \in Requests, StepOf(r)
  PROVE  ReviewInv'
<1>1. user \in User /\ work \in [Requests -> Work] /\ work[r] \in Work
  BY DEF SessionsInv, SessionsTypeOK, TypeOK
<1>2. \A q \in Requests \ {r} : work'[q] = work[q]
  BY StepOfOne
<1>3. CASE (SessionStep(r) \/ arrivePartner(r)) /\ UNCHANGED partnerVars
  <2>1. user'.partnerApproval = user.partnerApproval
    BY <1>1, <1>3, SessionsKeepApproval DEF arrivePartner, Handlers
  <2>2. QED
    BY <1>3, <2>1, NoReviewStep DEF partnerVars, Reviewing
\* The steps of others than reviews.
<1>4. CASE \/ Refuse(r) \/ findLatest(r) \/ putObject(r) \/ supersede(r) \/ createDocument(r)
           \/ undoUpload(r) \/ requireDocument(r) \/ deleteObject(r) \/ deleteDocument(r)
           \/ assertSubmissionReady(r) \/ submitPartnerProfile(r)
  <2>1. verification' = verification /\ torn' = torn
    BY <1>4 DEF Refuse, findLatest, putObject, supersede, createDocument, undoUpload, requireDocument,
                deleteObject, deleteDocument, assertSubmissionReady, submitPartnerProfile
  <2>2. user'.partnerApproval \in {user.partnerApproval, "PENDING"}
    BY <1>1, <1>4 DEF Refuse, findLatest, putObject, supersede, createDocument, undoUpload, requireDocument,
                deleteObject, deleteDocument, assertSubmissionReady, submitPartnerProfile,
                GotoPhase, Working, sessionVars, User
  <2>3. ~Reviewing(r)
    BY <1>4 DEF Refuse, findLatest, putObject, supersede, createDocument, undoUpload, requireDocument,
                deleteObject, deleteDocument, assertSubmissionReady, submitPartnerProfile,
                Phase, Reviewing, InHand, Runs, At
  <2>4. work'[r].phase \in {"none", "put", "supersede", "create", "undo", "deleteObject", "deleteRow", "transaction"}
    <3>1. CASE Refuse(r) \/ undoUpload(r) \/ deleteDocument(r) \/ submitPartnerProfile(r)
      BY <1>1, <3>1 DEF Refuse, undoUpload, deleteDocument, submitPartnerProfile, Return, NoWork
    <3>2. CASE deleteObject(r) \/ assertSubmissionReady(r)
      BY <1>1, <3>2 DEF deleteObject, assertSubmissionReady, GotoPhase, Working, Work
    <3>3. CASE createDocument(r)
      BY <1>1, <3>3 DEF createDocument, GotoPhase, Working, Work, Return, NoWork
    <3>4. CASE findLatest(r) \/ requireDocument(r)
      BY <1>1, <3>4 DEF findLatest, requireDocument, Working, NoWork
    <3>5. CASE putObject(r) \/ supersede(r)
      BY <1>1, <3>5 DEF putObject, supersede, Working, Work
    <3>6. QED
      BY <1>4, <3>1, <3>2, <3>3, <3>4, <3>5
  <2>5. \A q \in Requests : Reviewing(q)' = Reviewing(q) /\ (Reviewing(q) => work'[q] = work[q])
    BY <1>2, <2>3, <2>4 DEF Reviewing
  <2>6. QED
    BY <2>1, <2>2, <2>5, NoReviewStep
<1>5. CASE submitVerification(r)
  <2>1. /\ verification' = "PENDING" /\ user'.partnerApproval = "PENDING"
        /\ torn' = (torn \/ \E q \in Requests : Reviewing(q))
        /\ work'[r] = NoWork /\ ~Reviewing(r)'
    BY <1>1, <1>5 DEF submitVerification, Return, User, Reviewing, NoWork
  <2>2. CASE torn'
    BY <2>2 DEF ReviewInv
  <2>3. CASE ~torn'
    <3>1. \A q \in Requests : ~Reviewing(q)'
      BY <1>2, <2>1, <2>3 DEF Reviewing
    <3>2. QED
      BY <2>1, <3>1 DEF ReviewInv, OneReview, ReviewIsWhole
  <2>4. QED
    BY <2>2, <2>3
<1>6. CASE \E decision \in {"APPROVED", "REJECTED"} : reviewPartner(r, decision)
  <2>1. PICK decision \in {"APPROVED", "REJECTED"} : reviewPartner(r, decision)
    BY <1>6
  <2>2. /\ user'.partnerApproval = decision
        /\ torn' = (torn \/ \E q \in Requests : Reviewing(q))
        /\ work'[r].phase = "verification" /\ work'[r].decision = decision
    BY <1>1, <2>1 DEF reviewPartner, User, NoWork
  <2>3. CASE torn'
    BY <2>3 DEF ReviewInv
  <2>4. CASE ~torn'
    <3>1. \A q \in Requests : Reviewing(q)' => q = r
      BY <1>2, <2>2, <2>4 DEF Reviewing
    <3>2. ReviewWrites(r)' /\ Reviewing(r)'
      BY <2>2 DEF ReviewWrites, Reviewing
    <3>3. QED
      BY <3>1, <3>2 DEF ReviewInv, OneReview, ReviewIsWhole
  <2>5. QED
    BY <2>3, <2>4
<1>7. CASE reviewVerification(r) \/ reviewDocuments(r)
  <2>1. torn' = torn /\ Reviewing(r) /\ user' = user
    BY <1>7 DEF reviewVerification, reviewDocuments, Phase, Reviewing, GotoPhase, Working, RevokeNext, sessionVars
  <2>2. CASE torn
    BY <2>1, <2>2 DEF ReviewInv
  <2>3. CASE ~torn
    <3>1. /\ \A q \in Requests : Reviewing(q)' => q = r
          /\ ReviewWrites(r)
      BY <1>2, <2>1, <2>3 DEF ReviewInv, OneReview, Reviewing
    <3>2. CASE reviewVerification(r) /\ verification # None /\ work[r].decision = "APPROVED"
      <4>1. work'[r] = [work[r] EXCEPT !.phase = "documents"] /\ verification' = work[r].decision
        BY <1>1, <3>2 DEF GotoPhase, Working, reviewVerification
      <4>2. Reviewing(r)' /\ ReviewWrites(r)'
        BY <1>1, <2>1, <3>1, <4>1 DEF ReviewWrites, Reviewing, Work
      <4>3. QED
        BY <3>1, <4>2 DEF ReviewInv, OneReview, ReviewIsWhole
    <3>3. CASE ~(reviewVerification(r) /\ verification # None /\ work[r].decision = "APPROVED")
      <4>1. RevokeNext(r)
        BY <1>7, <3>3 DEF reviewVerification, reviewDocuments
      <4>2. \A q \in Requests : ~Reviewing(q)'
        BY <1>1, <3>1, <4>1 DEF RevokeNext, Reviewing, NoWork
      <4>3. verification' = None \/ verification' = work[r].decision
        BY <1>7, <3>1 DEF reviewVerification, reviewDocuments, ReviewWrites, Phase
      <4>4. ReviewIsWhole'
        BY <2>1, <3>1, <4>3 DEF ReviewIsWhole, ReviewWrites
      <4>5. QED
        BY <4>2, <4>4 DEF ReviewInv, OneReview
    <3>4. QED
      BY <3>2, <3>3
  <2>4. QED
    BY <2>2, <2>3
<1>8. CASE Dies(r)
  <2>1. /\ verification' = verification /\ torn' = (torn \/ Reviewing(r))
        /\ work'[r] = NoWork /\ user'.partnerApproval = user.partnerApproval
    BY <1>1, <1>8, SessionsKeepApproval DEF Dies
  <2>2. CASE torn'
    BY <2>2 DEF ReviewInv
  <2>3. CASE ~torn'
    <3>0. ~Reviewing(r) /\ ~torn
      BY <2>1, <2>3
    <3>1. \A q \in Requests : Reviewing(q)' = Reviewing(q) /\ (Reviewing(q) => work'[q] = work[q])
      BY <1>2, <2>1, <3>0 DEF Reviewing, NoWork
    <3>2. QED
      BY <2>1, <3>0, <3>1, NoReviewStep
  <2>4. QED
    BY <2>2, <2>3
<1>9. QED
  BY <1>3, <1>4, <1>5, <1>6, <1>7, <1>8 DEF StepOf, PartnerStep, arrivePartner
-----------------------------------------------------------------------------
\* What becomes of the rows.

\* A submission or a review leaves the rows and which of them count.
LEMMA RowsReviewed ==
  ASSUME TypeOK, NEW r \in Requests, submitVerification(r) \/ reviewDocuments(r)
  PROVE  /\ Rows' = Rows /\ Live' = Live
         /\ \A o \in Rows : document'[o].version = document[o].version
<1>1. \A o \in Rows : document[o] \in Row
  BY DEF TypeOK, Rows
<1>2. ASSUME NEW o \in Objects
      PROVE  /\ o \in Rows' <=> o \in Rows
             /\ o \in Live' <=> o \in Live
             /\ o \in Rows => document'[o].version = document[o].version
  <2>1. CASE o \notin Rows
    BY <2>1 DEF submitVerification, reviewDocuments, Rows, Live
  <2>2. CASE o \in Rows
    <3>1. [document[o] EXCEPT !.attached = TRUE] \in Row /\ [document[o] EXCEPT !.status = "APPROVED"] \in Row
      BY <1>1, <2>2 DEF Row
    <3>2. \/ document'[o] = document[o]
          \/ document'[o] = [document[o] EXCEPT !.attached = TRUE]
          \/ document[o].status = "UPLOADED" /\ document'[o] = [document[o] EXCEPT !.status = "APPROVED"]
      BY DEF submitVerification, reviewDocuments
    <3>3. document'[o] \in Row
      BY <1>1, <2>2, <3>1, <3>2
    <3>4. document'[o] # None /\ document'[o].version = document[o].version
          /\ (document'[o].status = "SUPERSEDED" <=> document[o].status = "SUPERSEDED")
      BY <1>1, <2>2, <3>2, <3>3, PartnersAssumption DEF Row
    <3>5. QED
      BY <2>2, <3>4 DEF Rows, Live
  <2>3. QED
    BY <2>1, <2>2
<1>3. QED
  BY <1>2 DEF Rows, Live

\* An upload adds its row and takes the place of those it saw.
LEMMA RowsCreated ==
  ASSUME TypeOK, NEW r \in Requests, createDocument(r), ~VersionTaken(work[r].version),
         work[r].object \in Objects \ Rows
  PROVE  /\ Rows' = Rows \cup {work[r].object}
         /\ Live' = (Live \ work[r].rows) \cup {work[r].object}
         /\ document'[work[r].object].version = work[r].version
         /\ \A o \in Rows : document'[o].version = document[o].version
<1> DEFINE n == work[r].object
           new == [version |-> work[r].version, status |-> "UPLOADED", attached |-> FALSE]
<1>1. (\A o \in Rows : document[o] \in Row) /\ work[r] \in Work
  BY DEF TypeOK, Rows
<1>2. document' = [o \in Objects |->
        IF o = n THEN new
        ELSE IF o \in work[r].rows \cap Rows THEN [document[o] EXCEPT !.status = "SUPERSEDED"]
        ELSE document[o]]
  BY DEF createDocument
<1>3. new \in Row /\ new # None /\ document'[n] = new
  <2>1. new \in Row
    BY <1>1 DEF Row, Work
  <2>2. QED
    BY <1>2, <2>1, PartnersAssumption
<1>4. ASSUME NEW o \in Objects
      PROVE  /\ o \in Rows' <=> o \in Rows \/ o = n
             /\ o \in Live' <=> (o \in Live /\ o \notin work[r].rows) \/ o = n
             /\ o \in Rows => document'[o].version = document[o].version
  <2>1. CASE o = n
    BY <1>3, <2>1 DEF Rows, Live
  <2>2. CASE o # n /\ o \notin Rows
    BY <1>2, <2>2 DEF Rows, Live
  <2>3. CASE o # n /\ o \in Rows /\ o \in work[r].rows
    <3>1. document'[o] = [document[o] EXCEPT !.status = "SUPERSEDED"] /\ document[o] \in Row
      BY <1>1, <1>2, <2>3
    <3>2. document'[o] \in Row
      BY <3>1 DEF Row
    <3>3. document'[o] # None /\ document'[o].status = "SUPERSEDED" /\ document'[o].version = document[o].version
      BY <3>1, <3>2, PartnersAssumption DEF Row
    <3>4. QED
      BY <2>3, <3>3 DEF Rows, Live
  <2>4. CASE o # n /\ o \in Rows /\ o \notin work[r].rows
    BY <1>2, <2>4 DEF Rows, Live
  <2>5. QED
    BY <2>1, <2>2, <2>3, <2>4
<1>5. QED
  BY <1>3, <1>4 DEF Rows, Live

LEMMA RowsDeleted ==
  ASSUME TypeOK, NEW r \in Requests, deleteDocument(r)
  PROVE  /\ Rows' = Rows \ {work[r].object} /\ Live' = Live \ {work[r].object}
         /\ \A o \in Rows' : document'[o].version = document[o].version
BY DEF TypeOK, deleteDocument, Rows, Live

LEMMA RowsKept ==
  ASSUME NEW r \in Requests, StepOf(r), ~submitVerification(r), ~reviewDocuments(r), ~deleteDocument(r),
         createDocument(r) => VersionTaken(work[r].version)
  PROVE  document' = document /\ Rows' = Rows /\ Live' = Live
<1>1. document' = document
  BY DEF StepOf, PartnerStep, partnerVars, arrivePartner, Refuse, findLatest, putObject, supersede,
     createDocument, undoUpload, requireDocument, deleteObject, assertSubmissionReady,
     submitPartnerProfile, reviewPartner, reviewVerification, Dies
<1>2. QED
  BY <1>1 DEF Rows, Live
-----------------------------------------------------------------------------
\* An object in hand is the request's own while it uploads, and gone when it
\* deletes the row.
Holding == {"supersede", "create", "undo", "deleteObject", "deleteRow"}

ObjectInHand(r) ==
  /\ work[r].phase \in Holding <=> work[r].object # None
  /\ work[r].phase \in {"supersede", "create", "undo"} =>
       /\ work[r].object \in storage \ Rows
       /\ \A q \in Requests \ {r} : work[q].object # work[r].object
  /\ work[r].phase = "deleteRow" => work[r].object \notin storage

ObjectInv == (\A r \in Requests : ObjectInHand(r)) /\ DocumentsMatchStorage

\* A step that neither stores nor deletes, nor takes or leaves an object.
LEMMA SameObjects ==
  ASSUME ObjectInv, storage' = storage, Rows' = Rows, orphans' = orphans,
         \A q \in Requests : work'[q].object = work[q].object,
         \A q \in Requests :
           \/ work'[q].phase = work[q].phase
           \/ work'[q].phase \notin Holding /\ work[q].phase \notin Holding
           \/ work'[q].phase \in {"create", "undo"} /\ work[q].phase \in {"supersede", "create"}
  PROVE  ObjectInv'
<1>1. ASSUME NEW r \in Requests PROVE ObjectInHand(r)'
  BY <1>1 DEF ObjectInv, ObjectInHand, Holding
<1>2. DocumentsMatchStorage'
  BY DEF ObjectInv, DocumentsMatchStorage
<1>3. QED
  BY <1>1, <1>2 DEF ObjectInv

LEMMA ObjectInvInductive ==
  ASSUME SessionsInv, TypeOK, InHand, ObjectInv, NEW r \in Requests, StepOf(r)
  PROVE  ObjectInv'
<1>1. /\ work \in [Requests -> Work] /\ work[r] \in Work /\ storage \subseteq Objects
      /\ \A q \in Requests \ {r} : work'[q] = work[q]
  BY StepOfOne DEF TypeOK
<1> DEFINE n == work[r].object
\* Steps that hold no object.
<1>2. CASE (SessionStep(r) \/ arrivePartner(r)) /\ UNCHANGED partnerVars
  BY <1>2, SameObjects DEF partnerVars, Rows
<1>3. CASE \/ Refuse(r) \/ findLatest(r) \/ assertSubmissionReady(r) \/ submitVerification(r)
           \/ submitPartnerProfile(r) \/ reviewVerification(r) \/ reviewDocuments(r)
           \/ \E decision \in {"APPROVED", "REJECTED"} : reviewPartner(r, decision)
  <2>1. work[r].phase \notin Holding
    BY <1>3 DEF Refuse, findLatest, assertSubmissionReady, submitVerification, submitPartnerProfile,
                reviewVerification, reviewDocuments, reviewPartner, Phase, Begin, InHand, Runs, At, Holding
  <2>2. work[r].object = None
    BY <2>1 DEF ObjectInv, ObjectInHand
  <2>3. work'[r].phase \notin Holding /\ work'[r].object = None
    <3>1. CASE Refuse(r) \/ submitVerification(r) \/ submitPartnerProfile(r)
      BY <1>1, <3>1 DEF Refuse, submitVerification, submitPartnerProfile, Return, NoWork, Holding
    <3>2. CASE findLatest(r)
      BY <1>1, <3>2 DEF findLatest, Working, NoWork, Holding
    <3>3. CASE assertSubmissionReady(r)
      BY <1>1, <2>2, <3>3 DEF assertSubmissionReady, GotoPhase, Working, Work, Holding
    <3>4. CASE reviewVerification(r) \/ reviewDocuments(r)
      <4>1. GotoPhase(r, "documents") \/ RevokeNext(r)
        BY <3>4 DEF reviewVerification, reviewDocuments
      <4>2. QED
        BY <1>1, <2>2, <4>1 DEF GotoPhase, Working, RevokeNext, NoWork, Work, Holding
    <3>5. CASE \E decision \in {"APPROVED", "REJECTED"} : reviewPartner(r, decision)
      BY <1>1, <3>5 DEF reviewPartner, NoWork, Holding
    <3>6. QED
      BY <1>3, <3>1, <3>2, <3>3, <3>4, <3>5
  <2>4. storage' = storage /\ orphans' = orphans
    BY <1>3 DEF Refuse, findLatest, assertSubmissionReady, submitVerification, submitPartnerProfile,
                reviewVerification, reviewDocuments, reviewPartner
  <2>5. Rows' = Rows
    <3>1. CASE submitVerification(r) \/ reviewDocuments(r)
      BY <3>1, RowsReviewed
    <3>2. CASE ~submitVerification(r) /\ ~reviewDocuments(r)
      BY <1>3, <3>2 DEF Refuse, findLatest, assertSubmissionReady, submitPartnerProfile,
                        reviewVerification, reviewPartner, Rows
    <3>3. QED
      BY <3>1, <3>2
  <2>6. QED
    BY <1>1, <2>1, <2>2, <2>3, <2>4, <2>5, SameObjects
\* The upload.
<1>4. CASE supersede(r) \/ (createDocument(r) /\ VersionTaken(work[r].version))
  <2>1. /\ storage' = storage /\ orphans' = orphans /\ Rows' = Rows
        /\ work[r].phase \in {"supersede", "create"}
    BY <1>4 DEF supersede, createDocument, Phase, Rows
  <2>2. work'[r].phase \in {"create", "undo"} /\ work'[r].object = work[r].object
    BY <1>1, <1>4 DEF supersede, createDocument, GotoPhase, Working, Work
  <2>3. QED
    BY <1>1, <2>1, <2>2, SameObjects
<1>5. CASE putObject(r)
  <2>1. PICK o \in Objects \ (storage \cup Rows \cup orphans) :
          /\ \A q \in Requests : work[q].object # o
          /\ storage' = storage \cup {o}
          /\ Working(r, [work[r] EXCEPT !.phase = "supersede", !.object = o])
    BY <1>5 DEF putObject
  <2>2. /\ work'[r].phase = "supersede" /\ work'[r].object = o /\ o # None
        /\ Rows' = Rows /\ orphans' = orphans /\ work[r].object = None
    <3>1. work[r].phase = "put" /\ o # None
      BY <1>5, PartnersAssumption DEF putObject, Phase
    <3>2. work[r].object = None
      BY <3>1 DEF ObjectInv, ObjectInHand, Holding
    <3>3. QED
      BY <1>1, <1>5, <2>1, <3>1, <3>2 DEF putObject, Working, Work, Rows
  <2>3. ASSUME NEW q \in Requests PROVE ObjectInHand(q)'
    <3>1. CASE q = r
      BY <1>1, <2>1, <2>2, <3>1 DEF ObjectInHand, Holding
    <3>2. CASE q # r
      BY <1>1, <2>1, <2>2, <3>2 DEF ObjectInv, ObjectInHand
    <3>3. QED
      BY <3>1, <3>2
  <2>4. ASSUME NEW p \in Objects \ orphans', ~(p \in Rows' <=> p \in storage')
        PROVE  \E q \in Requests : work'[q].object = p
    <3>1. CASE p = o
      BY <2>2, <3>1
    <3>2. CASE p # o
      <4>1. PICK q \in Requests : work[q].object = p
        BY <2>1, <2>2, <2>4, <3>2 DEF ObjectInv, DocumentsMatchStorage
      <4>2. q # r
        BY <2>2, <4>1, PartnersAssumption
      <4>3. QED
        BY <1>1, <4>1, <4>2
    <3>3. QED
      BY <3>1, <3>2
  <2>5. QED
    BY <2>3, <2>4 DEF ObjectInv, DocumentsMatchStorage
<1>6. CASE (createDocument(r) /\ ~VersionTaken(work[r].version)) \/ undoUpload(r)
  <2>1. /\ work[r].phase \in {"create", "undo"}
        /\ work'[r].phase = "none" /\ work'[r].object = None /\ orphans' = orphans
    BY <1>1, <1>6 DEF createDocument, undoUpload, Phase, Return, NoWork
  <2>2. /\ n \in storage \ Rows /\ n \in Objects /\ n # None
        /\ \A q \in Requests \ {r} : work[q].object # n
    BY <1>1, <2>1, PartnersAssumption DEF ObjectInv, ObjectInHand
  <2>3. \/ storage' = storage /\ Rows' = Rows \cup {n}
        \/ storage' = storage \ {n} /\ Rows' = Rows
    BY <1>6, <2>2, RowsCreated DEF createDocument, undoUpload, Rows
  <2>4. ASSUME NEW q \in Requests PROVE ObjectInHand(q)'
    <3>1. CASE q = r
      BY <2>1, <3>1 DEF ObjectInHand, Holding
    <3>2. CASE q # r
      BY <1>1, <2>1, <2>2, <2>3, <3>2 DEF ObjectInv, ObjectInHand, Holding
    <3>3. QED
      BY <3>1, <3>2
  <2>5. DocumentsMatchStorage'
    BY <1>1, <2>1, <2>2, <2>3 DEF ObjectInv, DocumentsMatchStorage
  <2>6. QED
    BY <2>4, <2>5 DEF ObjectInv
\* The removal.
<1>7. CASE requireDocument(r)
  <2>1. PICK o \in Live : Working(r, [NoWork EXCEPT !.phase = "deleteObject", !.object = o])
    BY <1>7 DEF requireDocument
  <2>2. /\ work'[r].phase = "deleteObject" /\ work'[r].object = o /\ work[r].phase = "none"
        /\ storage' = storage /\ Rows' = Rows /\ orphans' = orphans
    BY <1>1, <1>7, <2>1 DEF requireDocument, Working, NoWork, Phase, Rows
  <2>3. o \in Rows /\ o # None /\ work[r].object = None
    BY <2>2, PartnersAssumption DEF Live, Rows, ObjectInv, ObjectInHand, Holding
  <2>4. ASSUME NEW q \in Requests PROVE ObjectInHand(q)'
    <3>1. CASE q = r
      BY <2>2, <2>3, <3>1 DEF ObjectInHand, Holding
    <3>2. CASE q # r
      BY <1>1, <2>2, <2>3, <3>2 DEF ObjectInv, ObjectInHand
    <3>3. QED
      BY <3>1, <3>2
  <2>5. DocumentsMatchStorage'
    BY <1>1, <2>2, <2>3, PartnersAssumption DEF ObjectInv, DocumentsMatchStorage
  <2>6. QED
    BY <2>4, <2>5 DEF ObjectInv
<1>8. CASE deleteObject(r)
  <2>1. /\ work'[r].phase = "deleteRow" /\ work'[r].object = n /\ work[r].phase = "deleteObject"
        /\ storage' = storage \ {n} /\ Rows' = Rows /\ orphans' = orphans
    BY <1>1, <1>8 DEF deleteObject, GotoPhase, Working, Phase, Work, Rows
  <2>2. n # None
    BY <2>1 DEF ObjectInv, ObjectInHand, Holding
  <2>3. ASSUME NEW q \in Requests PROVE ObjectInHand(q)'
    <3>1. CASE q = r
      BY <2>1, <2>2, <3>1 DEF ObjectInHand, Holding
    <3>2. CASE q # r
      BY <1>1, <2>1, <3>2 DEF ObjectInv, ObjectInHand
    <3>3. QED
      BY <3>1, <3>2
  <2>4. DocumentsMatchStorage'
    BY <1>1, <2>1 DEF ObjectInv, DocumentsMatchStorage
  <2>5. QED
    BY <2>3, <2>4 DEF ObjectInv
<1>9. CASE deleteDocument(r)
  <2>1. /\ work'[r].phase = "none" /\ work'[r].object = None /\ work[r].phase = "deleteRow"
        /\ storage' = storage /\ Rows' = Rows \ {n} /\ orphans' = orphans
    BY <1>1, <1>9, RowsDeleted DEF deleteDocument, Phase, Return, NoWork
  <2>2. n \notin storage
    BY <2>1 DEF ObjectInv, ObjectInHand
  <2>3. ASSUME NEW q \in Requests PROVE ObjectInHand(q)'
    <3>1. CASE q = r
      BY <2>1, <3>1 DEF ObjectInHand, Holding
    <3>2. CASE q # r
      BY <1>1, <2>1, <3>2, PartnersAssumption DEF ObjectInv, ObjectInHand, Holding
    <3>3. QED
      BY <3>1, <3>2
  <2>4. DocumentsMatchStorage'
    BY <1>1, <2>1, <2>2 DEF ObjectInv, DocumentsMatchStorage
  <2>5. QED
    BY <2>3, <2>4 DEF ObjectInv
<1>10. CASE Dies(r)
  <2>1. /\ work'[r].phase = "none" /\ work'[r].object = None
        /\ storage' = storage /\ Rows' = Rows /\ orphans' = orphans \cup ({n} \ {None})
    BY <1>1, <1>10 DEF Dies, NoWork, Rows
  <2>2. ASSUME NEW q \in Requests PROVE ObjectInHand(q)'
    <3>1. CASE q = r
      BY <2>1, <3>1 DEF ObjectInHand, Holding
    <3>2. CASE q # r
      BY <1>1, <2>1, <3>2, PartnersAssumption DEF ObjectInv, ObjectInHand, Holding
    <3>3. QED
      BY <3>1, <3>2
  <2>3. DocumentsMatchStorage'
    BY <1>1, <2>1, PartnersAssumption DEF ObjectInv, DocumentsMatchStorage
  <2>4. QED
    BY <2>2, <2>3 DEF ObjectInv
<1>11. QED
  BY <1>2, <1>3, <1>4, <1>5, <1>6, <1>7, <1>8, <1>9, <1>10 DEF StepOf, PartnerStep, arrivePartner
-----------------------------------------------------------------------------
\* Unless a document was removed during an upload, an upload's version is taken
\* or the next one; and if it is not taken, it replaces all that count.
Uploading(r) == work[r].phase \in {"put", "supersede", "create"}
Taken == {document[o].version : o \in Rows}

NextVersion(r) ==
  /\ work[r].version > 0
  /\ work[r].version \notin Taken =>
       /\ \A v \in Taken : v < work[r].version
       /\ work[r].version = 1 \/ work[r].version - 1 \in Taken
       /\ work[r].phase = "create" => Live \subseteq work[r].rows

VersionInv ==
  \/ deletedAmid
  \/ /\ \A r \in Requests : Uploading(r) => NextVersion(r)
     /\ \A o, p \in Live : o = p

\* A step that leaves the rows, but for their review.
LEMMA SameDocuments ==
  ASSUME VersionInv, Taken' = Taken, Live' = Live, deletedAmid' = deletedAmid,
         \A q \in Requests :
           \/ work'[q] = work[q]
           \/ ~Uploading(q)'
           \/ NextVersion(q)'
  PROVE  VersionInv'
<1>1. CASE deletedAmid
  BY <1>1 DEF VersionInv
<1>2. CASE ~deletedAmid
  <2>1. ASSUME NEW q \in Requests, Uploading(q)' PROVE NextVersion(q)'
    <3>1. CASE work'[q] = work[q]
      BY <1>2, <2>1, <3>1 DEF VersionInv, Uploading, NextVersion
    <3>2. QED
      BY <2>1, <3>1
  <2>2. QED
    BY <1>2, <2>1 DEF VersionInv
<1>3. QED
  BY <1>1, <1>2

\* A step that keeps the rows keeps their versions.
LEMMA TakenKept ==
  ASSUME Rows' = Rows, \A o \in Rows : document'[o].version = document[o].version
  PROVE  Taken' = Taken
BY DEF Taken

LEMMA VersionInvCreated ==
  ASSUME TypeOK, ObjectInv, VersionInv, NEW r \in Requests, StepOf(r), createDocument(r),
         ~VersionTaken(work[r].version), \A q \in Requests \ {r} : work'[q] = work[q]
  PROVE  VersionInv'
<1> DEFINE n == work[r].object
           v == work[r].version
<1>1. CASE deletedAmid
  BY <1>1 DEF createDocument, VersionInv
<1>2. CASE ~deletedAmid
  <2>1. work[r].phase = "create" /\ work'[r].phase = "none" /\ deletedAmid' = deletedAmid
    BY DEF createDocument, Phase, Return, NoWork, TypeOK
  <2>2. n \in Objects \ Rows
    BY <2>1 DEF ObjectInv, ObjectInHand, TypeOK
  <2>3. /\ Rows' = Rows \cup {n} /\ Live' = (Live \ work[r].rows) \cup {n}
        /\ document'[n].version = v
        /\ \A o \in Rows : document'[o].version = document[o].version
    BY <2>2, RowsCreated
  <2>4. Taken' = Taken \cup {v}
    BY <2>3 DEF Taken
  <2>5. v \notin Taken
    BY DEF VersionTaken, Taken
  <2>6. /\ v > 0 /\ (\A u \in Taken : u < v) /\ Live \subseteq work[r].rows
    BY <1>2, <2>1, <2>5 DEF VersionInv, Uploading, NextVersion
  <2>7. Live' = {n}
    BY <2>3, <2>6
  <2>8. v \in Nat /\ Taken \subseteq Nat /\ \A q \in Requests : work[q].version \in Nat
    BY DEF TypeOK, Work, Row, Taken, Rows
  <2>9. ASSUME NEW q \in Requests, Uploading(q)' PROVE NextVersion(q)'
    <3>1. q # r /\ work'[q] = work[q]
      BY <2>1, <2>9 DEF Uploading
    <3>2. Uploading(q) /\ NextVersion(q)
      BY <1>2, <2>9, <3>1 DEF VersionInv, Uploading
    <3>3. work[q].version \in Taken'
      <4>1. SUFFICES ASSUME work[q].version \notin Taken PROVE work[q].version = v
        BY <2>4
      <4>2. /\ work[q].version > 0 /\ \A u \in Taken : u < work[q].version
            /\ work[q].version = 1 \/ work[q].version - 1 \in Taken
        BY <3>2, <4>1 DEF NextVersion
      <4>3. v = 1 \/ v - 1 \in Taken
        BY <1>2, <2>1, <2>5 DEF VersionInv, Uploading, NextVersion
      <4>4. ~(work[q].version < v)
        <5>1. SUFFICES ASSUME work[q].version < v PROVE FALSE
          OBVIOUS
        <5>2. v # 1
          BY <2>8, <4>2, <5>1
        <5>3. v - 1 \in Taken
          BY <4>3, <5>2
        <5>4. QED
          BY <2>8, <4>2, <5>1, <5>3
      <4>5. ~(v < work[q].version)
        <5>1. SUFFICES ASSUME v < work[q].version PROVE FALSE
          OBVIOUS
        <5>2. work[q].version # 1
          BY <2>6, <2>8, <5>1
        <5>3. work[q].version - 1 \in Taken
          BY <4>2, <5>2
        <5>4. QED
          BY <2>6, <2>8, <5>1, <5>3
      <4>6. QED
        BY <2>8, <4>4, <4>5
    <3>4. QED
      BY <3>1, <3>2, <3>3 DEF NextVersion
  <2>10. QED
    BY <2>7, <2>9 DEF VersionInv
<1>3. QED
  BY <1>1, <1>2

LEMMA VersionInvInductive ==
  ASSUME SessionsInv, TypeOK, InHand, ObjectInv, VersionInv, NEW r \in Requests, StepOf(r)
  PROVE  VersionInv'
<1>1. /\ work \in [Requests -> Work] /\ work[r] \in Work
      /\ \A q \in Requests \ {r} : work'[q] = work[q]
      /\ \A o \in Rows : document[o].version \in Nat
  BY StepOfOne DEF TypeOK, Rows, Row
<1>2. CASE createDocument(r) /\ ~VersionTaken(work[r].version)
  BY <1>1, <1>2, VersionInvCreated
<1>3. CASE deleteDocument(r)
  <2>1. CASE deletedAmid'
    BY <2>1 DEF VersionInv
  <2>2. CASE ~deletedAmid'
    <3>1. ~deletedAmid /\ (\A q \in Requests : ~(work[q].version > 0)) /\ work'[r].phase = "none"
      BY <1>1, <1>3, <2>2 DEF deleteDocument, Return, NoWork
    <3>2. \A q \in Requests : ~Uploading(q)
      BY <3>1 DEF VersionInv, NextVersion
    <3>3. \A q \in Requests : ~Uploading(q)'
      BY <1>1, <3>1, <3>2 DEF Uploading
    <3>4. Live' \subseteq Live
      BY <1>3, RowsDeleted
    <3>5. QED
      BY <3>1, <3>3, <3>4 DEF VersionInv
  <2>3. QED
    BY <2>1, <2>2
<1>4. CASE ~deleteDocument(r) /\ ~(createDocument(r) /\ ~VersionTaken(work[r].version))
  <2>1. Taken' = Taken /\ Live' = Live
    <3>1. CASE submitVerification(r) \/ reviewDocuments(r)
      BY <3>1, RowsReviewed, TakenKept
    <3>2. CASE ~submitVerification(r) /\ ~reviewDocuments(r)
      <4>1. document' = document /\ Rows' = Rows /\ Live' = Live
        BY <1>4, <3>2, RowsKept
      <4>2. QED
        BY <4>1 DEF Taken
    <3>3. QED
      BY <3>1, <3>2
  <2>2. deletedAmid' = deletedAmid
    BY <1>4 DEF StepOf, PartnerStep, partnerVars, arrivePartner, Refuse, findLatest, putObject, supersede,
       createDocument, undoUpload, requireDocument, deleteObject, assertSubmissionReady,
       submitVerification, submitPartnerProfile, reviewPartner, reviewVerification, reviewDocuments, Dies
  <2>3. CASE deletedAmid
    BY <2>2, <2>3 DEF VersionInv
  <2>4. CASE ~deletedAmid
    <3>1. CASE work'[r] = work[r] \/ ~Uploading(r)'
      BY <1>1, <2>1, <2>2, <3>1, SameDocuments
    <3>2. ASSUME NextVersion(r)' PROVE VersionInv'
      BY <1>1, <2>1, <2>2, <3>2, SameDocuments
    <3>3. CASE findLatest(r)
      <4>1. PICK latest \in {0} \cup {document[o].version : o \in Rows} :
              /\ \A o \in Rows : document[o].version <= latest
              /\ Working(r, [NoWork EXCEPT !.phase = "put", !.version = latest + 1])
        BY <3>3 DEF findLatest
      <4>2. work'[r].version = latest + 1 /\ work'[r].phase = "put"
        BY <1>1, <4>1 DEF Working, NoWork
      <4>3. latest \in Nat /\ (latest = 0 \/ latest \in Taken) /\ \A v \in Taken : v < latest + 1
        BY <1>1, <4>1 DEF Taken
      <4>4. NextVersion(r)'
        BY <2>1, <4>2, <4>3 DEF NextVersion
      <4>5. QED
        BY <3>2, <4>4
    <3>4. CASE putObject(r) \/ supersede(r)
      <4>1. /\ Uploading(r) /\ work'[r].version = work[r].version
            /\ work'[r].phase = "create" => work'[r].rows = Live
        <5>1. CASE putObject(r)
          BY <1>1, <5>1 DEF putObject, Phase, Uploading, Working, Work
        <5>2. CASE supersede(r)
          <6>1. work' = [work EXCEPT ![r] = [work[r] EXCEPT !.phase = "create", !.rows = Live]]
            BY <5>2 DEF supersede, Working
          <6>2. work[r].phase = "supersede"
            BY <5>2 DEF supersede, Phase
          <6>3. QED
            BY <1>1, <6>1, <6>2 DEF Uploading, Work
        <5>3. QED
          BY <3>4, <5>1, <5>2
      <4>2. NextVersion(r)
        BY <2>4, <4>1 DEF VersionInv
      <4>3. NextVersion(r)'
        BY <2>1, <4>1, <4>2 DEF NextVersion
      <4>4. QED
        BY <3>2, <4>3
    <3>5. CASE ~findLatest(r) /\ ~putObject(r) /\ ~supersede(r)
      <4>1. CASE (SessionStep(r) \/ arrivePartner(r)) /\ UNCHANGED partnerVars
        BY <3>1, <4>1 DEF partnerVars
      <4>2. CASE \/ Dies(r) \/ Refuse(r) \/ undoUpload(r) \/ submitVerification(r) \/ submitPartnerProfile(r)
        BY <1>1, <3>1, <4>2 DEF Dies, Refuse, undoUpload, submitVerification, submitPartnerProfile,
                                Return, NoWork, Uploading
      <4>3. CASE createDocument(r) \/ deleteObject(r) \/ assertSubmissionReady(r)
                 \/ reviewVerification(r) \/ reviewDocuments(r)
        <5>1. \/ RevokeNext(r) \/ \E phase \in {"undo", "deleteRow", "transaction", "documents"} : GotoPhase(r, phase)
          BY <1>4, <4>3 DEF createDocument, deleteObject, assertSubmissionReady, reviewVerification, reviewDocuments
        <5>2. work'[r].phase \in {"none", "undo", "deleteRow", "transaction", "documents"}
          BY <1>1, <5>1 DEF RevokeNext, GotoPhase, Working, NoWork, Work
        <5>3. QED
          BY <3>1, <5>2 DEF Uploading
      <4>4. CASE requireDocument(r)
        BY <1>1, <3>1, <4>4 DEF requireDocument, Working, NoWork, Uploading
      <4>5. CASE \E decision \in {"APPROVED", "REJECTED"} : reviewPartner(r, decision)
        BY <1>1, <3>1, <4>5 DEF reviewPartner, NoWork, Uploading
      <4>6. QED
        BY <1>4, <3>5, <4>1, <4>2, <4>3, <4>4, <4>5 DEF StepOf, PartnerStep, arrivePartner
    <3>6. QED
      BY <3>3, <3>4, <3>5
  <2>5. QED
    BY <2>3, <2>4
<1>5. QED
  BY <1>2, <1>3, <1>4
-----------------------------------------------------------------------------
RecordsInv == SessionsInv /\ TypeOK /\ InHand /\ ReviewInv /\ ObjectInv /\ VersionInv

LEMMA RecordsInitially == Init => RecordsInv
<1> SUFFICES ASSUME Init PROVE RecordsInv
  OBVIOUS
<1>1. SessionsInv /\ TypeOK
  BY SessionsInitially, TypesInitially DEF Init
<1>2. \A r \in Requests : work[r] = NoWork
  BY DEF Init
<1>3. \/ Rows = {} /\ storage = {} /\ verification = None
      \/ \E o \in Objects : Rows = {o} /\ storage = {o} /\ verification = user.partnerApproval
  <2>1. CASE document = [o \in Objects |-> None] /\ storage = {} /\ verification = None
    BY <2>1 DEF Rows
  <2>2. ASSUME NEW o \in Objects, storage = {o}, verification = user.partnerApproval,
               document = [p \in Objects |->
                 IF p # o THEN None
                 ELSE [ version |-> 1, attached |-> TRUE,
                        status |-> IF verification = "APPROVED" THEN "APPROVED" ELSE "UPLOADED" ]]
        PROVE  Rows = {o}
    <3>1. [ version |-> 1, attached |-> TRUE,
            status |-> IF verification = "APPROVED" THEN "APPROVED" ELSE "UPLOADED" ] \in Row
      BY DEF Row
    <3>2. \A p \in Objects : document[p] # None <=> p = o
      BY <2>2, <3>1, PartnersAssumption
    <3>3. QED
      BY <3>2 DEF Rows
  <2>3. QED
    BY <2>1, <2>2 DEF Init
<1>4. InHand
  BY <1>2 DEF InHand, NoWork
<1>5. ReviewInv
  BY <1>2, <1>3 DEF ReviewInv, OneReview, ReviewIsWhole, Reviewing, NoWork
<1>6. ObjectInv
  BY <1>2, <1>3 DEF ObjectInv, ObjectInHand, DocumentsMatchStorage, Holding, NoWork
<1>7. VersionInv
  BY <1>2, <1>3 DEF VersionInv, Uploading, NoWork, Live
<1>8. QED
  BY <1>1, <1>4, <1>5, <1>6, <1>7 DEF RecordsInv

LEMMA RecordsInductive == RecordsInv /\ [Next]_vars => RecordsInv'
<1> SUFFICES ASSUME RecordsInv, [Next]_vars PROVE RecordsInv'
  OBVIOUS
<1>1. SessionsInv' /\ TypeOK'
  BY SessionsInductive, TypesInductive DEF RecordsInv
<1>2. CASE UNCHANGED vars
  <2>1. InHand'
    BY <1>2 DEF vars, sessionVars, partnerVars, RecordsInv, InHand
  <2>2. ReviewInv'
    BY <1>2 DEF vars, sessionVars, partnerVars, RecordsInv, ReviewInv, OneReview, ReviewWrites,
                ReviewIsWhole, Reviewing
  <2>3. ObjectInv'
    BY <1>2 DEF vars, partnerVars, RecordsInv, ObjectInv, ObjectInHand, DocumentsMatchStorage, Rows
  <2>4. VersionInv'
    BY <1>2 DEF vars, partnerVars, RecordsInv, VersionInv, Uploading, NextVersion, Taken, Live, Rows
  <2>5. QED
    BY <1>1, <2>1, <2>2, <2>3, <2>4 DEF RecordsInv
<1>3. ASSUME NEW r \in Requests, StepOf(r) PROVE RecordsInv'
  BY <1>1, <1>3, InHandInductive, ReviewInvInductive, ObjectInvInductive, VersionInvInductive DEF RecordsInv
<1>4. QED
  BY <1>2, <1>3 DEF Next, StepOf

\* For any number of requests: the approval by which work is handed out and the
\* verification by which payouts are made agree once the reviews are through, unless
\* one died or overlapped another or a submission.
THEOREM ReviewsAreWhole == Spec => []ReviewIsWhole
<1>1. RecordsInv => ReviewIsWhole
  BY DEF RecordsInv, ReviewInv, ReviewIsWhole
<1>2. QED
  BY <1>1, RecordsInitially, RecordsInductive, PTL DEF Spec

\* For any number of uploads at once: one document counts, unless one was removed
\* during an upload.
THEOREM OneDocumentCounts == Spec => []OneLiveDocument
<1>1. RecordsInv => OneLiveDocument
  <2> SUFFICES ASSUME \A o, p \in Live : o = p PROVE Cardinality(Live) <= 1
    BY DEF RecordsInv, VersionInv, OneLiveDocument
  <2>1. CASE Live = {}
    BY <2>1, FS_EmptySet
  <2>2. CASE \E o \in Live : TRUE
    <3>1. PICK o \in Live : Live = {o}
      BY <2>2
    <3>2. QED
      BY <3>1, FS_Singleton
  <2>3. QED
    BY <2>1, <2>2
<1>2. QED
  BY <1>1, RecordsInitially, RecordsInductive, PTL DEF Spec

\* For any number of uploads and removals at once: the rows and the objects of
\* the store match, but for what a request has in hand, or left behind when it died.
THEOREM StorageMatches == Spec => []DocumentsMatchStorage
<1>1. RecordsInv => DocumentsMatchStorage
  BY DEF RecordsInv, ObjectInv
<1>2. QED
  BY <1>1, RecordsInitially, RecordsInductive, PTL DEF Spec
=============================================================================
