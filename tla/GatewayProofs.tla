---------------------------- MODULE GatewayProofs ----------------------------
(***************************************************************************)
(* Proofs about Gateway, for every number of requests and tokens, every    *)
(* limit, lifetime and overlap, and either fallback.  The invariants are   *)
(* parts of IInv or follow from it; each part is preserved on its own.     *)
(***************************************************************************)
EXTENDS Gateway, TLAPS

USE TimesAssumption, LimitAssumption, FallbackAssumption, NoneAssumption

\* Next, action by action.
LEMMA NextCases ==
    ASSUME [Next]_vars
    PROVE  \/ \E r \in Requests : Serve(r) \/ Deadline(r)
           \/ \E t \in Tokens : BlacklistLost(t) \/ Purge(t)
           \/ Tick \/ Deploy \/ WindowEnds \/ UNCHANGED vars
  BY DEF Next

\* What a request leaves alone: the clock, the keys, tokens that were issued,
\* and the other requests.
LEMMA ServeFrame ==
    ASSUME TypeOK, NEW r \in Requests, Serve(r)
    PROVE  /\ UNCHANGED <<now, key, notAfter>>
           /\ \A t \in Issued : kid'[t] = kid[t] /\ exp'[t] = exp[t]
           /\ revoked \subseteq revoked'
           /\ \A q \in Requests \ {r} :
                /\ pc'[q] = pc[q] /\ route'[q] = route[q] /\ tok'[q] = tok[q]
                /\ bodies'[q] = bodies[q] /\ answer'[q] = answer[q]
                /\ q \in failed' <=> q \in failed
                /\ q \in reported' <=> q \in reported
                /\ q \in known' <=> q \in known
  <1> USE DEF Goto, keys, tokens, limiter, response, request, Respond, Abort, Invalid, Reject, Accept,
              Fail, TypeOK, RequestTypes
  <1>1. CASE \E path \in Routes, t \in Tokens \cup {None} : Arrive(r, path, t)
    BY <1>1 DEF Arrive
  <1>2. CASE BodyLimit(r)
    BY <1>2 DEF BodyLimit
  <1>3. CASE RateLimit(r) \/ RateLimitFails(r)
    BY <1>3 DEF RateLimit, RateLimitFails
  <1>4. CASE Parse(r)
    BY <1>4 DEF Parse
  <1>5. CASE Blacklist(r)
    BY <1>5 DEF Blacklist
  <1>6. CASE FindRevoked(r)
    BY <1>6 DEF FindRevoked
  <1>7. CASE LogoutAppend(r)
    BY <1>7 DEF LogoutAppend
  <1>8. CASE LogoutBlacklist(r)
    BY <1>8 DEF LogoutBlacklist
  <1>9. CASE Handle(r)
    BY <1>9 DEF Handle, OK, NotModified, GenerateAccessToken, Issued, StoreTypes
  <1>10. CASE Panic(r)
    BY <1>10 DEF Panic
  <1>11. CASE ErrorHandler(r) \/ Timeout(r)
    BY <1>11 DEF ErrorHandler, Timeout
  <1>12. CASE Leave(r)
    BY <1>12 DEF Leave
  <1> QED
    BY <1>1, <1>2, <1>3, <1>4, <1>5, <1>6, <1>7, <1>8, <1>9, <1>10, <1>11, <1>12 DEF Serve

\* What a step writes to the response: one body at most, and none over another.
LEMMA WrittenStep ==
    ASSUME TypeOK, NEW r \in Requests, Written(r), Serve(r)
    PROVE  Written(r)' /\ bodies' \in [Requests -> 0..1] /\ answer' \in [Requests -> Answers]
  <1>0. /\ pc \in [Requests -> Labels] /\ bodies \in [Requests -> 0..1]
        /\ answer \in [Requests -> Answers] /\ bodies[r] \in 0..1 /\ route[r] \in Routes
    BY DEF TypeOK, RequestTypes
  <1> USE DEF Written, BeforeReply, Goto, response, Respond, Abort, Answers
  <1>1. CASE \E path \in Routes, t \in Tokens \cup {None} : Arrive(r, path, t)
    BY <1>0, <1>1 DEF Arrive
  <1>2. CASE BodyLimit(r)
    BY <1>0, <1>2 DEF BodyLimit, RouteMiddleware
  <1>3. CASE RateLimit(r)
    BY <1>0, <1>3 DEF RateLimit
  <1>4. CASE RateLimitFails(r)
    BY <1>0, <1>4 DEF RateLimitFails
  <1>5. CASE Parse(r)
    BY <1>0, <1>5 DEF Parse, Reject
  <1>6. CASE Blacklist(r)
    BY <1>0, <1>6 DEF Blacklist, Reject
  <1>7. CASE FindRevoked(r)
    <2>1. CASE Accept(r)
      BY <1>0, <1>7, <2>1 DEF FindRevoked, Accept, Invalid
    <2>2. CASE Reject(r)
      BY <1>0, <1>7, <2>2 DEF FindRevoked, Reject
    <2> QED
      BY <1>7, <2>1, <2>2 DEF FindRevoked
  <1>8. CASE LogoutAppend(r) \/ LogoutBlacklist(r)
    BY <1>0, <1>8 DEF LogoutAppend, LogoutBlacklist, Fail
  <1>9. CASE Handle(r)
    <2>1. CASE OK(r)
      BY <1>0, <1>9, <2>1 DEF Handle, OK
    <2>2. CASE NotModified(r) \/ Fail(r)
      BY <1>0, <1>9, <2>2 DEF Handle, NotModified, Fail
    <2>3. CASE Invalid(r)
      BY <1>0, <1>9, <2>3 DEF Handle, Invalid
    <2> QED
      BY <1>9, <2>1, <2>2, <2>3 DEF Handle
  <1>10. CASE Panic(r)
    BY <1>0, <1>10 DEF Panic
  <1>11. CASE ErrorHandler(r)
    BY <1>0, <1>11 DEF ErrorHandler
  <1>12. CASE Timeout(r)
    BY <1>0, <1>12 DEF Timeout
  <1>13. CASE Leave(r)
    BY <1>0, <1>13 DEF Leave
  <1> QED
    BY <1>1, <1>2, <1>3, <1>4, <1>5, <1>6, <1>7, <1>8, <1>9, <1>10, <1>11, <1>12, <1>13 DEF Serve

\* The types of what requests carry.
LEMMA RequestTypesStep ==
    ASSUME TypeOK, NEW r \in Requests, Written(r), Serve(r)
    PROVE  RequestTypes'
  <1>0. RequestTypes
    BY DEF TypeOK
  <1>1. bodies' \in [Requests -> 0..1] /\ answer' \in [Requests -> Answers]
    BY WrittenStep
  <1>2. pc' \in [Requests -> Labels]
    BY <1>0 DEF RequestTypes, Labels, Goto, Serve, Arrive, BodyLimit, RouteMiddleware, RateLimit,
       RateLimitFails, Parse, Blacklist, FindRevoked, Accept, Invalid, Reject, Abort, LogoutAppend,
       LogoutBlacklist, Fail, Handle, OK, NotModified, Panic, ErrorHandler, Timeout, Leave
  <1>3. /\ route' \in [Requests -> Routes] /\ tok' \in [Requests -> Tokens \cup {None}]
        /\ known' \subseteq Requests
    <2>1. CASE \E path \in Routes, t \in Tokens \cup {None} : Arrive(r, path, t)
      BY <1>0, <2>1 DEF RequestTypes, Arrive
    <2>2. CASE Leave(r)
      BY <1>0, <2>2 DEF RequestTypes, Routes, Leave
    <2>3. CASE UNCHANGED request
      BY <1>0, <2>3 DEF RequestTypes, request
    <2> QED
      BY <2>1, <2>2, <2>3 DEF Serve, BodyLimit, RateLimit, RateLimitFails, Parse, Blacklist,
         FindRevoked, LogoutAppend, LogoutBlacklist, Handle, Panic, ErrorHandler, Timeout
  <1>4. inside' \subseteq Requests /\ overdue' \subseteq Requests
    BY <1>0 DEF RequestTypes, Serve, Arrive, BodyLimit, RateLimit, RateLimitFails, Parse,
       Blacklist, FindRevoked, Accept, LogoutAppend, LogoutBlacklist, Handle, Panic,
       ErrorHandler, Timeout, Leave
  <1>5. failed' \subseteq Requests /\ reported' \subseteq Requests
    BY <1>0 DEF RequestTypes, response, Serve, Arrive, BodyLimit, RateLimit, RateLimitFails, Parse,
       Blacklist, FindRevoked, Accept, Invalid, Reject, Abort, Respond, LogoutAppend, LogoutBlacklist,
       Fail, Handle, OK, NotModified, Panic, ErrorHandler, Timeout, Leave
  <1> QED
    BY <1>1, <1>2, <1>3, <1>4, <1>5 DEF RequestTypes

\* The types of what the stores hold.
LEMMA StoreTypesStep ==
    ASSUME TypeOK, NEW r \in Requests, Bearer(r), Serve(r)
    PROVE  StoreTypes'
  <1>0. StoreTypes /\ pc[r] \in Labels
    BY DEF TypeOK, RequestTypes
  <1>1. now' \in Nat /\ key' \in {1, 2} /\ notAfter' \in Nat
    BY <1>0, ServeFrame DEF StoreTypes
  <1>2. kid' \in [Tokens -> 0..2] /\ exp' \in [Tokens -> Nat]
    <2>1. CASE Handle(r)
      BY <1>0, <2>1 DEF Handle, GenerateAccessToken, tokens, StoreTypes
    <2>2. CASE ~Handle(r)
      BY <1>0, <2>2 DEF StoreTypes, tokens, Serve, Arrive, BodyLimit, RateLimit, RateLimitFails,
         Parse, Blacklist, FindRevoked, LogoutAppend, LogoutBlacklist, Panic, ErrorHandler,
         Timeout, Leave
    <2> QED
      BY <2>1, <2>2
  <1>3. pc[r] \in {"append", "setBlacklist", "findRevoked"} => tok[r] \in Tokens
    BY DEF Bearer, Issued
  <1>4. revoked' \subseteq Tokens
    BY <1>0, <1>3 DEF StoreTypes, Serve, Arrive, BodyLimit, RateLimit, RateLimitFails,
       Parse, Blacklist, FindRevoked, LogoutAppend, LogoutBlacklist, Handle, Panic, ErrorHandler,
       Timeout, Leave
  <1>5. blacklist' \subseteq Tokens
    BY <1>0, <1>3 DEF StoreTypes, Serve, Arrive, BodyLimit, RateLimit, RateLimitFails,
       Parse, Blacklist, FindRevoked, LogoutAppend, LogoutBlacklist, Handle, Panic, ErrorHandler,
       Timeout, Leave
  <1>6. count' \in Nat /\ admitted' \in Nat
    <2>1. CASE RateLimit(r) \/ RateLimitFails(r)
      BY <1>0, <2>1 DEF StoreTypes, RateLimit, RateLimitFails
    <2>2. CASE UNCHANGED limiter
      BY <1>0, <2>2 DEF StoreTypes, limiter
    <2> QED
      BY <2>1, <2>2 DEF Serve, Arrive, BodyLimit, Parse, Blacklist, FindRevoked, LogoutAppend,
         LogoutBlacklist, Handle, Panic, ErrorHandler, Timeout, Leave
  <1> QED
    BY <1>1, <1>2, <1>4, <1>5, <1>6 DEF StoreTypes

\* Types are kept by every step.
LEMMA TypeStep ==
    ASSUME TypeOK, \A r \in Requests : Bearer(r) /\ Written(r), [Next]_vars
    PROVE  TypeOK'
  <1>1. ASSUME NEW r \in Requests, Serve(r) PROVE TypeOK'
    BY <1>1, RequestTypesStep, StoreTypesStep DEF TypeOK
  <1> USE DEF TypeOK, StoreTypes, RequestTypes, keys, tokens, limiter, response, request
  <1>2. ASSUME NEW r \in Requests, Deadline(r) PROVE TypeOK'
    BY <1>2 DEF Deadline
  <1>3. ASSUME NEW t \in Tokens, BlacklistLost(t) \/ Purge(t) PROVE TypeOK'
    BY <1>3 DEF BlacklistLost, Purge
  <1>4. CASE Tick
    BY <1>4 DEF Tick
  <1>5. CASE Deploy
    BY <1>5 DEF Deploy
  <1>6. CASE WindowEnds
    BY <1>6 DEF WindowEnds
  <1>7. CASE UNCHANGED vars
    BY <1>7 DEF vars
  <1> QED
    BY <1>1, <1>2, <1>3, <1>4, <1>5, <1>6, <1>7, NextCases

-----------------------------------------------------------------------------
(* Tokens and revocations.                                                 *)

\* A token that was issued stays so, and its key and expiry stay.
LEMMA IssuedStep ==
    ASSUME TypeOK, [Next]_vars
    PROVE  \A t \in Issued : t \in Issued' /\ kid'[t] = kid[t] /\ exp'[t] = exp[t]
  <1>1. ASSUME NEW r \in Requests, Serve(r), NEW t \in Issued
        PROVE  t \in Issued' /\ kid'[t] = kid[t] /\ exp'[t] = exp[t]
    BY <1>1, ServeFrame DEF Issued
  <1>2. ASSUME ~\E r \in Requests : Serve(r)
        PROVE  UNCHANGED <<kid, exp>>
    BY <1>2 DEF Next, Deadline, BlacklistLost, Purge, Tick, Deploy, WindowEnds, vars, tokens
  <1> QED
    BY <1>1, <1>2 DEF Issued

\* Requests keep the token they came with.
LEMMA BearerStep ==
    ASSUME TypeOK, \A q \in Requests : Bearer(q), [Next]_vars
    PROVE  \A q \in Requests : Bearer(q)'
  <1>0. \A t \in Issued : t \in Issued'
    BY IssuedStep
  <1>1. ASSUME NEW r \in Requests, Serve(r), NEW q \in Requests, q # r PROVE Bearer(q)'
    BY <1>0, <1>1, ServeFrame DEF Bearer
  <1>2. ASSUME NEW r \in Requests, Serve(r) PROVE Bearer(r)'
    <2>0. /\ pc \in [Requests -> Labels] /\ route \in [Requests -> Routes]
          /\ tok \in [Requests -> Tokens \cup {None}]
      BY DEF TypeOK, RequestTypes
    <2> USE DEF Bearer, Goto, request
    <2>1. CASE \E path \in Routes, t \in Tokens \cup {None} : Arrive(r, path, t)
      BY <1>0, <2>0, <2>1 DEF Arrive
    <2>2. CASE BodyLimit(r)
      BY <1>0, <2>0, <2>2 DEF BodyLimit, RouteMiddleware
    <2>3. CASE RateLimit(r) \/ RateLimitFails(r)
      BY <2>0, <2>3 DEF RateLimit, RateLimitFails, Abort
    <2>4. CASE Parse(r) \/ Blacklist(r)
      BY <1>0, <2>0, <2>4 DEF Parse, Blacklist, Reject, Abort
    <2>5. CASE FindRevoked(r)
      BY <1>0, <2>0, <2>5 DEF FindRevoked, Accept, Invalid, Reject, Abort
    <2>6. CASE LogoutAppend(r) \/ LogoutBlacklist(r)
      BY <1>0, <2>0, <2>6 DEF LogoutAppend, LogoutBlacklist, Fail
    <2>7. CASE Handle(r)
      BY <2>0, <2>7 DEF Handle, OK, NotModified, Invalid, Abort, Fail
    <2>8. CASE Panic(r) \/ ErrorHandler(r) \/ Timeout(r) \/ Leave(r)
      BY <2>0, <2>8 DEF Panic, ErrorHandler, Timeout, Leave
    <2> QED
      BY <1>2, <2>1, <2>2, <2>3, <2>4, <2>5, <2>6, <2>7, <2>8 DEF Serve
  <1>3. ASSUME ~\E r \in Requests : Serve(r)
        PROVE  UNCHANGED <<pc, route, tok, known>>
    BY <1>3 DEF Next, Deadline, BlacklistLost, Purge, Tick, Deploy, WindowEnds, vars, request
  <1> QED
    BY <1>0, <1>1, <1>2, <1>3 DEF Bearer

\* The clock runs forward.
LEMMA ClockStep ==
    ASSUME TypeOK, [Next]_vars
    PROVE  now <= now'
  <1>1. now \in Nat
    BY DEF TypeOK, StoreTypes
  <1>2. ASSUME NEW r \in Requests, Serve(r) PROVE now' = now
    BY <1>2, ServeFrame
  <1> QED
    BY <1>1, <1>2 DEF Next, Deadline, BlacklistLost, Purge, Tick, Deploy, WindowEnds, vars

\* A request whose token was revoked when it came in: its own steps.
LEMMA KnownServe ==
    ASSUME TypeOK, NEW r \in Requests, Serve(r), Bearer(r), KnownRevoked, RevokedStaysOut,
           r \in known'
    PROVE  /\ route'[r] # "login" /\ tok'[r] \in Issued
           /\ tok'[r] \in revoked' \/ exp[tok'[r]] <= now
           /\ pc'[r] \in {"append", "setBlacklist", "handle"} => exp[tok'[r]] <= now
  <1>0. /\ pc \in [Requests -> Labels] /\ route \in [Requests -> Routes]
        /\ tok \in [Requests -> Tokens \cup {None}] /\ known \subseteq Requests
        /\ revoked \subseteq Tokens /\ now \in Nat /\ exp \in [Tokens -> Nat]
    BY DEF TypeOK, RequestTypes, StoreTypes
  <1>1. CASE \E path \in Routes, t \in Tokens \cup {None} : Arrive(r, path, t)
    <2>1. PICK path \in Routes, t \in Tokens \cup {None} : Arrive(r, path, t)
      BY <1>1
    <2>2. pc[r] = "idle" /\ pc'[r] = "body" /\ route'[r] = path /\ tok'[r] = t /\ revoked' = revoked
      BY <1>0, <2>1 DEF Arrive, Goto
    <2>3. CASE t \in revoked
      BY <1>0, <2>1, <2>2, <2>3 DEF Arrive
    <2>4. r \notin known
      BY <2>2 DEF Bearer
    <2> QED
      BY <2>1, <2>3, <2>4 DEF Arrive
  <1>2. CASE ~\E path \in Routes, t \in Tokens \cup {None} : Arrive(r, path, t)
    <2>1. r \in known /\ UNCHANGED <<route, tok>>
      BY <1>2 DEF Serve, BodyLimit, RateLimit, RateLimitFails, Parse, Blacklist, FindRevoked,
         LogoutAppend, LogoutBlacklist, Handle, Panic, ErrorHandler, Timeout, Leave, request
    <2>2. /\ route[r] # "login" /\ tok[r] \in Issued /\ exp[tok[r]] \in Nat
          /\ tok[r] \in revoked' \/ exp[tok[r]] <= now
      BY <1>0, <2>1, ServeFrame DEF KnownRevoked, Issued
    <2>3. CASE pc[r] \in {"append", "setBlacklist", "handle"}
      BY <2>1, <2>2, <2>3 DEF RevokedStaysOut
    <2>4. CASE FindRevoked(r)
      <3>1. CASE tok[r] \notin revoked \/ exp[tok[r]] < now
        BY <1>0, <2>1, <2>2, <3>1 DEF KnownRevoked
      <3>2. CASE Reject(r)
        BY <1>0, <2>1, <2>2, <3>2 DEF Reject, Abort, Goto
      <3> QED
        BY <2>4, <3>1, <3>2 DEF FindRevoked
    <2>5. CASE pc[r] \notin {"append", "setBlacklist", "handle"} /\ ~FindRevoked(r)
      <3>1. pc[r] # "limit"
        BY <2>2 DEF Bearer
      <3>2. pc'[r] \notin {"append", "setBlacklist", "handle"}
        BY <1>0, <1>2, <2>5, <3>1 DEF Serve, BodyLimit, RouteMiddleware, RateLimit, RateLimitFails,
           Parse, Blacklist, Reject, Abort, LogoutAppend, LogoutBlacklist, Handle, Panic,
           ErrorHandler, Timeout, Leave, Goto
      <3> QED
        BY <2>1, <2>2, <3>2
    <2> QED
      BY <2>3, <2>4, <2>5
  <1> QED
    BY <1>1, <1>2

\* A request that came in with a revoked token is shut out until the token
\* expires, whatever the other requests, Redis and the TTL index do.
LEMMA KnownStep ==
    ASSUME TypeOK, \A q \in Requests : Bearer(q), KnownRevoked, RevokedStaysOut, [Next]_vars,
           TypeOK'
    PROVE  KnownRevoked' /\ RevokedStaysOut'
  <1> SUFFICES ASSUME NEW q \in known'
               PROVE  /\ route'[q] # "login" /\ tok'[q] \in Issued'
                      /\ tok'[q] \in revoked' \/ exp'[tok'[q]] <= now'
                      /\ pc'[q] \in {"append", "setBlacklist", "handle"} =>
                           exp'[tok'[q]] <= now'
    BY DEF KnownRevoked, RevokedStaysOut
  <1>0. /\ q \in Requests /\ now \in Nat /\ now' \in Nat /\ exp \in [Tokens -> Nat]
        /\ known \subseteq Requests
    BY DEF TypeOK, StoreTypes, RequestTypes
  <1>1. /\ \A t \in Issued : t \in Issued' /\ exp'[t] = exp[t] /\ exp[t] \in Nat
        /\ now <= now'
    BY <1>0, IssuedStep, ClockStep DEF Issued
  <1>2. CASE Serve(q)
    BY <1>0, <1>1, <1>2, KnownServe
  <1>3. CASE \E r \in Requests : Serve(r) /\ r # q
    <2>1. /\ q \in known /\ route'[q] = route[q] /\ tok'[q] = tok[q] /\ pc'[q] = pc[q]
          /\ revoked \subseteq revoked'
      BY <1>0, <1>3, ServeFrame
    <2> QED
      BY <1>0, <1>1, <2>1 DEF KnownRevoked, RevokedStaysOut
  <1>4. CASE ~\E r \in Requests : Serve(r)
    <2>1. UNCHANGED <<known, route, tok, pc>>
      BY <1>4 DEF Next, Deadline, BlacklistLost, Purge, Tick, Deploy, WindowEnds, vars, request
    <2>2. \A t \in revoked : t \in revoked' \/ exp[t] <= now
      BY <1>4 DEF Next, Deadline, BlacklistLost, Purge, Tick, Deploy, WindowEnds, vars
    <2> QED
      BY <1>0, <1>1, <2>1, <2>2 DEF KnownRevoked, RevokedStaysOut
  <1> QED
    BY <1>0, <1>2, <1>3, <1>4

\* Only a handler writes what stands for success.
LEMMA SuccessFromHandler ==
    ASSUME TypeOK, NEW r \in Requests, Serve(r), pc[r] # "handle", answer'[r] \in Served
    PROVE  answer'[r] = answer[r]
  <1>1. answer \in [Requests -> Answers]
    BY DEF TypeOK, RequestTypes
  <1> QED
    BY <1>1 DEF Served, response, Serve, Arrive, BodyLimit, RateLimit, RateLimitFails, Parse,
       Blacklist, FindRevoked, Accept, Invalid, Reject, Abort, Respond, LogoutAppend, LogoutBlacklist,
       Fail, Handle, Panic, ErrorHandler, Timeout, Leave

\* So the answer to a request with a revoked token is a refusal.
LEMMA UnservedStep ==
    ASSUME TypeOK, \A q \in Requests : Bearer(q) /\ Written(q), KnownRevoked, RevokedStaysOut,
           RevokedUnserved, [Next]_vars, TypeOK'
    PROVE  RevokedUnserved'
  <1> SUFFICES ASSUME NEW q \in known', answer'[q] \in Served
               PROVE  exp'[tok'[q]] <= now'
    BY DEF RevokedUnserved
  <1>0. /\ q \in Requests /\ now \in Nat /\ now' \in Nat /\ exp \in [Tokens -> Nat]
        /\ known \subseteq Requests
    BY DEF TypeOK, StoreTypes, RequestTypes
  <1>1. /\ \A t \in Issued : t \in Issued' /\ exp'[t] = exp[t] /\ exp[t] \in Nat
        /\ now <= now'
    BY <1>0, IssuedStep, ClockStep DEF Issued
  <1>2. ASSUME q \in known, tok'[q] = tok[q], exp[tok[q]] <= now PROVE exp'[tok'[q]] <= now'
    BY <1>0, <1>1, <1>2 DEF KnownRevoked
  <1>3. CASE Serve(q)
    <2>1. CASE \E path \in Routes, t \in Tokens \cup {None} : Arrive(q, path, t)
      BY <1>0, <2>1 DEF Arrive, response, Written, BeforeReply, Served
    <2>2. CASE ~\E path \in Routes, t \in Tokens \cup {None} : Arrive(q, path, t)
      <3>1. q \in known /\ tok'[q] = tok[q]
        BY <1>3, <2>2 DEF Serve, BodyLimit, RateLimit, RateLimitFails, Parse, Blacklist,
           FindRevoked, LogoutAppend, LogoutBlacklist, Handle, Panic, ErrorHandler, Timeout, Leave,
           request
      <3>2. exp[tok[q]] <= now
        BY <1>0, <1>3, <3>1, SuccessFromHandler DEF RevokedStaysOut, RevokedUnserved
      <3> QED
        BY <1>2, <3>1, <3>2
    <2> QED
      BY <2>1, <2>2
  <1>4. CASE \E r \in Requests : Serve(r) /\ r # q
    <2>1. q \in known /\ tok'[q] = tok[q] /\ answer'[q] = answer[q]
      BY <1>0, <1>4, ServeFrame
    <2> QED
      BY <1>2, <2>1 DEF RevokedUnserved
  <1>5. CASE ~\E r \in Requests : Serve(r)
    <2>1. UNCHANGED <<known, tok, answer>>
      BY <1>5 DEF Next, Deadline, BlacklistLost, Purge, Tick, Deploy, WindowEnds, vars, request,
         response
    <2> QED
      BY <1>2, <2>1 DEF RevokedUnserved
  <1> QED
    BY <1>0, <1>3, <1>4, <1>5

-----------------------------------------------------------------------------
(* The limiter, the keys and the response.                                 *)

\* The counter runs ahead of the admissions, so the limit holds for both.
LEMMA LimitStep ==
    ASSUME TypeOK, Counted, LimitHeld, [Next]_vars
    PROVE  Counted' /\ LimitHeld'
  <1>0. count \in Nat /\ admitted \in Nat
    BY DEF TypeOK, StoreTypes
  <1>1. ASSUME NEW r \in Requests, RateLimit(r) PROVE Counted' /\ LimitHeld'
    BY <1>0, <1>1 DEF RateLimit, Allowed, Counted, LimitHeld
  <1>2. ASSUME NEW r \in Requests, RateLimitFails(r) PROVE Counted' /\ LimitHeld'
    BY <1>0, <1>2 DEF RateLimitFails, Counted, LimitHeld
  <1>3. CASE WindowEnds
    BY <1>3 DEF WindowEnds, Counted, LimitHeld
  <1>4. CASE UNCHANGED <<count, admitted>>
    BY <1>4 DEF Counted, LimitHeld
  <1>5. ASSUME NEW r \in Requests, Serve(r), ~RateLimit(r), ~RateLimitFails(r)
        PROVE  UNCHANGED <<count, admitted>>
    BY <1>5 DEF limiter, Serve, Arrive, BodyLimit, Parse, Blacklist, FindRevoked, LogoutAppend,
       LogoutBlacklist, Handle, Panic, ErrorHandler, Timeout, Leave
  <1>6. ASSUME ~WindowEnds, ~\E r \in Requests : Serve(r) PROVE UNCHANGED <<count, admitted>>
    BY <1>6 DEF Next, Deadline, BlacklistLost, Purge, Tick, Deploy, vars, limiter
  <1> QED
    BY <1>1, <1>2, <1>3, <1>4, <1>5, <1>6

\* A deployment finds no token that outlives the previous key by more than the
\* difference of TTL and Overlap.
LEMMA KeyStep ==
    ASSUME TypeOK, KeyAges, [Next]_vars, TypeOK'
    PROVE  KeyAges'
  <1>0. /\ now \in Nat /\ key \in {1, 2} /\ notAfter \in Nat /\ kid \in [Tokens -> 0..2]
        /\ exp \in [Tokens -> Nat] /\ now' \in Nat /\ now <= now'
    BY ClockStep DEF TypeOK, StoreTypes
  <1>1. ASSUME NEW r \in Requests, Serve(r) PROVE KeyAges'
    <2>1. UNCHANGED <<now, key, notAfter>>
      BY <1>1, ServeFrame
    <2>2. CASE UNCHANGED <<kid, exp>>
      BY <2>1, <2>2 DEF KeyAges, Issued
    <2>3. ASSUME NEW t \in Tokens \ Issued, GenerateAccessToken(t) PROVE KeyAges'
      <3>1. kid'[t] = key /\ exp'[t] = now + TTL
        BY <1>0, <2>3 DEF GenerateAccessToken
      <3>2. \A u \in Tokens \ {t} : kid'[u] = kid[u] /\ exp'[u] = exp[u]
        BY <1>0, <2>3 DEF GenerateAccessToken
      <3>3. ASSUME NEW u \in Issued'
            PROVE  /\ kid'[u] <= key /\ exp'[u] <= now + TTL
                   /\ key = 2 /\ kid'[u] = 1 => exp'[u] + Overlap <= notAfter + TTL
        <4>1. CASE u = t
          BY <1>0, <3>1, <4>1
        <4>2. CASE u # t
          <5>1. u \in Issued /\ kid'[u] = kid[u] /\ exp'[u] = exp[u]
            BY <3>2, <4>2 DEF Issued
          <5> QED
            BY <5>1 DEF KeyAges
        <4> QED
          BY <4>1, <4>2
      <3> QED
        BY <2>1, <3>3 DEF KeyAges
    <2>4. CASE ~Handle(r)
      <3>1. UNCHANGED <<kid, exp>>
        BY <1>1, <2>4 DEF tokens, Serve, Arrive, BodyLimit, RateLimit, RateLimitFails, Parse,
           Blacklist, FindRevoked, LogoutAppend, LogoutBlacklist, Panic, ErrorHandler, Timeout, Leave
      <3> QED
        BY <2>2, <3>1
    <2>5. CASE Handle(r)
      BY <2>2, <2>3, <2>5 DEF Handle, tokens
    <2> QED
      BY <2>4, <2>5
  <1>2. CASE Tick
    <2>1. UNCHANGED <<key, notAfter, kid, exp>> /\ now' = now + 1
      BY <1>2 DEF Tick, keys, tokens
    <2>2. \A t \in Issued : exp[t] \in Nat
      BY <1>0 DEF Issued
    <2> QED
      BY <1>0, <2>1, <2>2 DEF KeyAges, Issued
  <1>3. CASE Deploy
    <2>1. /\ key = 1 /\ key' = 2 /\ notAfter' = now + Overlap /\ UNCHANGED <<now, kid, exp>>
      BY <1>3 DEF Deploy, tokens
    <2>2. \A t \in Issued : exp[t] \in Nat /\ kid[t] \in 0..2
      BY <1>0 DEF Issued
    <2> QED
      BY <1>0, <2>1, <2>2 DEF KeyAges, Issued
  <1>4. CASE UNCHANGED <<now, key, notAfter, kid, exp>>
    BY <1>4 DEF KeyAges, Issued
  <1> QED
    BY <1>1, <1>2, <1>3, <1>4 DEF Next, Deadline, BlacklistLost, Purge, WindowEnds, vars, keys,
       tokens

\* Nobody writes another request's response.
LEMMA AllWrittenStep ==
    ASSUME TypeOK, \A q \in Requests : Written(q), [Next]_vars
    PROVE  \A q \in Requests : Written(q)'
  <1>1. ASSUME NEW r \in Requests, Serve(r), NEW q \in Requests, q # r PROVE Written(q)'
    <2>1. /\ pc'[q] = pc[q] /\ bodies'[q] = bodies[q] /\ answer'[q] = answer[q]
          /\ q \in failed' <=> q \in failed
          /\ q \in reported' <=> q \in reported
      BY <1>1, ServeFrame
    <2>2. Written(q)
      OBVIOUS
    <2> QED
      BY <2>1, <2>2 DEF Written
  <1>2. ASSUME NEW r \in Requests, Serve(r) PROVE Written(r)'
    BY <1>2, WrittenStep
  <1>3. ASSUME ~\E r \in Requests : Serve(r)
        PROVE  UNCHANGED <<pc, failed, bodies, answer, reported>>
    BY <1>3 DEF Next, Deadline, BlacklistLost, Purge, Tick, Deploy, WindowEnds, vars, response
  <1> QED
    BY <1>1, <1>2, <1>3 DEF Written

-----------------------------------------------------------------------------
(* The theorems.                                                           *)

\* At the start no token is issued and no request under way.
LEMMA InvInit == Init => IInv
  <1> SUFFICES ASSUME Init PROVE IInv
    OBVIOUS
  <1>1. StoreTypes
    BY DEF Init, StoreTypes
  <1>2. RequestTypes
    BY DEF Init, RequestTypes, Labels, Routes, Answers
  <1>3. \A r \in Requests : Bearer(r) /\ Written(r)
    BY DEF Init, Bearer, Written, BeforeReply
  <1>4. KnownRevoked /\ RevokedStaysOut /\ RevokedUnserved
    BY DEF Init, KnownRevoked, RevokedStaysOut, RevokedUnserved
  <1>5. Counted /\ LimitHeld
    BY DEF Init, Counted, LimitHeld
  <1>6. KeyAges
    BY DEF Init, KeyAges, Issued
  <1> QED
    BY <1>1, <1>2, <1>3, <1>4, <1>5, <1>6 DEF IInv, TypeOK

\* IInv is inductive.
LEMMA InvStep == IInv /\ [Next]_vars => IInv'
  <1> SUFFICES ASSUME IInv, [Next]_vars PROVE IInv'
    OBVIOUS
  <1> USE DEF IInv
  <1>1. TypeOK'
    BY TypeStep
  <1>2. \A r \in Requests : Bearer(r)' /\ Written(r)'
    BY BearerStep, AllWrittenStep
  <1>3. KnownRevoked' /\ RevokedStaysOut' /\ RevokedUnserved'
    BY <1>1, KnownStep, UnservedStep
  <1>4. Counted' /\ LimitHeld' /\ KeyAges'
    BY <1>1, LimitStep, KeyStep
  <1> QED
    BY <1>1, <1>2, <1>3, <1>4

\* The inductive invariant holds in every reachable state.
THEOREM Invariance == Spec => []IInv
  BY InvInit, InvStep, PTL DEF Spec

\* Every variable of the pipeline keeps its type.
THEOREM TypeCorrect == Spec => []TypeOK
  <1>1. IInv => TypeOK
    BY DEF IInv
  <1> QED
    BY <1>1, Invariance, PTL

\* A body is written from a state in which there is none; from "errors" on the
\* code looks first.
LEMMA BodyKept ==
    ASSUME TypeOK, NEW r \in Requests, Written(r), bodies[r] = 1, Serve(r), pc'[r] # "idle"
    PROVE  bodies'[r] = 1 /\ answer'[r] = answer[r]
  <1>0. /\ pc \in [Requests -> Labels] /\ pc[r] \notin BeforeReply
        /\ pc[r] \in {"errors", "deadline", "done"}
    BY DEF TypeOK, RequestTypes, Written, Labels, BeforeReply
  <1>1. CASE ErrorHandler(r)
    BY <1>1 DEF ErrorHandler
  <1>2. CASE Timeout(r)
    <2>1. ~(bodies[r] = 0)
      OBVIOUS
    <2>2. UNCHANGED response
      BY <1>2, <2>1 DEF Timeout
    <2> QED
      BY <2>2 DEF response
  <1>3. CASE Leave(r)
    BY <1>0, <1>3 DEF Leave, Goto
  <1> QED
    BY <1>0, <1>1, <1>2, <1>3
       DEF Serve, Arrive, BodyLimit, RateLimit, RateLimitFails, Parse, Blacklist, FindRevoked,
           LogoutAppend, LogoutBlacklist, Handle, Panic

\* The first body that a middleware, the handler, ErrorHandler, Recovery or
\* Timeout writes is the response, with any number of requests under way.
THEOREM AnswerIsFinal == Spec => AnswerStands
  <1>1. IInv /\ [Next]_vars =>
          [\A r \in Requests :
             bodies[r] = 1 /\ pc'[r] # "idle" => bodies'[r] = 1 /\ answer'[r] = answer[r]]_vars
    <2> SUFFICES ASSUME IInv, [Next]_vars, NEW q \in Requests, bodies[q] = 1, pc'[q] # "idle"
                 PROVE  bodies'[q] = 1 /\ answer'[q] = answer[q]
      OBVIOUS
    <2>1. CASE Serve(q)
      BY <2>1, BodyKept DEF IInv
    <2>2. ASSUME NEW r \in Requests, Serve(r), r # q
          PROVE  bodies'[q] = 1 /\ answer'[q] = answer[q]
      BY <2>2, ServeFrame DEF IInv
    <2>3. CASE ~\E r \in Requests : Serve(r)
      BY <2>3 DEF Next, Deadline, BlacklistLost, Purge, Tick, Deploy, WindowEnds, vars, response
    <2> QED
      BY <2>1, <2>2, <2>3
  <1> QED
    BY <1>1, Invariance, PTL DEF Spec, AnswerStands

\* ValidateAccessToken lets no token pass that was revoked before the request
\* came in, unless it expires on the way.
THEOREM RevocationShutsOut == Spec => []RevokedStaysOut
  <1>1. IInv => RevokedStaysOut
    BY DEF IInv
  <1> QED
    BY <1>1, Invariance, PTL

\* With the fallback "block" Allow admits no more than the limit in a window.
THEOREM LimitIsHeld == Spec => []LimitHeld
  <1>1. IInv => LimitHeld
    BY DEF IInv
  <1> QED
    BY <1>1, Invariance, PTL

\* An overlap as long as the access TTL makes a key rotation invisible.
THEOREM RotationIsInvisible == Spec => []RotationKeepsTokens
  <1>1. IInv => RotationKeepsTokens
    <2> SUFFICES ASSUME IInv, Overlap >= TTL, NEW t \in Issued, now <= exp[t]
                 PROVE  KeyAccepted(kid[t])
      BY DEF RotationKeepsTokens
    <2>1. /\ now \in Nat /\ key \in {1, 2} /\ notAfter \in Nat /\ kid[t] \in {1, 2}
          /\ exp[t] \in Nat
      BY DEF IInv, TypeOK, StoreTypes, Issued
    <2>2. CASE kid[t] = key
      BY <2>2 DEF KeyAccepted
    <2>3. CASE kid[t] # key
      <3>1. key = 2 /\ kid[t] = 1
        BY <2>1, <2>3 DEF IInv, KeyAges
      <3>2. exp[t] + Overlap <= notAfter + TTL /\ notAfter > 0
        BY <3>1 DEF IInv, KeyAges
      <3> QED
        BY <2>1, <3>2 DEF KeyAccepted
    <2> QED
      BY <2>2, <2>3
  <1> QED
    BY <1>1, Invariance, PTL

\* No request leaves without an answer, and error events stand for errors.
THEOREM AllAnswered == Spec => []Answered
  <1>1. IInv => Answered
    BY DEF IInv, Written, Answered
  <1> QED
    BY <1>1, Invariance, PTL

-----------------------------------------------------------------------------
(* The refinement of RequestService.                                       *)

\* The two kinds of answer are all there are.
LEMMA AnswersSplit == \A a \in Answers : a # "none" => a \in Served \cup Refused
  BY DEF Answers, Served, Refused

\* Between its arrival and its departure a request keeps its token, and the
\* token its expiry.
LEMMA BarredFrame ==
    ASSUME IInv, NEW r \in Requests, Serve(r), UNCHANGED <<tok, known>>
    PROVE  barred' = barred
  <1>1. now' = now /\ \A t \in Issued : exp'[t] = exp[t]
    BY ServeFrame DEF IInv
  <1>2. \A q \in known : tok[q] \in Issued
    BY DEF IInv, KnownRevoked
  <1> QED
    BY <1>1, <1>2 DEF barred

\* The other requests' answers stay.
LEMMA ReplyFrame ==
    ASSUME IInv, NEW r \in Requests, Serve(r)
    PROVE  /\ reply' = [reply EXCEPT ![r] = reply'[r]]
           /\ reply'[r] = reply[r] => reply' = reply
  <1>1. \A q \in Requests \ {r} : reply'[q] = reply[q]
    BY ServeFrame DEF IInv, reply
  <1>2. /\ reply = [q \in Requests |-> reply[q]]
        /\ reply' = [q \in Requests |-> reply'[q]]
    BY DEF reply
  <1> QED
    BY <1>1, <1>2

\* A request comes in.
LEMMA ArriveRefines ==
    ASSUME IInv, NEW r \in Requests, NEW path \in Routes, NEW t \in Tokens \cup {None},
           Arrive(r, path, t)
    PROVE  Service!Arrive(r)
  <1>0. /\ pc \in [Requests -> Labels] /\ tok \in [Requests -> Tokens \cup {None}]
        /\ known \subseteq Requests /\ Written(r) /\ Bearer(r)
    BY DEF IInv, TypeOK, RequestTypes
  <1>1. pc[r] = "idle" /\ pc'[r] = "body" /\ bodies'[r] = 0
    <2>1. pc[r] = "idle" /\ pc'[r] = "body" /\ bodies' = bodies
      BY <1>0 DEF Arrive, Goto, response
    <2> QED
      BY <1>0, <2>1 DEF Written, BeforeReply
  <1>2. reply[r] = "none" /\ reply'[r] = "pending"
    <2>1. reply[r] = "none"
      BY <1>1 DEF reply
    <2>2. reply'[r] = "pending"
      BY <1>1 DEF reply
    <2> QED
      BY <2>1, <2>2
  <1>3. reply' = [reply EXCEPT ![r] = "pending"]
    <2>1. Serve(r)
      BY DEF Serve
    <2> QED
      BY <1>2, <2>1, ReplyFrame
  <1>4. r \notin known /\ UNCHANGED <<now, exp>> /\ known' \in {known, known \cup {r}}
    BY <1>0, <1>1 DEF Bearer, Arrive, tokens
  <1>5. \A q \in known : q # r /\ tok'[q] = tok[q]
    BY <1>0, <1>4 DEF Arrive
  <1>6. barred' \in {barred, barred \cup {r}}
    <2>1. \A q : q # r => (q \in barred' <=> q \in barred)
      BY <1>4, <1>5 DEF barred
    <2>2. r \notin barred
      BY <1>4 DEF barred
    <2> QED
      BY <2>1, <2>2
  <1> QED
    BY <1>2, <1>3, <1>6 DEF Service!Arrive

\* A response leaves: there is one.
LEMMA LeaveRefines ==
    ASSUME IInv, NEW r \in Requests, Leave(r)
    PROVE  Service!Leave(r)
  <1>0. /\ pc \in [Requests -> Labels] /\ tok \in [Requests -> Tokens \cup {None}]
        /\ answer[r] \in Answers /\ known \subseteq Requests /\ Written(r)
    BY DEF IInv, TypeOK, RequestTypes
  <1>1. pc[r] = "done" /\ pc'[r] = "idle" /\ answer[r] # "none"
    BY <1>0 DEF Leave, Goto, Written
  <1>2. reply[r] = answer[r] /\ reply'[r] = "none"
    BY <1>1 DEF reply
  <1>3. reply' = [reply EXCEPT ![r] = "none"]
    <2>1. Serve(r)
      BY DEF Serve
    <2> QED
      BY <1>2, <2>1, ReplyFrame
  <1>4. UNCHANGED <<now, exp>> /\ known' = known \ {r}
    BY DEF Leave, tokens
  <1>5. \A q \in known' : tok'[q] = tok[q]
    BY <1>0, <1>4 DEF Leave
  <1>6. barred' = barred \ {r}
    BY <1>4, <1>5 DEF barred
  <1> QED
    BY <1>0, <1>1, <1>2, <1>3, <1>6, AnswersSplit DEF Service!Leave

\* Any other step of a request leaves the answer pending, gives it, or finds it
\* given.
LEMMA AnswerRefines ==
    ASSUME IInv, IInv', NEW r \in Requests, Serve(r), UNCHANGED <<tok, known>>,
           pc[r] \notin {"idle", "done"}, pc'[r] # "idle"
    PROVE  Service!Next \/ UNCHANGED Service!vars
  <1>0. /\ Written(r) /\ Written(r)' /\ bodies[r] \in 0..1 /\ bodies'[r] \in 0..1
        /\ answer'[r] \in Answers
    BY DEF IInv, TypeOK, RequestTypes
  <1>1. barred' = barred
    BY BarredFrame
  <1>2. CASE bodies[r] = 1
    <2>1. bodies'[r] = 1 /\ answer'[r] = answer[r]
      BY <1>2, BodyKept DEF IInv
    <2>2. reply'[r] = reply[r]
      BY <1>2, <2>1 DEF reply
    <2>3. reply' = reply
      BY <2>2, ReplyFrame
    <2> QED
      BY <1>1, <2>3 DEF Service!vars
  <1>3. CASE bodies[r] # 1 /\ bodies'[r] # 1 /\ pc'[r] # "done"
    <2>1. reply'[r] = reply[r]
      BY <1>3 DEF reply
    <2>2. reply' = reply
      BY <2>1, ReplyFrame
    <2> QED
      BY <1>1, <2>2 DEF Service!vars
  <1>4. CASE bodies[r] # 1 /\ (bodies'[r] = 1 \/ pc'[r] = "done")
    <2>1. reply[r] = "pending" /\ reply'[r] = answer'[r]
      BY <1>4 DEF reply
    <2>2. reply' = [reply EXCEPT ![r] = answer'[r]]
      BY <2>1, ReplyFrame
    <2>3. answer'[r] \in Served \cup Refused
      BY <1>0, <1>4, AnswersSplit DEF Written
    <2>4. CASE answer'[r] \in Refused
      BY <1>1, <2>1, <2>2, <2>4 DEF Service!Refuse, Service!Next
    <2>5. CASE answer'[r] \in Served
      <3>1. r \notin barred
        <4>1. r \in known' => exp'[tok'[r]] <= now'
          BY <2>5 DEF IInv, RevokedUnserved
        <4>2. r \in known' => exp'[tok'[r]] \in Nat /\ now' \in Nat
          BY DEF IInv, TypeOK, StoreTypes, KnownRevoked, Issued
        <4>3. r \in barred => r \in known' /\ now' < exp'[tok'[r]]
          BY <1>1 DEF barred
        <4> QED
          BY <4>1, <4>2, <4>3
      <3> QED
        BY <1>1, <2>1, <2>2, <2>5, <3>1 DEF Service!Serve, Service!Next
    <2> QED
      BY <2>3, <2>4, <2>5
  <1> QED
    BY <1>2, <1>3, <1>4

\* Every step of the router is one of the service, or none.
LEMMA RefinementStep ==
    ASSUME IInv, IInv', [Next]_vars
    PROVE  Service!Next \/ UNCHANGED Service!vars
  <1>1. ASSUME NEW r \in Requests, NEW path \in Routes, NEW t \in Tokens \cup {None},
               Arrive(r, path, t)
        PROVE  Service!Next
    BY <1>1, ArriveRefines DEF Service!Next
  <1>2. ASSUME NEW r \in Requests, Leave(r) PROVE Service!Next
    BY <1>2, LeaveRefines DEF Service!Next
  <1>3. ASSUME NEW r \in Requests, Serve(r), ~Leave(r),
               ~\E path \in Routes, t \in Tokens \cup {None} : Arrive(r, path, t)
        PROVE  Service!Next \/ UNCHANGED Service!vars
    <2>0. pc \in [Requests -> Labels] /\ route[r] \in Routes
      BY DEF IInv, TypeOK, RequestTypes
    <2>1. UNCHANGED <<tok, known>>
      BY <1>3 DEF request, Serve, BodyLimit, RateLimit, RateLimitFails, Parse, Blacklist,
         FindRevoked, LogoutAppend, LogoutBlacklist, Handle, Panic, ErrorHandler, Timeout
    <2>2. pc[r] \notin {"idle", "done"}
      BY <1>3 DEF Serve, BodyLimit, RateLimit, RateLimitFails, Parse, Blacklist,
         FindRevoked, LogoutAppend, LogoutBlacklist, Handle, Panic, ErrorHandler, Timeout
    <2>3. pc'[r] # "idle"
      BY <1>3, <2>0 DEF Goto, Serve, BodyLimit, RouteMiddleware, RateLimit, RateLimitFails, Parse,
         Blacklist, FindRevoked, Accept, Invalid, Reject, Abort, LogoutAppend, LogoutBlacklist, Fail,
         Handle, OK, NotModified, Panic, ErrorHandler, Timeout
    <2> QED
      BY <1>3, <2>1, <2>2, <2>3, AnswerRefines
  <1>4. ASSUME ~\E r \in Requests : Serve(r)
        PROVE  Service!Next
    <2>1. UNCHANGED <<pc, bodies, answer, tok, known>> /\ exp' = exp
      BY <1>4 DEF Next, Deadline, BlacklistLost, Purge, Tick, Deploy, WindowEnds, vars, request,
         response, tokens
    <2>2. reply' = reply
      BY <2>1 DEF reply
    <2>3. now <= now' /\ now \in Nat /\ now' \in Nat
      BY ClockStep DEF IInv, TypeOK, StoreTypes
    <2>4. \A q \in known : exp[tok[q]] \in Nat
      BY DEF IInv, TypeOK, StoreTypes, KnownRevoked, Issued
    <2>5. barred' \subseteq barred
      BY <2>1, <2>3, <2>4 DEF barred
    <2> QED
      BY <2>2, <2>5 DEF Service!Expire, Service!Next
  <1> QED
    BY <1>1, <1>2, <1>3, <1>4

\* The router with its chain of middleware answers as the service does: once,
\* finally, and never with success for a token that was logged out before the
\* request came in, however many requests overlap and whatever Redis loses.
THEOREM RouterServes == Spec => ImplementsService
  <1>1. Init => Service!Init
    BY DEF Init, Service!Init, reply, barred
  <1>2. IInv /\ IInv' /\ [Next]_vars => [Service!Next]_(Service!vars)
    BY RefinementStep
  <1> QED
    BY <1>1, <1>2, Invariance, PTL DEF Spec, ImplementsService, Service!Spec

-----------------------------------------------------------------------------
(* Every request comes to its end.                                         *)

\* What is left is a number, and nothing is left at the end only.
LEMMA ToGoNat ==
    ASSUME NEW l \in Labels, NEW again \in BOOLEAN
    PROVE  /\ ToGo(l, again) \in 0..12
           /\ ToGo(l, again) = 0 <=> l \in {"idle", "done"}
  BY DEF Labels, ToGo

\* So it is for a request in any reachable state.
LEMMA AheadBounded ==
    ASSUME IInv, NEW r \in Requests
    PROVE  /\ ToGo(pc[r], r \in inside) \in 0..12
           /\ ToGo(pc[r], r \in inside) = 0 <=> pc[r] \in {"idle", "done"}
  <1>1. pc[r] \in Labels
    BY DEF IInv, TypeOK, RequestTypes
  <1>2. (r \in inside) \in BOOLEAN
    OBVIOUS
  <1> QED
    BY <1>1, <1>2, ToGoNat

\* A step of the request itself leaves less to do.
LEMMA ServeAhead ==
    ASSUME IInv, NEW r \in Requests, Serve(r), pc[r] \notin {"idle", "done"}
    PROVE  /\ pc'[r] # "idle"
           /\ ToGo(pc'[r], r \in inside') < ToGo(pc[r], r \in inside)
  <1>0. pc \in [Requests -> Labels] /\ route[r] \in Routes /\ Bearer(r)
    BY DEF IInv, TypeOK, RequestTypes
  <1> USE DEF Goto, ToGo
  <1>1. CASE BodyLimit(r)
    BY <1>0, <1>1 DEF BodyLimit, RouteMiddleware
  <1>2. CASE RateLimit(r) \/ RateLimitFails(r)
    BY <1>0, <1>2 DEF RateLimit, RateLimitFails, Abort
  <1>3. CASE Parse(r) \/ Blacklist(r)
    BY <1>0, <1>3 DEF Parse, Blacklist, Reject, Abort
  <1>4. CASE FindRevoked(r)
    <2>1. CASE Reject(r)
      BY <1>0, <1>4, <2>1 DEF FindRevoked, Reject, Abort
    <2>2. CASE Accept(r)
      BY <1>0, <1>4, <2>2 DEF FindRevoked, Accept, Invalid, Abort, Bearer, Routes
    <2> QED
      BY <1>4, <2>1, <2>2 DEF FindRevoked
  <1>5. CASE LogoutAppend(r) \/ LogoutBlacklist(r)
    BY <1>0, <1>5 DEF LogoutAppend, LogoutBlacklist, Fail
  <1>6. CASE Handle(r)
    BY <1>0, <1>6 DEF Handle, OK, NotModified, Invalid, Abort, Fail
  <1>7. CASE Panic(r) \/ ErrorHandler(r) \/ Timeout(r)
    BY <1>0, <1>7 DEF Panic, ErrorHandler, Timeout
  <1> QED
    BY <1>1, <1>2, <1>3, <1>4, <1>5, <1>6, <1>7 DEF Serve, Arrive, Leave

\* Nobody else sets a request back.
LEMMA OthersAhead ==
    ASSUME IInv, NEW r \in Requests, [Next]_vars, ~Serve(r)
    PROVE  pc'[r] = pc[r] /\ (r \in inside' <=> r \in inside)
  <1>1. ASSUME NEW q \in Requests, Serve(q), q # r
        PROVE  pc'[r] = pc[r] /\ (r \in inside' <=> r \in inside)
    <2>1. pc'[r] = pc[r]
      BY <1>1, ServeFrame DEF IInv
    <2>2. r \in inside' <=> r \in inside
      BY <1>1 DEF Serve, Arrive, BodyLimit, RateLimit, RateLimitFails, Parse, Blacklist,
         FindRevoked, Accept, LogoutAppend, LogoutBlacklist, Handle, Panic, ErrorHandler, Timeout,
         Leave
    <2> QED
      BY <2>1, <2>2
  <1>2. ASSUME ~\E q \in Requests : Serve(q) PROVE UNCHANGED <<pc, inside>>
    BY <1>2 DEF Next, Deadline, BlacklistLost, Purge, Tick, Deploy, WindowEnds, vars
  <1> QED
    BY <1>1, <1>2

\* A request with at most n calls before it.
Within(r, n) == ~(pc[r] = "idle") /\ ToGo(pc[r], r \in inside) <= n
Nearer(r, m, n) == [](Within(r, m) => <>Within(r, n))

\* One step of its goroutine is one call.
LEMMA OneNearer ==
    ASSUME NEW r \in Requests, NEW n \in Nat, NEW m \in Nat, m <= n + 1
    PROVE  Spec /\ ServeTaken(r) => Nearer(r, m, n)
  <1> DEFINE Going == pc[r] \notin {"idle", "done"} /\ ToGo(pc[r], r \in inside) <= m
             There == Within(r, n)
  <1>t. IInv => /\ ToGo(pc[r], r \in inside) \in 0..12
                /\ ToGo(pc[r], r \in inside) = 0 <=> pc[r] \in {"idle", "done"}
    BY AheadBounded
  <1>p. IInv' => ToGo(pc'[r], r \in inside') \in 0..12
    <2>1. IInv' => pc'[r] \in Labels
      BY DEF IInv, TypeOK, RequestTypes
    <2>2. (r \in inside') \in BOOLEAN
      OBVIOUS
    <2> QED
      BY <2>1, <2>2, ToGoNat
  <1>1. IInv /\ IInv' /\ Going /\ Serve(r) => There'
    <2> SUFFICES ASSUME IInv, IInv', Going, Serve(r) PROVE There'
      OBVIOUS
    <2>1. /\ pc'[r] # "idle"
          /\ ToGo(pc'[r], r \in inside') < ToGo(pc[r], r \in inside)
      BY ServeAhead
    <2>2. ASSUME NEW a \in 0..12, NEW b \in 0..12, b < a, a <= m
          PROVE  b <= n
      BY <2>2
    <2>3. ToGo(pc'[r], r \in inside') <= n
      BY <1>t, <1>p, <2>1, <2>2
    <2> QED
      BY <2>1, <2>3 DEF Within
  <1>2. IInv /\ IInv' /\ Going /\ [Next]_vars => Going' \/ There'
    <2> SUFFICES ASSUME IInv, IInv', Going, [Next]_vars, ~Serve(r) PROVE Going'
      BY <1>1
    <2> HIDE DEF There
    <2>1. pc'[r] = pc[r] /\ (r \in inside' <=> r \in inside)
      BY OthersAhead
    <2>2. CASE r \in inside
      BY <2>1, <2>2 DEF ToGo
    <2>3. CASE r \notin inside
      BY <2>1, <2>3 DEF ToGo
    <2> QED
      BY <2>2, <2>3
  <1>3. IInv /\ IInv' /\ Going /\ <<Serve(r)>>_vars => There'
    BY <1>1
  <1>4. Going => ~(pc[r] = "idle")
    OBVIOUS
  <1>5. IInv /\ Within(r, m) => Going \/ There
    BY <1>t DEF Within
  <1> HIDE DEF Going, There
  <1>6. Spec /\ ServeTaken(r) => [](Within(r, m) => <>There)
    BY <1>2, <1>3, <1>4, <1>5, Invariance, PTL DEF Spec, ServeTaken
  <1> QED
    BY <1>6 DEF There, Nearer

\* Every request that came in is answered, whichever calls fail and however the
\* other requests, the clock and Redis interfere, as long as its goroutine is
\* given steps: no path through the middleware goes round in circles.
THEOREM EveryRequestAnswered == Spec /\ (\A r \in Requests : ServeTaken(r)) => AnswersCome
  <1>1. ASSUME NEW r \in Requests
        PROVE  Spec /\ ServeTaken(r) => (~(pc[r] = "idle") ~> pc[r] = "done")
    <2>1. IInv /\ ~(pc[r] = "idle") => Within(r, 12)
      BY AheadBounded DEF Within
    <2>2. IInv /\ Within(r, 0) => pc[r] = "done"
      BY AheadBounded DEF Within
    <2>3. Spec /\ ServeTaken(r) =>
            Nearer(r, 12, 11) /\ Nearer(r, 11, 10) /\ Nearer(r, 10, 9) /\ Nearer(r, 9, 8)
      BY OneNearer
    <2>4. Spec /\ ServeTaken(r) =>
            Nearer(r, 8, 7) /\ Nearer(r, 7, 6) /\ Nearer(r, 6, 5) /\ Nearer(r, 5, 4)
      BY OneNearer
    <2>5. Spec /\ ServeTaken(r) =>
            Nearer(r, 4, 3) /\ Nearer(r, 3, 2) /\ Nearer(r, 2, 1) /\ Nearer(r, 1, 0)
      BY OneNearer
    <2> QED
      BY <2>1, <2>2, <2>3, <2>4, <2>5, Invariance, PTL DEF Nearer
  <1> QED
    BY <1>1 DEF AnswersCome
=============================================================================
