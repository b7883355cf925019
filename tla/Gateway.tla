------------------------------- MODULE Gateway -------------------------------
(***************************************************************************)
(* A request's way through the router: internal/handler/http/router.go and *)
(* internal/middleware - body limit, deadline, error handler, rate limiter *)
(* (internal/platform/ratelimit) and Authenticate over the token service   *)
(* (internal/app/auth/token_service.go) - with the three kinds of handler  *)
(* that matter to them: Login issues an access token, Logout revokes the   *)
(* presented one, GetMe stands for every other protected handler.          *)
(*                                                                         *)
(* Requests overlap; one call to Redis or Mongo is one step, may fail, and *)
(* takes time: the clock, the request's deadline, TTLs and a deployment    *)
(* with a new signing key come between any two steps.  The API hands no    *)
(* session repository to Authenticate (cmd/api/main.go), so sessions play  *)
(* no part here.                                                           *)
(***************************************************************************)
EXTENDS Integers, FiniteSets

CONSTANTS
    Requests,   \* requests under way at the same time
    Tokens,     \* access tokens that can be issued
    None,       \* no token
    TTL,        \* JWT access TTL
    Overlap,    \* how far a deployment puts JWT_ACCESS_PREVIOUS_NOT_AFTER ahead
    Limit,      \* requests per window
    Fallback,   \* RATE_LIMIT_FALLBACK: "allow" or "block"
    MaxTime,    \* bound on the clock
    MaxCount    \* bound on the requests counted in a window

ASSUME TimesAssumption == TTL \in Nat \ {0} /\ Overlap \in Nat /\ MaxTime \in Nat
ASSUME LimitAssumption == Limit \in Nat \ {0} /\ MaxCount \in Nat
ASSUME FallbackAssumption == Fallback \in {"allow", "block"}
ASSUME NoneAssumption == None \notin Tokens

VARIABLES
    now,        \* the clock
    key,        \* the current signing key: 1, then 2
    notAfter,   \* not_after of the previous key, 0 while there is none
    kid,        \* kid[t]: the key that signed t, 0 while t is not issued
    exp,        \* exp[t]: its expiry
    revoked,    \* revoked_tokens: the access tokens logged out
    blacklist,  \* Redis: the tokens with a blacklist entry
    count,      \* Redis: the rate limit counter of the current window
    admitted,   \* requests the limiter let through in this window
    pc,         \* pc[r]: where request r stands
    route,      \* route[r]: "login", "logout" or "me"
    tok,        \* tok[r]: the bearer token
    inside,     \* logouts past Authenticate
    overdue,    \* requests whose deadline has passed
    failed,     \* requests with an entry in c.Errors
    bodies,     \* bodies[r]: response bodies written
    answer,     \* answer[r]: the last status written
    reported,   \* requests with an error event appended
    known       \* requests whose token was revoked when they came in

keys == <<key, notAfter>>
tokens == <<kid, exp>>
limiter == <<count, admitted>>
response == <<failed, bodies, answer, reported>>
request == <<route, tok, known>>
vars == <<now, key, notAfter, kid, exp, revoked, blacklist, count, admitted, pc, route,
          tok, inside, overdue, failed, bodies, answer, reported, known>>

Routes == {"login", "logout", "me"}
Issued == {t \in Tokens : kid[t] # 0}

Init ==
    /\ now = 1
    /\ key = 1
    /\ notAfter = 0
    /\ kid = [t \in Tokens |-> 0]
    /\ exp = [t \in Tokens |-> 0]
    /\ revoked = {}
    /\ blacklist = {}
    /\ count = 0
    /\ admitted = 0
    /\ pc = [r \in Requests |-> "idle"]
    /\ route = [r \in Requests |-> "me"]
    /\ tok = [r \in Requests |-> None]
    /\ inside = {}
    /\ overdue = {}
    /\ failed = {}
    /\ bodies = [r \in Requests |-> 0]
    /\ answer = [r \in Requests |-> "none"]
    /\ reported = {}
    /\ known = {}

Goto(r, label) == pc' = [pc EXCEPT ![r] = label]

\* writeError and the handlers' own replies.
Respond(r, status) ==
    /\ bodies' = [bodies EXCEPT ![r] = @ + 1]
    /\ answer' = [answer EXCEPT ![r] = status]
    /\ UNCHANGED <<failed, reported>>

\* A middleware answers and aborts: the chain unwinds from here.
Abort(r, status) == Respond(r, status) /\ Goto(r, "errors")

-----------------------------------------------------------------------------
(* On the way in.                                                          *)

Arrive(r, path, t) ==
    /\ pc[r] = "idle"
    /\ t \in IF path = "login" THEN {None} ELSE Issued
    /\ route' = [route EXCEPT ![r] = path]
    /\ tok' = [tok EXCEPT ![r] = t]
    /\ known' = IF t \in revoked THEN known \cup {r} ELSE known
    /\ Goto(r, "body")
    /\ UNCHANGED <<now, keys, tokens, revoked, blacklist, limiter, inside, overdue, response>>

\* The routes of this group: a rate limit on login, authentication elsewhere.
RouteMiddleware(path) == IF path = "login" THEN "limit" ELSE "parse"

\* BodyLimit comes before the deadline and the error handler are set up.
BodyLimit(r) ==
    /\ pc[r] = "body"
    /\ \/ Respond(r, "tooLarge") /\ Goto(r, "done")
       \/ /\ Goto(r, RouteMiddleware(route[r]))
          /\ UNCHANGED response
    /\ UNCHANGED <<now, keys, tokens, revoked, blacklist, limiter, request, inside, overdue>>

\* Mutant: the limit compared with the count before the increment.
Allowed_OffByOne(n) == n - 1 <= Limit

Allowed(n) == n <= Limit

\* Allow increments first; the request is let through on the count it gets.
RateLimit(r) ==
    /\ pc[r] = "limit"
    /\ count < MaxCount
    /\ count' = count + 1
    /\ \/ /\ Allowed(count + 1)
          /\ admitted' = admitted + 1
          /\ Goto(r, "handle")
          /\ UNCHANGED response
       \/ /\ ~Allowed(count + 1)
          /\ Abort(r, "limited")
          /\ UNCHANGED admitted
    /\ UNCHANGED <<now, keys, tokens, revoked, blacklist, request, inside, overdue>>

\* Redis reports an error, with which it may have counted.
RateLimitFails(r) ==
    /\ pc[r] = "limit"
    /\ count < MaxCount
    /\ count' \in {count, count + 1}
    /\ IF Fallback = "allow"
         THEN Goto(r, "handle") /\ admitted' = admitted + 1 /\ UNCHANGED response
         ELSE Abort(r, "limited") /\ UNCHANGED admitted
    /\ UNCHANGED <<now, keys, tokens, revoked, blacklist, request, inside, overdue>>

-----------------------------------------------------------------------------
(* ValidateAccessToken, called by Authenticate and again by Logout.        *)

\* keyForID: the current key, or the previous one up to its not_after.
KeyAccepted(k) == k = key \/ (notAfter # 0 /\ now <= notAfter)

\* Authenticate aborts with the error; Logout hands it to the error handler.
Reject(r) ==
    IF r \in inside
      THEN /\ failed' = failed \cup {r}
           /\ Goto(r, "errors")
           /\ UNCHANGED <<bodies, answer, reported>>
      ELSE Abort(r, "unauthorized")

\* The handler cannot bind its input, and says so itself.
Invalid(r) == Abort(r, "invalid")

\* Past Authenticate, Logout binds its input before it validates once more.
Accept(r) ==
    \/ /\ Goto(r, IF route[r] = "me" THEN "handle" ELSE IF r \in inside THEN "append" ELSE "parse")
       /\ inside' = IF route[r] = "logout" THEN inside \cup {r} ELSE inside
       /\ UNCHANGED response
    \/ /\ route[r] = "logout" /\ r \notin inside
       /\ Invalid(r)
       /\ UNCHANGED inside

Parse(r) ==
    /\ pc[r] = "parse"
    /\ IF now < exp[tok[r]] /\ KeyAccepted(kid[tok[r]])
         THEN Goto(r, "blacklist") /\ UNCHANGED response
         ELSE Reject(r)
    /\ UNCHANGED <<now, keys, tokens, revoked, blacklist, limiter, request, inside, overdue>>
\* Mutant: a miss in Redis is taken for the answer.
Blacklist_RedisOnly(r) ==
    /\ pc[r] = "blacklist"
    /\ \/ tok[r] \in blacklist /\ Reject(r) /\ UNCHANGED inside
       \/ tok[r] \notin blacklist /\ Accept(r)
    /\ UNCHANGED <<now, keys, tokens, revoked, blacklist, limiter, request, overdue>>

\* An entry decides; a miss, or a Redis error, leaves it to Mongo.
Blacklist(r) ==
    /\ pc[r] = "blacklist"
    /\ \/ tok[r] \in blacklist /\ Reject(r)
       \/ Goto(r, "findRevoked") /\ UNCHANGED response
    /\ UNCHANGED <<now, keys, tokens, revoked, blacklist, limiter, request, inside, overdue>>

\* A document that is missing, or past its expiry, is no revocation.  One that
\* counts is copied to Redis, and Redis may refuse it.
FindRevoked(r) ==
    /\ pc[r] = "findRevoked"
    /\ \/ /\ tok[r] \notin revoked \/ exp[tok[r]] < now
          /\ Accept(r)
          /\ UNCHANGED blacklist
       \/ /\ tok[r] \in revoked /\ exp[tok[r]] >= now
          /\ blacklist' \in {blacklist, blacklist \cup {tok[r]}}
          /\ Reject(r)
          /\ UNCHANGED inside
       \/ /\ Reject(r)
          /\ UNCHANGED <<blacklist, inside>>
    /\ UNCHANGED <<now, keys, tokens, revoked, limiter, request, overdue>>

-----------------------------------------------------------------------------
(* The handlers.                                                           *)

\* The handler hands an error to gin, and the error handler takes over.
Fail(r) ==
    /\ failed' = failed \cup {r}
    /\ Goto(r, "errors")
    /\ UNCHANGED <<bodies, answer, reported>>

\* Logout: revoked_tokens first, where a second logout is a conflict, and an
\* insert that reports an error may have taken effect ...
LogoutAppend(r) ==
    /\ pc[r] = "append"
    /\ \/ /\ tok[r] \notin revoked
          /\ revoked' = revoked \cup {tok[r]}
          /\ Goto(r, "setBlacklist")
          /\ UNCHANGED response
       \/ Fail(r) /\ revoked' \in {revoked, revoked \cup {tok[r]}}
    /\ UNCHANGED <<now, keys, tokens, blacklist, limiter, request, inside, overdue>>

\* ... then Redis, for what was left of the token's life before that insert.
LogoutBlacklist(r) ==
    /\ pc[r] = "setBlacklist"
    /\ \/ /\ \/ blacklist' = blacklist \cup {tok[r]}
             \/ exp[tok[r]] <= now /\ UNCHANGED blacklist
          /\ Goto(r, "handle")
          /\ UNCHANGED response
       \/ /\ blacklist' \in {blacklist, blacklist \cup {tok[r]}}
          /\ Fail(r)
    /\ UNCHANGED <<now, keys, tokens, revoked, limiter, request, inside, overdue>>

OK(r) == Respond(r, "ok") /\ Goto(r, "errors")

GenerateAccessToken(t) ==
    /\ kid' = [kid EXCEPT ![t] = key]
    /\ exp' = [exp EXCEPT ![t] = now + TTL]

\* The ETag matches: a status, and no body.
NotModified(r) ==
    /\ answer' = [answer EXCEPT ![r] = "notModified"]
    /\ Goto(r, "errors")
    /\ UNCHANGED <<failed, bodies, reported>>

\* The handler's own work: a reply, a 304 for the profile, or an error.  What
\* Logout had to bind it bound before.
Handle(r) ==
    /\ pc[r] = "handle"
    /\ \/ route[r] # "login" /\ OK(r) /\ UNCHANGED tokens
       \/ /\ route[r] = "login"
          /\ \E t \in Tokens \ Issued : GenerateAccessToken(t)
          /\ OK(r)
       \/ route[r] = "me" /\ NotModified(r) /\ UNCHANGED tokens
       \/ route[r] # "logout" /\ Invalid(r) /\ UNCHANGED tokens
       \/ Fail(r) /\ UNCHANGED tokens
    /\ UNCHANGED <<now, keys, revoked, blacklist, limiter, request, inside, overdue>>

\* A panic unwinds past the error handler and the deadline's check; Recovery
\* answers.
Panic(r) ==
    /\ pc[r] = "handle"
    /\ Respond(r, "internal")
    /\ Goto(r, "done")
    /\ UNCHANGED <<now, keys, tokens, revoked, blacklist, limiter, request, inside, overdue>>

-----------------------------------------------------------------------------
(* On the way out.                                                         *)

\* Mutant: the handler returns when the event cannot be appended.
ErrorHandler_EventFirst(r) ==
    /\ pc[r] = "errors"
    /\ IF r \in failed /\ bodies[r] = 0
         THEN \/ /\ r \notin overdue
                 /\ bodies' = [bodies EXCEPT ![r] = @ + 1]
                 /\ answer' = [answer EXCEPT ![r] = "error"]
                 /\ reported' = reported \cup {r}
              \/ UNCHANGED <<bodies, answer, reported>>
         ELSE UNCHANGED <<bodies, answer, reported>>
    /\ Goto(r, "deadline")
    /\ UNCHANGED <<now, keys, tokens, revoked, blacklist, limiter, request, inside, overdue, failed>>

\* The event goes to the outbox under the request's own context: past the
\* deadline it is not appended, and the error of that is logged only.
ErrorHandler(r) ==
    /\ pc[r] = "errors"
    /\ IF r \in failed /\ bodies[r] = 0
         THEN /\ bodies' = [bodies EXCEPT ![r] = @ + 1]
              /\ answer' = [answer EXCEPT ![r] = "error"]
              /\ \/ UNCHANGED reported
                 \/ r \notin overdue /\ reported' = reported \cup {r}
         ELSE UNCHANGED <<bodies, answer, reported>>
    /\ Goto(r, "deadline")
    /\ UNCHANGED <<now, keys, tokens, revoked, blacklist, limiter, request, inside, overdue, failed>>
\* Mutant: the check for a response already written dropped.
Timeout_Always(r) ==
    /\ pc[r] = "deadline"
    /\ IF r \in overdue THEN Respond(r, "timeout") ELSE UNCHANGED response
    /\ Goto(r, "done")
    /\ UNCHANGED <<now, keys, tokens, revoked, blacklist, limiter, request, inside, overdue>>

Timeout(r) ==
    /\ pc[r] = "deadline"
    /\ IF r \in overdue /\ bodies[r] = 0 THEN Respond(r, "timeout") ELSE UNCHANGED response
    /\ Goto(r, "done")
    /\ UNCHANGED <<now, keys, tokens, revoked, blacklist, limiter, request, inside, overdue>>

\* The response has left; r stands for another request next.
Leave(r) ==
    /\ pc[r] = "done"
    /\ Goto(r, "idle")
    /\ route' = [route EXCEPT ![r] = "me"]
    /\ tok' = [tok EXCEPT ![r] = None]
    /\ bodies' = [bodies EXCEPT ![r] = 0]
    /\ answer' = [answer EXCEPT ![r] = "none"]
    /\ inside' = inside \ {r}
    /\ overdue' = overdue \ {r}
    /\ failed' = failed \ {r}
    /\ reported' = reported \ {r}
    /\ known' = known \ {r}
    /\ UNCHANGED <<now, keys, tokens, revoked, blacklist, limiter>>

-----------------------------------------------------------------------------
(* The environment.                                                        *)

Tick ==
    /\ now < MaxTime
    /\ now' = now + 1
    /\ UNCHANGED <<keys, tokens, revoked, blacklist, limiter, pc, request, inside, overdue, response>>

Deadline(r) ==
    /\ pc[r] \notin {"idle", "body", "done"}
    /\ r \notin overdue
    /\ overdue' = overdue \cup {r}
    /\ UNCHANGED <<now, keys, tokens, revoked, blacklist, limiter, pc, request, inside, response>>

\* The key rotation of docs/operations.md: the old key becomes the previous one.
Deploy ==
    /\ key = 1
    /\ key' = 2
    /\ notAfter' = now + Overlap
    /\ UNCHANGED <<now, tokens, revoked, blacklist, limiter, pc, request, inside, overdue, response>>

WindowEnds ==
    /\ count > 0
    /\ count' = 0
    /\ admitted' = 0
    /\ UNCHANGED <<now, keys, tokens, revoked, blacklist, pc, request, inside, overdue, response>>

\* An entry reaches its TTL, or Redis restarts without it.
BlacklistLost(t) ==
    /\ t \in blacklist
    /\ blacklist' = blacklist \ {t}
    /\ UNCHANGED <<now, keys, tokens, revoked, limiter, pc, request, inside, overdue, response>>

\* The TTL index on expires_at removes the document.
Purge(t) ==
    /\ t \in revoked
    /\ exp[t] <= now
    /\ revoked' = revoked \ {t}
    /\ UNCHANGED <<now, keys, tokens, blacklist, limiter, pc, request, inside, overdue, response>>

Serve(r) ==
    \/ \E path \in Routes, t \in Tokens \cup {None} : Arrive(r, path, t)
    \/ BodyLimit(r) \/ RateLimit(r) \/ RateLimitFails(r)
    \/ Parse(r) \/ Blacklist(r) \/ FindRevoked(r)
    \/ LogoutAppend(r) \/ LogoutBlacklist(r) \/ Handle(r) \/ Panic(r)
    \/ ErrorHandler(r) \/ Timeout(r) \/ Leave(r)

Next ==
    \/ \E r \in Requests : Serve(r) \/ Deadline(r)
    \/ \E t \in Tokens : BlacklistLost(t) \/ Purge(t)
    \/ Tick \/ Deploy \/ WindowEnds

Spec == Init /\ [][Next]_vars

-----------------------------------------------------------------------------
(* Properties.                                                             *)

Labels ==
    {"idle", "body", "limit", "parse", "blacklist", "findRevoked", "append",
     "setBlacklist", "handle", "errors", "deadline", "done"}
Answers ==
    {"none", "ok", "notModified", "tooLarge", "limited", "unauthorized", "invalid",
     "internal", "error", "timeout"}

StoreTypes ==
    /\ now \in Nat
    /\ key \in {1, 2}
    /\ notAfter \in Nat
    /\ kid \in [Tokens -> 0..2]
    /\ exp \in [Tokens -> Nat]
    /\ revoked \subseteq Tokens
    /\ blacklist \subseteq Tokens
    /\ count \in Nat
    /\ admitted \in Nat

RequestTypes ==
    /\ pc \in [Requests -> Labels]
    /\ route \in [Requests -> Routes]
    /\ tok \in [Requests -> Tokens \cup {None}]
    /\ inside \subseteq Requests
    /\ overdue \subseteq Requests
    /\ failed \subseteq Requests
    /\ bodies \in [Requests -> 0..1]
    /\ answer \in [Requests -> Answers]
    /\ reported \subseteq Requests
    /\ known \subseteq Requests

\* Every variable holds a value of its kind.
TypeOK == StoreTypes /\ RequestTypes

\* An answer stands: whoever comes last, the handler, the error handler or the
\* deadline, finds out whether a body was written before, and neither writes
\* another nor changes the status until the response has left.
AnswerStands ==
    [][\A r \in Requests :
          bodies[r] = 1 /\ pc'[r] # "idle" => bodies'[r] = 1 /\ answer'[r] = answer[r]]_vars

\* A token that was logged out when a request came in opens no handler, even
\* after Redis has lost the blacklist: only if the token expires while it is
\* being validated may the revocation be overlooked.
RevokedStaysOut ==
    \A r \in known :
        pc[r] \in {"append", "setBlacklist", "handle"} => exp[tok[r]] <= now

\* With the fallback "block" a window lets through at most Limit requests,
\* whatever Redis counted and failed to answer.
LimitHeld ==
    Fallback = "block" => admitted <= Limit

\* A deployment that leaves the old key an overlap of a token's lifetime logs
\* nobody out: a token that has not expired still has a key that verifies it.
RotationKeepsTokens ==
    Overlap >= TTL => \A t \in Issued : now <= exp[t] => KeyAccepted(kid[t])

\* Every request is answered: with a body, or a 304 and none.  An error event
\* stands for an answer that was an error.
Answered ==
    \A r \in Requests :
        /\ pc[r] = "done" => bodies[r] = 1 \/ answer[r] = "notModified"
        /\ r \in reported => answer[r] = "error"

-----------------------------------------------------------------------------
(* The abstract specification that the router implements.                  *)

Served == {"ok", "notModified"}
Refused ==
    {"tooLarge", "limited", "unauthorized", "invalid", "internal", "error", "timeout"}

\* A body is the answer; a status without one may still be replaced, and is the
\* answer once the chain has unwound.
reply ==
    [r \in Requests |->
       IF pc[r] = "idle" THEN "none"
       ELSE IF bodies[r] = 1 \/ pc[r] = "done" THEN answer[r]
       ELSE "pending"]
barred == {r \in known : now < exp[tok[r]]}

Service == INSTANCE RequestService

\* Whatever middleware, handler, Recovery or deadline ends up answering, each
\* request gets one answer that stands, and a token that was logged out before
\* the request came in is served nothing while it lasts.
ImplementsService == Service!Spec

-----------------------------------------------------------------------------
(* The inductive invariant behind these properties.                        *)

\* A request is validated and logged out with the token it came with; only a
\* login passes the rate limit.
Bearer(r) ==
    /\ pc[r] \in {"parse", "blacklist", "findRevoked", "append", "setBlacklist"} =>
         tok[r] \in Issued
    /\ pc[r] = "body" /\ route[r] # "login" => tok[r] \in Issued
    /\ pc[r] = "limit" => route[r] = "login"
    /\ pc[r] \in {"parse", "blacklist", "findRevoked"} => route[r] # "login"
    /\ pc[r] = "idle" => r \notin known

\* A revocation is forgotten only once the token has expired.
KnownRevoked ==
    \A r \in known :
        /\ route[r] # "login" /\ tok[r] \in Issued
        /\ tok[r] \in revoked \/ exp[tok[r]] <= now

\* Nor is such a request answered with what a handler makes of success.
RevokedUnserved ==
    \A r \in known : answer[r] \in Served => exp[tok[r]] <= now

Counted == Fallback = "block" => admitted <= count

\* A token lives for TTL at most, and the previous key for Overlap after the
\* last token it signed.
KeyAges ==
    /\ now > 0
    /\ key = 2 => notAfter > 0
    /\ \A t \in Issued :
         /\ kid[t] <= key
         /\ exp[t] <= now + TTL
         /\ key = 2 /\ kid[t] = 1 => exp[t] + Overlap <= notAfter + TTL

BeforeReply ==
    {"idle", "body", "limit", "parse", "blacklist", "findRevoked", "append", "setBlacklist",
     "handle"}

\* Where a request stands tells what has been written.
Written(r) ==
    /\ pc[r] \in BeforeReply =>
         bodies[r] = 0 /\ answer[r] = "none" /\ r \notin failed /\ r \notin reported
    /\ pc[r] = "errors" =>
         /\ bodies[r] = 1 \/ r \in failed \/ answer[r] = "notModified"
         /\ r \notin reported
    /\ pc[r] \in {"deadline", "done"} => bodies[r] = 1 \/ answer[r] = "notModified"
    /\ bodies[r] = 1 => answer[r] # "none"
    /\ r \in reported => bodies[r] = 1 /\ answer[r] = "error"

IInv ==
    /\ TypeOK
    /\ \A r \in Requests : Bearer(r)
    /\ KnownRevoked
    /\ RevokedStaysOut
    /\ RevokedUnserved
    /\ Counted
    /\ LimitHeld
    /\ KeyAges
    /\ \A r \in Requests : Written(r)

-----------------------------------------------------------------------------
(* Every request comes to its end.                                         *)

\* The calls a request has before it at most; a logout validates its token again.
ToGo(label, again) ==
    CASE label = "body" -> 12
      [] label = "parse" -> IF again THEN 8 ELSE 11
      [] label = "blacklist" -> IF again THEN 7 ELSE 10
      [] label = "findRevoked" -> IF again THEN 6 ELSE 9
      [] label = "append" -> 5
      [] label \in {"setBlacklist", "limit"} -> 4
      [] label = "handle" -> 3
      [] label = "errors" -> 2
      [] label = "deadline" -> 1
      [] OTHER -> 0

\* A call to Redis or Mongo returns, with an answer or an error: the goroutine of
\* a request under way is given steps.
ServeTaken(r) == []<>(pc[r] = "idle") \/ []<><<Serve(r)>>_vars

\* A request that came in is answered, through whatever errors it goes.
AnswersCome == \A r \in Requests : ~(pc[r] = "idle") ~> pc[r] = "done"
=============================================================================
