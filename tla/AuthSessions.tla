---------------------------- MODULE AuthSessions ----------------------------
(***************************************************************************)
(* Sessions and refresh-token rotation: Login, Refresh, Logout and         *)
(* LogoutAll of internal/app/auth/auth_service.go over the sessions        *)
(* collection (internal/repository/mongo/session_repository.go) read and   *)
(* written through the cache (internal/platform/database).                 *)
(*                                                                         *)
(* Concurrent HTTP requests run these handlers; one call to Mongo or Redis *)
(* is one step.  A token pair - a refresh token hash and the access token  *)
(* issued with it - is one element of Tokens.  Every login starts a token  *)
(* family of its own, so a family is a session.                            *)
(*                                                                         *)
(* Any call may fail: Finish ends a request at any point, which is how     *)
(* Mongo errors, strict locks that are not acquired, cancelled contexts    *)
(* and crashes look to the others, what the request has written included.  *)
(***************************************************************************)
EXTENDS Integers, FiniteSets

CONSTANTS
    Requests,   \* the request handlers that run at the same time
    Sessions,   \* session ids
    Users,      \* user ids
    UserOf,     \* UserOf[s]: the user whose login creates session s
    Tokens,     \* the token pairs the service can issue
    Calls,      \* the operations clients call
    None        \* no token

ASSUME UserOfAssumption == UserOf \in [Sessions -> Users]
ASSUME CallsAssumption == Calls \subseteq {"login", "refresh", "logout", "logoutAll"}
ASSUME NoneAssumption == None \notin Tokens \cup Sessions

VARIABLES
    \* The sessions collection.
    hash,          \* hash[s]: refresh_token_hash, None while s does not exist
    revoked,       \* revoked[s]: revoked_reason, "no" while revoked_at is unset
    expired,       \* tokens whose refresh_token_expires_at has passed
    revokedTokens, \* revoked_tokens: the access tokens of these pairs
    \* Redis.
    refreshCache,  \* refreshCache[h]: the session cached under session:refresh:h
    idCache,       \* the sessions cached as active under session:id:s
    \* Tokens: how they came about, and who has them.
    owner,         \* owner[h]: the session h was issued for, None if unissued
    from,          \* from[h]: the token h replaced, None for a login
    handed,        \* tokens that were returned to a client
    \* The requests.
    pc,            \* pc[r]: the call request r makes next
    tok,           \* tok[r]: the token the client presented
    copy,          \* copy[r]: the session found by hash: "active" or "revoked"
    new,           \* new[r]: the token generated for the reply
    target,        \* target[r]: the session Logout revokes
    reason,        \* reason[r]: why RevokeByTokenFamilyID was called
    keys,          \* keys[r]: tokens whose cache keys the write invalidates
    todo,          \* todo[r]: documents an UpdateMany has yet to visit
    matched,       \* requests whose UpdateMany has matched a document
    \* What the properties remember of a request's start.
    late,          \* requests whose session was revoked when they started
    replay,        \* refreshes of a replaced token of a then active session
    existing       \* existing[r]: the user's sessions when LogoutAll started

database == <<hash, revoked, revokedTokens>>
caches == <<refreshCache, idCache>>
issue == <<owner, from>>
locals == <<tok, copy, new, target, reason, keys, todo, matched>>
history == <<late, replay, existing>>
vars == <<hash, revoked, expired, revokedTokens, refreshCache, idCache, owner, from,
          handed, pc, tok, copy, new, target, reason, keys, todo, matched, late, replay,
          existing>>

Reasons == {"logout", "logout_all", "refresh_reuse_suspected", "refresh_ip_anomaly"}

Exists(s) == hash[s] # None
\* Mutant: filters without revoked_at.
Unrevoked_Ignored(s) == Exists(s)

Unrevoked(s) == Exists(s) /\ revoked[s] = "no"
\* The filter of findActiveByIDNoCache and of FindActiveByID.
Active(s) == Unrevoked(s) /\ hash[s] \notin expired
Issued == {h \in Tokens : owner[h] # None}
Fresh == CHOOSE h \in Tokens : h \notin Issued
SessionsOf(u) == {s \in Sessions : UserOf[s] = u /\ Exists(s)}

Init ==
    /\ hash = [s \in Sessions |-> None]
    /\ revoked = [s \in Sessions |-> "no"]
    /\ expired = {}
    /\ revokedTokens = {}
    /\ refreshCache = [h \in Tokens |-> "none"]
    /\ idCache = {}
    /\ owner = [h \in Tokens |-> None]
    /\ from = [h \in Tokens |-> None]
    /\ handed = {}
    /\ pc = [r \in Requests |-> "idle"]
    /\ tok = [r \in Requests |-> None]
    /\ copy = [r \in Requests |-> "none"]
    /\ new = [r \in Requests |-> None]
    /\ target = [r \in Requests |-> None]
    /\ reason = [r \in Requests |-> "none"]
    /\ keys = [r \in Requests |-> {}]
    /\ todo = [r \in Requests |-> {}]
    /\ matched = {}
    /\ late = {}
    /\ replay = {}
    /\ existing = [r \in Requests |-> {}]

Idle(r, call) == pc[r] = "idle" /\ call \in Calls
Goto(r, label) == pc' = [pc EXCEPT ![r] = label]

\* A request is over: its memory is gone.
Reset(r) ==
    /\ Goto(r, "idle")
    /\ tok' = [tok EXCEPT ![r] = None]
    /\ copy' = [copy EXCEPT ![r] = "none"]
    /\ new' = [new EXCEPT ![r] = None]
    /\ target' = [target EXCEPT ![r] = None]
    /\ reason' = [reason EXCEPT ![r] = "none"]
    /\ keys' = [keys EXCEPT ![r] = {}]
    /\ todo' = [todo EXCEPT ![r] = {}]
    /\ matched' = matched \ {r}
    /\ late' = late \ {r}
    /\ replay' = replay \ {r}
    /\ existing' = [existing EXCEPT ![r] = {}]

\* invalidate: the keys of tokens K and of sessions S are deleted, or Redis
\* refuses and the error is only logged.
Invalidate(K, S) ==
    \/ UNCHANGED caches
    \/ /\ refreshCache' = [h \in Tokens |-> IF h \in K THEN "none" ELSE refreshCache[h]]
       /\ idCache' = idCache \ S

Generate(r, s, old) ==
    /\ Issued # Tokens
    /\ new' = [new EXCEPT ![r] = Fresh]
    /\ owner' = [owner EXCEPT ![Fresh] = s]
    /\ from' = [from EXCEPT ![Fresh] = old]

-----------------------------------------------------------------------------
(* Login (and Register): issueAuthResult inserts the session before the    *)
(* remaining writes of the login, any of which may still fail.             *)

LoginCreate(r, s) ==
    /\ Idle(r, "login")
    /\ ~Exists(s)
    /\ Generate(r, s, None)
    /\ hash' = [hash EXCEPT ![s] = Fresh]
    /\ Goto(r, "reply")
    /\ UNCHANGED <<revoked, expired, revokedTokens, caches, handed, history,
                   tok, copy, target, reason, keys, todo, matched>>

\* The response carries the new pair.
Reply(r) ==
    /\ pc[r] = "reply"
    /\ handed' = handed \cup {new[r]}
    /\ new' = [new EXCEPT ![r] = None]
    /\ Goto(r, "ok")
    /\ UNCHANGED <<database, expired, caches, issue, history,
                   tok, copy, target, reason, keys, todo, matched>>

-----------------------------------------------------------------------------
(* Refresh.                                                                *)

Start(r, h) ==
    /\ Idle(r, "refresh")
    /\ h \in handed
    /\ tok' = [tok EXCEPT ![r] = h]
    /\ late' = IF revoked[owner[h]] # "no" THEN late \cup {r} ELSE late
    /\ replay' = IF Active(owner[h]) /\ hash[owner[h]] # h THEN replay \cup {r} ELSE replay

\* FindByRefreshTokenHash reads through the cache.  An entry reaches its TTL,
\* and Redis fails, at any time: a read may always miss and load.
RefreshFind(r, h) ==
    /\ Start(r, h)
    /\ \/ /\ refreshCache[h] # "none"
          /\ copy' = [copy EXCEPT ![r] = refreshCache[h]]
          /\ Goto(r, "check")
       \/ /\ hash[owner[h]] = h
          /\ copy' = [copy EXCEPT ![r] =
                        IF revoked[owner[h]] = "no" THEN "active" ELSE "revoked"]
          /\ Goto(r, "fill")
       \/ /\ hash[owner[h]] # h
          /\ Goto(r, "denied")
          /\ UNCHANGED copy
    /\ UNCHANGED <<database, expired, caches, issue, handed,
                   new, target, reason, keys, todo, matched, existing>>

RefreshFill(r) ==
    /\ pc[r] = "fill"
    /\ \/ refreshCache' = [refreshCache EXCEPT ![tok[r]] = copy[r]]
       \/ UNCHANGED refreshCache
    /\ Goto(r, "check")
    /\ UNCHANGED <<database, expired, idCache, issue, handed, locals, history>>

\* IsActive on the copy, then the user's state, then the address.
RefreshCheck(r) ==
    /\ pc[r] = "check"
    /\ \/ /\ Goto(r, "denied")
          /\ UNCHANGED reason
       \/ /\ copy[r] = "active" /\ tok[r] \notin expired
          /\ Goto(r, "famRead")
          /\ reason' = [reason EXCEPT ![r] = "refresh_ip_anomaly"]
       \/ /\ copy[r] = "active" /\ tok[r] \notin expired
          /\ Goto(r, "rotateRead")
          /\ UNCHANGED reason
    /\ copy' = [copy EXCEPT ![r] = "none"]
    /\ UNCHANGED <<database, expired, caches, issue, handed, history,
                   tok, new, target, keys, todo, matched>>

\* RotateRefreshToken reads the active session past the cache ...
RotateRead(r) ==
    /\ pc[r] = "rotateRead"
    /\ Goto(r, IF Active(owner[tok[r]]) THEN "rotate" ELSE "reuse")
    /\ UNCHANGED <<database, expired, caches, issue, handed, locals, history>>
\* Mutants: the update without the old hash, or without revoked_at.
RotateMatches_AnyHash(s, h) == Unrevoked(s)
RotateMatches_Revoked(s, h) == hash[s] = h

\* ... and replaces the hash if it is still the presented one.  The update's
\* expiry condition compares with a time taken before the read above, which
\* found the document unexpired: it cannot fail here.
RotateMatches(s, h) == hash[s] = h /\ Unrevoked(s)

Rotate(r) ==
    /\ pc[r] = "rotate"
    /\ LET s == owner[tok[r]] IN
         \/ /\ RotateMatches(s, tok[r])
            /\ Generate(r, s, tok[r])
            /\ hash' = [hash EXCEPT ![s] = Fresh]
            /\ Goto(r, "rotateInvalidate")
         \/ /\ ~RotateMatches(s, tok[r])
            /\ Goto(r, "reuse")
            /\ UNCHANGED <<hash, new, issue>>
    /\ UNCHANGED <<revoked, expired, revokedTokens, caches, handed, history,
                   tok, copy, target, reason, keys, todo, matched>>

RotateInvalidate(r) ==
    /\ pc[r] = "rotateInvalidate"
    /\ Invalidate({tok[r]}, {owner[tok[r]]})
    /\ Goto(r, "reply")
    /\ UNCHANGED <<database, expired, issue, handed, locals, history>>
\* Mutant: every failed rotation is taken for a reuse.
ReuseFind_Always(r) ==
    /\ pc[r] = "reuse"
    /\ Goto(r, "famRead")
    /\ reason' = [reason EXCEPT ![r] = "refresh_reuse_suspected"]
    /\ UNCHANGED <<database, expired, caches, issue, handed, history,
                   tok, copy, new, target, keys, todo, matched>>

\* Rotation failed: FindActiveByID, through the cache, tells a session that has
\* moved on from one that is gone.
ReuseFind(r) ==
    /\ pc[r] = "reuse"
    /\ \/ /\ owner[tok[r]] \in idCache
          /\ Goto(r, "famRead")
          /\ reason' = [reason EXCEPT ![r] = "refresh_reuse_suspected"]
       \/ /\ Active(owner[tok[r]])
          /\ Goto(r, "reuseFill")
          /\ UNCHANGED reason
       \/ /\ ~Active(owner[tok[r]])
          /\ Goto(r, "denied")
          /\ UNCHANGED reason
    /\ UNCHANGED <<database, expired, caches, issue, handed, history,
                   tok, copy, new, target, keys, todo, matched>>

ReuseFill(r) ==
    /\ pc[r] = "reuseFill"
    /\ idCache' \in {idCache, idCache \cup {owner[tok[r]]}}
    /\ Goto(r, "famRead")
    /\ reason' = [reason EXCEPT ![r] = "refresh_reuse_suspected"]
    /\ UNCHANGED <<database, expired, refreshCache, issue, handed, history,
                   tok, copy, new, target, keys, todo, matched>>

-----------------------------------------------------------------------------
(* RevokeByTokenFamilyID: read the keys to invalidate, update, invalidate. *)

FamilyRead(r) ==
    /\ pc[r] = "famRead"
    /\ LET s == owner[tok[r]] IN
         keys' = [keys EXCEPT ![r] = IF Active(s) THEN {hash[s]} ELSE {}]
    /\ Goto(r, "famUpdate")
    /\ UNCHANGED <<database, expired, caches, issue, handed, history,
                   tok, copy, new, target, reason, todo, matched>>

FamilyUpdate(r) ==
    /\ pc[r] = "famUpdate"
    /\ LET s == owner[tok[r]] IN
         \/ /\ Unrevoked(s)
            /\ revoked' = [revoked EXCEPT ![s] = reason[r]]
            /\ Goto(r, "famInvalidate")
         \/ /\ ~Unrevoked(s)
            /\ Goto(r, "denied")
            /\ UNCHANGED revoked
    /\ UNCHANGED <<hash, expired, revokedTokens, caches, issue, handed, locals, history>>

FamilyInvalidate(r) ==
    /\ pc[r] = "famInvalidate"
    /\ Invalidate(keys[r], {owner[h] : h \in keys[r]})
    /\ keys' = [keys EXCEPT ![r] = {}]
    /\ Goto(r, "denied")
    /\ UNCHANGED <<database, expired, issue, handed, history,
                   tok, copy, new, target, reason, todo, matched>>

-----------------------------------------------------------------------------
(* Logout: revoked_tokens, the Redis blacklist, then the session, which    *)
(* the body may name and which is the access token's own by default.       *)

LogoutValidate(r, h, s) ==
    /\ Idle(r, "logout")
    /\ h \in handed \ revokedTokens
    /\ tok' = [tok EXCEPT ![r] = h]
    /\ target' = [target EXCEPT ![r] = s]
    /\ Goto(r, "logoutAppend")
    /\ UNCHANGED <<database, expired, caches, issue, handed, history,
                   copy, new, reason, keys, todo, matched>>

\* A second insert of the token id is a conflict, which Logout reports.
LogoutAppend(r) ==
    /\ pc[r] = "logoutAppend"
    /\ \/ /\ tok[r] \notin revokedTokens
          /\ revokedTokens' = revokedTokens \cup {tok[r]}
          /\ Goto(r, "logoutRevoke")
       \/ /\ tok[r] \in revokedTokens
          /\ Goto(r, "denied")
          /\ UNCHANGED revokedTokens
    /\ UNCHANGED <<hash, revoked, expired, caches, issue, handed, locals, history>>
\* Mutant: an update that matches nothing is a success.
LogoutRevoke_NotFoundIsOk(r) ==
    /\ pc[r] = "logoutRevoke"
    /\ revoked' = [revoked EXCEPT ![target[r]] = IF Exists(target[r]) THEN "logout" ELSE @]
    /\ Goto(r, "logoutInvalidate")
    /\ UNCHANGED <<hash, expired, revokedTokens, caches, issue, handed, locals, history>>

\* The update matches on _id alone: it also overwrites an earlier reason.
LogoutRevoke(r) ==
    /\ pc[r] = "logoutRevoke"
    /\ \/ /\ Exists(target[r])
          /\ revoked' = [revoked EXCEPT ![target[r]] = "logout"]
          /\ Goto(r, "logoutInvalidate")
       \/ /\ ~Exists(target[r])
          /\ Goto(r, "denied")
          /\ UNCHANGED revoked
    /\ UNCHANGED <<hash, expired, revokedTokens, caches, issue, handed, locals, history>>

LogoutInvalidate(r) ==
    /\ pc[r] = "logoutInvalidate"
    /\ Invalidate({}, {target[r]})
    /\ Goto(r, "ok")
    /\ UNCHANGED <<database, expired, issue, handed, locals, history>>

-----------------------------------------------------------------------------
(* LogoutAll: RevokeAllByUserID.  UpdateMany is not atomic: it visits the  *)
(* documents one by one, surely those that were there when it began.       *)

LogoutAllRead(r, h) ==
    /\ Idle(r, "logoutAll")
    /\ h \in handed \ revokedTokens
    /\ LET mine == SessionsOf(UserOf[owner[h]]) IN
         /\ keys' = [keys EXCEPT ![r] = {hash[s] : s \in {x \in mine : Active(x)}}]
         /\ existing' = [existing EXCEPT ![r] = mine]
    /\ tok' = [tok EXCEPT ![r] = h]
    /\ Goto(r, "allUpdate")
    /\ UNCHANGED <<database, expired, caches, issue, handed, late, replay,
                   copy, new, target, reason, todo, matched>>
\* Mutant: only the sessions read as active are updated.
LogoutAllUpdate_ReadOnly(r) ==
    /\ pc[r] = "allUpdate"
    /\ todo' = [todo EXCEPT ![r] = {owner[h] : h \in keys[r]}]
    /\ Goto(r, "allVisit")
    /\ UNCHANGED <<database, expired, caches, issue, handed, history,
                   tok, copy, new, target, reason, keys, matched>>

LogoutAllUpdate(r) ==
    /\ pc[r] = "allUpdate"
    /\ todo' = [todo EXCEPT ![r] =
                  {s \in SessionsOf(UserOf[owner[tok[r]]]) : revoked[s] = "no"}]
    /\ Goto(r, "allVisit")
    /\ UNCHANGED <<database, expired, caches, issue, handed, history,
                   tok, copy, new, target, reason, keys, matched>>

\* Sessions created since the update began may be visited as well.
LogoutAllVisit(r, s) ==
    /\ pc[r] = "allVisit"
    /\ s \in todo[r] \/ s \in SessionsOf(UserOf[owner[tok[r]]]) \ existing[r]
    /\ \/ /\ revoked[s] = "no"
          /\ revoked' = [revoked EXCEPT ![s] = "logout_all"]
          /\ matched' = matched \cup {r}
       \/ /\ revoked[s] # "no"
          /\ s \in todo[r]
          /\ UNCHANGED <<revoked, matched>>
    /\ todo' = [todo EXCEPT ![r] = @ \ {s}]
    /\ UNCHANGED <<hash, expired, revokedTokens, caches, issue, handed, pc, history,
                   tok, copy, new, target, reason, keys>>

\* An update that matched nothing is ErrNotFound, and invalidates nothing.
LogoutAllInvalidate(r) ==
    /\ pc[r] = "allVisit"
    /\ todo[r] = {}
    /\ \/ /\ r \in matched
          /\ Invalidate(keys[r], {owner[h] : h \in keys[r]})
          /\ Goto(r, "ok")
       \/ /\ r \notin matched
          /\ Goto(r, "denied")
          /\ UNCHANGED caches
    /\ keys' = [keys EXCEPT ![r] = {}]
    /\ matched' = matched \ {r}
    /\ UNCHANGED <<database, expired, issue, handed, history,
                   tok, copy, new, target, reason, todo>>

-----------------------------------------------------------------------------
(* The environment.                                                        *)

\* The response is sent, or the request fails before its next call.
Finish(r) ==
    /\ pc[r] # "idle"
    /\ Reset(r)
    /\ UNCHANGED <<database, expired, caches, issue, handed>>

Expire(h) ==
    /\ h \in Issued \ expired
    /\ expired' = expired \cup {h}
    /\ UNCHANGED <<database, caches, issue, handed, pc, locals, history>>

Refresh(r) ==
    \/ \E h \in Tokens : RefreshFind(r, h)
    \/ RefreshFill(r) \/ RefreshCheck(r)
    \/ RotateRead(r) \/ Rotate(r) \/ RotateInvalidate(r)
    \/ ReuseFind(r) \/ ReuseFill(r)
    \/ FamilyRead(r) \/ FamilyUpdate(r) \/ FamilyInvalidate(r)

Login(r) == Reply(r) \/ \E s \in Sessions : LoginCreate(r, s)

Logout(r) ==
    \/ \E h \in Tokens, s \in Sessions : LogoutValidate(r, h, s)
    \/ LogoutAppend(r) \/ LogoutRevoke(r) \/ LogoutInvalidate(r)

LogoutAll(r) ==
    \/ \E h \in Tokens : LogoutAllRead(r, h)
    \/ LogoutAllUpdate(r) \/ LogoutAllInvalidate(r)
    \/ \E s \in Sessions : LogoutAllVisit(r, s)

Next ==
    \/ \E r \in Requests : Login(r) \/ Refresh(r) \/ Logout(r) \/ LogoutAll(r) \/ Finish(r)
    \/ \E h \in Tokens : Expire(h)

Spec == Init /\ [][Next]_vars

-----------------------------------------------------------------------------
(* Properties.                                                             *)

Labels ==
    {"idle", "reply", "fill", "check", "rotateRead", "rotate", "rotateInvalidate",
     "reuse", "reuseFill", "famRead", "famUpdate", "famInvalidate", "logoutAppend",
     "logoutRevoke", "logoutInvalidate", "allUpdate", "allVisit", "ok", "denied"}

StoreTypes ==
    /\ hash \in [Sessions -> Tokens \cup {None}]
    /\ revoked \in [Sessions -> Reasons \cup {"no"}]
    /\ expired \subseteq Tokens
    /\ revokedTokens \subseteq Tokens
    /\ refreshCache \in [Tokens -> {"none", "active", "revoked"}]
    /\ idCache \subseteq Sessions
    /\ owner \in [Tokens -> Sessions \cup {None}]
    /\ from \in [Tokens -> Tokens \cup {None}]
    /\ handed \subseteq Tokens

RequestTypes ==
    /\ pc \in [Requests -> Labels]
    /\ tok \in [Requests -> Tokens \cup {None}]
    /\ copy \in [Requests -> {"none", "active", "revoked"}]
    /\ new \in [Requests -> Tokens \cup {None}]
    /\ target \in [Requests -> Sessions \cup {None}]
    /\ reason \in [Requests -> Reasons \cup {"none"}]
    /\ keys \in [Requests -> SUBSET Tokens]
    /\ todo \in [Requests -> SUBSET Sessions]
    /\ matched \subseteq Requests
    /\ late \subseteq Requests
    /\ replay \subseteq Requests
    /\ existing \in [Requests -> SUBSET Sessions]

\* Every variable holds a value of its kind.
TypeOK == StoreTypes /\ RequestTypes

Spent(h) == \E n \in Tokens : from[n] = h
Rotated(s) == \E h \in Tokens : owner[h] = s /\ Spent(h)

\* A refresh token is exchanged at most once, however many requests present it
\* at the same time and whatever the caches hold (RotateRefreshToken).
SingleUse ==
    \A m, n \in Tokens : from[m] # None /\ from[m] = from[n] => m = n

\* A revoked session stays revoked, and never gets another refresh token: no
\* interleaving of a rotation with Logout, LogoutAll or a family revocation
\* revives it.
RevokedForever ==
    [][\A s \in Sessions : revoked[s] # "no" =>
         revoked'[s] # "no" /\ hash'[s] = hash[s]]_vars

\* The table that clients see, whatever the caches hold and however the calls
\* of the handlers interleave.
Standing(s) ==
    IF ~Exists(s) THEN "absent" ELSE IF revoked[s] = "no" THEN "active" ELSE "revoked"
SpentTokens == {h \in Tokens : Spent(h)}

Store == INSTANCE SessionStore
    WITH state <- [s \in Sessions |-> Standing(s)],
         current <- hash, issued <- Issued, spent <- SpentTokens

\* Login, Refresh, Logout and LogoutAll, each of many calls, act on a session as
\* if in one step: they open it, exchange its current token once, or revoke it
\* for good (RotateRefreshToken's and the revocations' conditional updates).
ImplementsStore == Store!Spec

\* A refresh that starts after its session was revoked is never answered with
\* tokens, even while session:refresh still caches the session as active.
NoRefreshAfterRevocation ==
    \A r \in late : pc[r] \notin {"rotateInvalidate", "reply", "ok"}

\* A session is revoked as "refresh_reuse_suspected" only if one of its tokens
\* was exchanged before: a client whose first token fails to rotate - because
\* it expired meanwhile, or met a concurrent Logout - is never taken for a
\* thief, although session:id may be answered from the cache.
ReuseEvidence ==
    \A s \in Sessions : revoked[s] = "refresh_reuse_suspected" => Rotated(s)

\* A Logout that answers success leaves the access token in revoked_tokens and
\* the session revoked.
LogoutTakesEffect ==
    \A r \in Requests : pc[r] \in {"logoutInvalidate", "ok"} /\ target[r] # None =>
        tok[r] \in revokedTokens /\ revoked[target[r]] # "no"

\* A LogoutAll that answers success leaves revoked every session the user had
\* when it started, although UpdateMany visits them one at a time.
LogoutAllComplete ==
    \A r \in Requests : pc[r] = "ok" =>
        \A s \in existing[r] : revoked[s] # "no"

-----------------------------------------------------------------------------
(* The inductive invariant behind these properties.                        *)

\* The tokens of a session form a chain whose last one is in the collection.
Chains ==
    /\ \A s \in Sessions : Exists(s) => owner[hash[s]] = s
    /\ \A s \in Sessions : revoked[s] # "no" => Exists(s)
    /\ \A h \in Tokens : owner[h] # None => hash[owner[h]] = h \/ Spent(h)
    /\ \A h \in Tokens : owner[h] = None => from[h] = None
    /\ \A n \in Tokens : from[n] # None =>
         owner[from[n]] # None /\ \A s \in Sessions : hash[s] # from[n]

\* Requests present tokens they were handed, and new ones are issued ones.
PresentedBy(r) ==
    /\ tok[r] # None => owner[tok[r]] # None
    /\ pc[r] \notin {"idle", "reply", "ok"} => tok[r] # None
    /\ new[r] # None => owner[new[r]] # None
    /\ pc[r] \in {"rotateInvalidate", "reply"} => new[r] # None

Presented ==
    /\ \A h \in handed : owner[h] # None
    /\ \A r \in Requests : PresentedBy(r)

\* A late request knows a revoked session, and has not rotated.
LateBy(r) ==
    r \in late =>
        /\ tok[r] # None /\ revoked[owner[tok[r]]] # "no"
        /\ pc[r] \in {"fill", "check", "rotateRead", "rotate", "reuse", "reuseFill",
                    "famRead", "famUpdate", "famInvalidate", "denied"}

\* Why a rotation failed, and what a suspicion rests on.
SuspectsBy(r) ==
    /\ pc[r] = "reuse" =>
         Spent(tok[r]) \/ tok[r] \in expired \/ revoked[owner[tok[r]]] # "no"
    /\ \/ pc[r] = "reuseFill"
       \/ pc[r] \in {"famRead", "famUpdate"} /\ reason[r] = "refresh_reuse_suspected"
       => Rotated(owner[tok[r]])

FamilyReason ==
    \A r \in Requests : pc[r] \in {"famRead", "famUpdate"} =>
        reason[r] \in {"refresh_reuse_suspected", "refresh_ip_anomaly"}

LogoutBy(r) ==
    /\ target[r] # None =>
         pc[r] \in {"logoutAppend", "logoutRevoke", "logoutInvalidate", "ok", "denied"}
    /\ pc[r] = "logoutRevoke" => tok[r] \in revokedTokens
    /\ pc[r] \in {"logoutAppend", "logoutRevoke"} => target[r] # None
    /\ pc[r] \in {"logoutInvalidate", "ok"} /\ target[r] # None =>
         tok[r] \in revokedTokens /\ revoked[target[r]] # "no"

LogoutAllBy(r) ==
    /\ \A s \in todo[r] : Exists(s)
    /\ existing[r] # {} => pc[r] \in {"allUpdate", "allVisit", "ok", "denied"}
    /\ pc[r] = "allUpdate" => existing[r] \subseteq SessionsOf(UserOf[owner[tok[r]]])
    /\ pc[r] = "allVisit" => \A s \in existing[r] : revoked[s] # "no" \/ s \in todo[r]
    /\ pc[r] = "ok" => \A s \in existing[r] : revoked[s] # "no"

IInv ==
    /\ TypeOK
    /\ Chains
    /\ SingleUse
    /\ Presented
    /\ FamilyReason
    /\ \A r \in Requests : LateBy(r)
    /\ \A r \in Requests : SuspectsBy(r)
    /\ \A s \in idCache : Rotated(s)
    /\ ReuseEvidence
    /\ \A r \in Requests : LogoutBy(r)
    /\ \A r \in Requests : LogoutAllBy(r)

-----------------------------------------------------------------------------
(* What the documents say.                                                 *)

\* What README.md and docs/implementation-plan.md say of an old refresh token:
\* presented while its session is active, it gets the family revoked.
ReplayRevokesFamily ==
    \A r \in replay : pc[r] = "denied" => revoked[owner[tok[r]]] # "no"
=============================================================================
