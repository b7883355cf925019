------------------------------ MODULE Accounts ------------------------------
(***************************************************************************)
(* The account behind one email address: Register, Login with its lockout  *)
(* (internal/app/auth/auth_service.go), the seed command's SeedAdmin       *)
(* (internal/app/seed/admin.go), and the users collection they share       *)
(* (internal/repository/mongo/user_repository.go).                         *)
(*                                                                         *)
(* The API reads the account through the cache key user:email; the seed    *)
(* command goes to Mongo directly.  The reads lock user:email, the updates *)
(* user:id, so neither excludes the other: a call to Mongo or Redis is one *)
(* step, and any others may come between two of them.  user:id is read by  *)
(* Refresh and the profile page only and is left out, and with it          *)
(* UpdateLastLogin, which writes no other state that is modelled.  Login   *)
(* and Register run without a Mongo transaction, as is the default         *)
(* (MONGO_TRANSACTIONS_ENABLED=false).                                     *)
(***************************************************************************)
EXTENDS Integers, FiniteSets

CONSTANTS
    Requests,      \* the handlers that run at the same time
    Calls,         \* what they are asked to do
    MaxFailures,   \* AUTH_LOCKOUT_MAX_FAILURES; 0 would disable the lockout
    Duration,      \* AUTH_LOCKOUT_DURATION
    Failing,       \* whether calls to Mongo and Redis may fail
    MaxTime,       \* bound on the clock
    MaxWrong       \* bound on the number of wrong passwords

ASSUME LockoutAssumption == MaxFailures \in Nat \ {0} /\ Duration \in Nat \ {0}
ASSUME BoundsAssumption == MaxTime \in Nat /\ MaxWrong \in Nat
ASSUME CallsAssumption == Calls \subseteq {"register", "right", "wrong", "seed"}
ASSUME FailingAssumption == Failing \in BOOLEAN

VARIABLES
    now,        \* the clock
    accounts,   \* how many documents hold the email
    attempts,   \* failed_login_attempts
    until,      \* locked_until, 0 while unset
    admin,      \* whether roles contains admin
    cache,      \* the copy under user:email, or NoCopy
    pc,         \* pc[r]: the call request r makes next
    op,         \* op[r]: what r was asked to do
    copy,       \* copy[r]: the account as r read it
    stamp,      \* stamp[r]: the time r took before its update
    \* What the properties remember.
    wrong,      \* wrong passwords compared so far
    streak,     \* failures recorded since the last login, counted while serial
    serial,     \* no two requests overlapped and no call has failed so far
    late        \* logins that found the account locked, as it has been since

document == <<accounts, attempts, until, admin>>
history == <<wrong, streak, serial, late>>
vars == <<now, accounts, attempts, until, admin, cache, pc, op, copy, stamp,
          wrong, streak, serial, late>>

Copy(a, u, d) == [attempts |-> a, until |-> u, admin |-> d]
NoCopy == Copy(-1, 0, FALSE)
Account == Copy(attempts, until, admin)
Exists == accounts > 0

\* LockedUntil.After(now).
IsLocked(u) == u > now

Init ==
    /\ now = 1
    /\ accounts = 0
    /\ attempts = 0
    /\ until = 0
    /\ admin = FALSE
    /\ cache = NoCopy
    /\ pc = [r \in Requests |-> "idle"]
    /\ op = [r \in Requests |-> "none"]
    /\ copy = [r \in Requests |-> NoCopy]
    /\ stamp = [r \in Requests |-> 0]
    /\ wrong = 0
    /\ streak = 0
    /\ serial = TRUE
    /\ late = {}

Goto(r, label) == pc' = [pc EXCEPT ![r] = label]
Fault == Failing /\ serial' = FALSE

\* Requests that have changed the account and not yet invalidated the key.
Unsettled == {r \in Requests : pc[r] \in {"write", "writeAgain", "invalidate"}}

StillLocked(u, time) == late' = IF u > time THEN late ELSE {}

Start(r, call) ==
    /\ pc[r] = "idle"
    /\ call \in Calls
    /\ op' = [op EXCEPT ![r] = call]
    /\ serial' = (serial /\ \A q \in Requests : pc[q] = "idle")
    /\ late' = IF call = "right" /\ IsLocked(until) /\ Unsettled = {}
                 THEN late \cup {r} ELSE late

-----------------------------------------------------------------------------
(* FindByEmail through the cache, by Register and Login.                   *)

\* What Register and Login make of the account they found, or of its absence.
Found(r, call) == Goto(r, IF call = "register" THEN "denied" ELSE "check")
NotFound(r, call) == Goto(r, IF call = "register" THEN "create" ELSE "denied")

Find(r, call) ==
    /\ call # "seed"
    /\ Start(r, call)
    /\ \/ /\ cache # NoCopy
          /\ copy' = [copy EXCEPT ![r] = cache]
          /\ Found(r, call)
       \/ /\ Exists
          /\ copy' = [copy EXCEPT ![r] = Account]
          /\ Goto(r, "fill")
       \/ /\ ~Exists
          /\ NotFound(r, call)
          /\ UNCHANGED copy
    /\ UNCHANGED <<now, document, cache, stamp, wrong, streak>>

\* The copy is cached, or Redis refuses it.
Fill(r) ==
    /\ pc[r] = "fill"
    /\ \/ cache' = copy[r] /\ UNCHANGED serial
       \/ Fault /\ UNCHANGED cache
    /\ Found(r, op[r])
    /\ UNCHANGED <<now, document, op, copy, stamp, wrong, streak, late>>

-----------------------------------------------------------------------------
(* Register.                                                               *)

\* The unique index on email refuses a second document.
Insert ==
    /\ accounts = 0
    /\ accounts' = 1

\* The insert is followed by the deletion of its cache keys, the session and
\* the reply; what fails there leaves the account behind.
Create(r) ==
    /\ pc[r] = "create"
    /\ \/ Insert /\ Goto(r, "invalidate")
       \/ Exists /\ Goto(r, "denied") /\ UNCHANGED accounts
    /\ UNCHANGED <<now, attempts, until, admin, cache, op, copy, stamp, history>>

-----------------------------------------------------------------------------
(* Login.                                                                  *)

\* IsLocked on the copy, then the password.  A wrong one is answered, after
\* the failure is recorded, with an error; a right one goes on to the session.
Check(r) ==
    /\ pc[r] = "check"
    /\ \/ /\ IsLocked(copy[r].until)
          /\ Goto(r, "denied")
          /\ UNCHANGED <<stamp, wrong>>
       \/ /\ ~IsLocked(copy[r].until)
          /\ op[r] = "wrong"
          /\ wrong < MaxWrong
          /\ wrong' = wrong + 1
          /\ stamp' = [stamp EXCEPT ![r] = now]
          /\ Goto(r, "write")
       \/ /\ ~IsLocked(copy[r].until)
          /\ op[r] = "right"
          /\ Goto(r, "write")
          /\ UNCHANGED <<stamp, wrong>>
    /\ UNCHANGED <<now, document, cache, op, copy, streak, serial, late>>

\* Mutants: the lock set one failure early; the whole document replaced by the
\* copy the failure was counted on.
RecordLoginFailure_Early(r) ==
    LET count == copy[r].attempts + 1 IN
    /\ attempts' = count
    /\ until' = IF count + 1 >= MaxFailures THEN stamp[r] + Duration ELSE until
    /\ streak' = IF serial THEN streak + 1 ELSE 0
    /\ UNCHANGED <<accounts, admin>>
RecordLoginFailure_Replace(r) ==
    LET count == copy[r].attempts + 1 IN
    /\ attempts' = count
    /\ until' = IF count >= MaxFailures THEN stamp[r] + Duration ELSE until
    /\ admin' = copy[r].admin
    /\ streak' = IF serial THEN streak + 1 ELSE 0
    /\ UNCHANGED accounts

\* recordLoginFailure counts on from the copy; locked_until is only ever set.
RecordLoginFailure(r) ==
    LET count == copy[r].attempts + 1 IN
    /\ attempts' = count
    /\ until' = IF count >= MaxFailures THEN stamp[r] + Duration ELSE until
    /\ streak' = IF serial THEN streak + 1 ELSE 0
    /\ UNCHANGED <<accounts, admin>>

ResetLoginFailures ==
    /\ attempts' = 0
    /\ until' = 0
    /\ streak' = 0
    /\ UNCHANGED <<accounts, admin>>

Update(r) == IF op[r] = "wrong" THEN RecordLoginFailure(r) ELSE ResetLoginFailures

\* An update that reports an error under its lock is made again without; a
\* second error is ignored for a failure, and fails the login otherwise.
Write(r) ==
    /\ pc[r] \in {"write", "writeAgain"}
    /\ \/ Update(r) /\ Goto(r, "invalidate") /\ UNCHANGED serial
       \/ /\ Fault
          /\ Update(r) \/ UNCHANGED <<document, streak>>
          /\ Goto(r, IF pc[r] = "write" THEN "writeAgain" ELSE "denied")
    /\ StillLocked(until', now)
    /\ UNCHANGED <<now, cache, op, copy, stamp, wrong>>
\* Mutant: only the id key is invalidated.
Invalidate_IdOnly(r) ==
    /\ pc[r] = "invalidate"
    /\ UNCHANGED <<cache, serial>>
    /\ Goto(r, IF op[r] = "wrong" THEN "denied" ELSE "ok")
    /\ UNCHANGED <<now, document, op, copy, stamp, wrong, streak, late>>

Invalidate(r) ==
    /\ pc[r] = "invalidate"
    /\ \/ cache' = NoCopy /\ UNCHANGED serial
       \/ Fault /\ UNCHANGED cache
    /\ Goto(r, IF op[r] = "wrong" THEN "denied" ELSE "ok")
    /\ UNCHANGED <<now, document, op, copy, stamp, wrong, streak, late>>

-----------------------------------------------------------------------------
(* SeedAdmin, in a process of its own without a cache.                     *)

SeedFind(r) ==
    /\ Start(r, "seed")
    /\ copy' = [copy EXCEPT ![r] = IF Exists THEN Account ELSE NoCopy]
    /\ Goto(r, IF Exists THEN IF admin THEN "ok" ELSE "ensureRole" ELSE "seedCreate")
    /\ UNCHANGED <<now, document, cache, stamp, wrong, streak>>

\* What the command reports of a write that took effect: an error, if the answer
\* is one.
Report(r) ==
    \/ Goto(r, "ok") /\ UNCHANGED serial
    \/ Goto(r, "denied") /\ Fault

EnsureRole(r) ==
    /\ pc[r] = "ensureRole"
    /\ admin' = TRUE
    /\ Report(r)
    /\ UNCHANGED <<now, accounts, attempts, until, cache, op, copy, stamp, wrong, streak, late>>

\* Mutant: an account that appeared meanwhile is taken for the one to seed.
SeedCreate_ConflictIsOk(r) ==
    /\ pc[r] = "seedCreate"
    /\ \/ Insert /\ admin' = TRUE /\ Report(r)
       \/ Exists /\ Goto(r, "ok") /\ UNCHANGED <<accounts, admin, serial>>
    /\ UNCHANGED <<now, attempts, until, cache, op, copy, stamp, wrong, streak, late>>

SeedCreate(r) ==
    /\ pc[r] = "seedCreate"
    /\ \/ Insert /\ admin' = TRUE /\ Report(r)
       \/ Exists /\ Goto(r, "denied") /\ UNCHANGED <<accounts, admin, serial>>
    /\ UNCHANGED <<now, attempts, until, cache, op, copy, stamp, wrong, streak, late>>

-----------------------------------------------------------------------------
(* The environment.                                                        *)

\* The reply is sent; before that, the request fails or its process dies.
Finish(r) ==
    /\ pc[r] # "idle"
    /\ \/ pc[r] \in {"ok", "denied"} /\ UNCHANGED serial
       \/ pc[r] \notin {"ok", "denied"} /\ Fault
    /\ Goto(r, "idle")
    /\ op' = [op EXCEPT ![r] = "none"]
    /\ copy' = [copy EXCEPT ![r] = NoCopy]
    /\ stamp' = [stamp EXCEPT ![r] = 0]
    /\ late' = late \ {r}
    /\ UNCHANGED <<now, document, cache, wrong, streak>>

Tick ==
    /\ now < MaxTime
    /\ now' = now + 1
    /\ StillLocked(until, now + 1)
    /\ UNCHANGED <<document, cache, pc, op, copy, stamp, wrong, streak, serial>>

\* user:email reaches its TTL.
CacheExpires ==
    /\ cache # NoCopy
    /\ cache' = NoCopy
    /\ UNCHANGED <<now, document, pc, op, copy, stamp, history>>

Handle(r) ==
    \/ \E call \in Calls : Find(r, call)
    \/ Fill(r) \/ Create(r) \/ Check(r) \/ Write(r) \/ Invalidate(r)
    \/ SeedFind(r) \/ EnsureRole(r) \/ SeedCreate(r)

Next ==
    \/ \E r \in Requests : Handle(r) \/ Finish(r)
    \/ Tick
    \/ CacheExpires

Spec == Init /\ [][Next]_vars

-----------------------------------------------------------------------------
(* Properties.                                                             *)

Labels ==
    {"idle", "fill", "create", "check", "write", "writeAgain", "invalidate",
     "ensureRole", "seedCreate", "ok", "denied"}
Copies == [attempts : Nat \cup {-1}, until : Nat, admin : BOOLEAN]

\* Every variable holds a value of its kind.
TypeOK ==
    /\ now \in Nat
    /\ accounts \in 0..1
    /\ attempts \in Nat
    /\ until \in Nat
    /\ admin \in BOOLEAN
    /\ cache \in Copies
    /\ pc \in [Requests -> Labels]
    /\ op \in [Requests -> Calls \cup {"none"}]
    /\ copy \in [Requests -> Copies]
    /\ stamp \in [Requests -> Nat]
    /\ wrong \in Nat
    /\ streak \in Nat
    /\ serial \in BOOLEAN
    /\ late \subseteq Requests

\* Nobody is locked out without cause: a lock means that MaxFailures wrong
\* passwords were presented, whatever stale copies the failures were counted on.
LockNeedsFailures ==
    until > 0 => wrong >= MaxFailures

\* An admin role stays: recording a failure or a login on an old copy of the
\* account never writes back the roles of that copy.
RoleKept ==
    [][admin => admin']_vars

\* A seed command that reports success leaves an admin behind, also when the
\* account is registered while it runs.
SeedGrants ==
    \A r \in Requests : pc[r] = "ok" /\ op[r] = "seed" => Exists /\ admin

\* A cached copy, or one in a handler's hands, never holds a role the account
\* does not have: what a login puts into the access token was granted.
RolesGranted ==
    /\ cache.admin => admin
    /\ \A r \in Requests : copy[r].admin => admin

\* A login that starts while the account is locked, and no update is under way,
\* is refused as long as the lock lasts (docs/operations.md, Account lockout:
\* the updates invalidate user:email "so auth decisions do not read stale
\* lockout state").
NoStaleLockout ==
    \A r \in late : pc[r] \in {"fill", "check", "denied"}

\* Without overlapping requests and failing calls the lockout is exact: the
\* count is the number of consecutive failures, MaxFailures of them lock, and a
\* login that starts while the account is locked is refused, even though it
\* reads the account from the cache.
SerialLockout ==
    serial =>
        /\ attempts = streak
        /\ streak >= MaxFailures => until > 0
        /\ NoStaleLockout

-----------------------------------------------------------------------------
(* The abstract specification that the requests implement.                 *)

Locked == until > 0

\* What became of the seed command that r is.
Command(r) ==
    IF op[r] # "seed" THEN "none"
    ELSE IF pc[r] = "ok" THEN "ok"
    ELSE IF pc[r] = "denied" THEN "failed"
    ELSE "running"

Promised ==
    INSTANCE UserAccount WITH
        exists <- Exists, isAdmin <- admin, failures <- wrong, locked <- Locked,
        command <- [r \in Requests |-> Command(r)]

\* However registrations, logins and seed commands overlap, each on its own copy
\* of the account, they have the effects of single steps: one creation, roles
\* that are only ever added, by a running seed command, whether its report is a
\* success or an error, and locks that enough wrong passwords came before.
ImplementsAccount == Promised!Spec

-----------------------------------------------------------------------------
(* The inductive invariant behind these properties.                        *)

SeedLabels == {"ensureRole", "seedCreate", "ok", "denied"}

\* Where a request stands fits what it was asked to do.
OnItsWay(r) ==
    /\ pc[r] = "idle" => op[r] = "none"
    /\ op[r] = "seed" => pc[r] \in SeedLabels
    /\ pc[r] \in {"check", "write", "writeAgain"} => op[r] \in {"right", "wrong"}
    /\ pc[r] = "fill" => op[r] \in {"register", "right", "wrong"}
    /\ pc[r] = "create" => op[r] = "register"
    /\ pc[r] \in {"ensureRole", "seedCreate"} => op[r] = "seed"
    /\ pc[r] \in {"ensureRole", "fill", "check", "write", "writeAgain", "invalidate"} => Exists

\* No copy counts more failures than there were wrong passwords; a request that
\* is about to record one counts on from fewer.
FailuresCounted ==
    /\ attempts <= wrong
    /\ cache.attempts <= wrong
    /\ \A r \in Requests :
         /\ copy[r].attempts <= wrong
         /\ pc[r] \in {"write", "writeAgain"} /\ op[r] = "wrong" => copy[r].attempts < wrong

\* The lockout state of a copy is that of the account.
Current(c) == c.attempts = attempts /\ c.until = until

\* Without overlap and failures: one request at a time, no stale copies but
\* between an update and its invalidation, and a lock that late logins meet.
SerialState ==
    serial =>
        /\ \A q, r \in Requests : pc[q] # "idle" /\ pc[r] # "idle" => q = r
        /\ \A r \in Requests : pc[r] # "writeAgain"
        /\ \A r \in Requests : pc[r] \in {"fill", "check", "write"} => Current(copy[r])
        /\ (\A r \in Requests : pc[r] # "invalidate") => cache = NoCopy \/ Current(cache)
        /\ \A r \in late : until > now /\ op[r] = "right"

IInv ==
    /\ TypeOK
    /\ ~Exists => cache = NoCopy /\ attempts = 0 /\ until = 0
    /\ \A r \in Requests : OnItsWay(r)
    /\ FailuresCounted
    /\ LockNeedsFailures
    /\ SeedGrants
    /\ RolesGranted
    /\ SerialState
    /\ SerialLockout
=============================================================================
