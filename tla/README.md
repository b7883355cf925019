# A TLA+ model of be-go-template

The repository is a Go backend: an HTTP API (Gin) over MongoDB and Redis, with
a seed command, a migration command and a background outbox worker in every
API process. Little of it is hard when it runs alone; what is hard is what
happens when several requests, workers and commands meet in the two stores,
when a call fails after it took effect, and when a process dies between two
calls. This directory models those parts in TLA+, checks them with TLC on
small instances and proves the safety properties, and most of the liveness, with
TLAPS for every size.

## The system

| Part | State | Operations | What makes it hard |
|---|---|---|---|
| Outbox (`internal/platform/outbox`, `internal/app/outbox`) | `outbox_events`, the target collections, a worker's batch | `Append`, `Enqueue`, `ClaimBatch`, `Handle`, `MarkDone`, `MarkFailed`, `Run` | several workers, crashes between claim and mark, lost answers, retries |
| Sessions (`internal/app/auth`, `session_repository.go`) | `sessions`, `revoked_tokens`, `session:refresh:*`, `session:id:*` | `Login`, `Refresh`, `Logout`, `LogoutAll` | rotation races, stale caches, non-atomic `UpdateMany`, partial failure |
| Cache layer (`internal/platform/database`, `internal/platform/cache`) | a document, its cache key, its lock | `FindOne`, writes, `RunInTransaction`, `WithLock` | fill after invalidation, locks that lapse, fallbacks that repeat work |
| Accounts (`Register`, `Login`, `internal/app/seed`) | `users`, `user:email:*` | `Register`, `Login` with lockout, `SeedAdmin` | counters computed from copies, two lock keys, a command beside the API |
| Pipeline (`internal/middleware`, `router.go`, `token_service.go`, `ratelimit`) | signing keys, blacklist, counter, the response | body limit, deadline, rate limit, authentication, error handler | deadlines against late answers, Redis losing entries, key rotation |
| Migrations (`internal/platform/migration`, `cmd/migrate`) | `schema_migrations` | `Run` | concurrent runners, crash between apply and record |
| Processes and their keys (`cmd/api/main.go`, `internal/config`, `token_service.go`) | where `run` stands, requests in flight, the loaded keys | start, serve, shutdown, key rotation over a rolling deployment | signals at any time, shutdown against hanging handlers and worker, two configurations in use at once |

`PROJECT.json` lists all parts, with the ones that are left out and why, the
hazards at their lines, and for every definition the lines it stands for.

## The modules

A call to Mongo or Redis is one step; everything a handler does between two
calls belongs to one of them. A call that may fail may also have taken effect
before its error was reported. `pc` names the call that comes next; the other
per-process variables are what the Go code keeps in locals.

**`Outbox`.** `status`, `retry` and `due` are the fields of the event's document
(`due` stands for `process_after <= now`), `stored` counts the copies in the
target collection, `seen`/`claimed`/`current` are a worker's locals in
`ClaimBatch` and `DrainOnce`. `ClaimBatch` is one find (`ClaimRead`) and one
conditional update per document (`ClaimOne`). An error of the find or of a mark
ends `Run` (`Stopped`): `cmd/api/main.go` only logs that, and the process goes
on serving without a worker until something ends it (`ProcessEnds`); a process
that is down is restarted (`Restart`). An error of a claim drops the event from
the batch.
Login-history events are written directly and enqueued when that fails; the
worker is given that same repository (`cmd/api/main.go`), which `HandleFails`
and `HandleAndEnqueueFail` follow.

**`AuthSessions`.** A token pair is one element of `Tokens`; `owner` and `from`
record how it came about. `Refresh` is `RefreshFind` (through the cache),
`RefreshFill`, `RefreshCheck`, `RotateRead`, `Rotate`, `RotateInvalidate`,
`Reply`, and on failure `ReuseFind`, `ReuseFill` and the three steps of
`RevokeByTokenFamilyID`. `LogoutAll`'s `UpdateMany` visits one document at a
time. `Finish` ends a request at any point. `late`, `replay` and `existing`
remember what held when a request started. `Register` creates its session as
`Login` does. Tokens, once generated, are returned to one client; the cached
device list decides nothing and is left out.

**The abstract modules.** What a component promises, in a page each, with atomic
operations and without caches, locks, copies and workers:

| Module | Promise | Implemented by | Mapping | Property |
|---|---|---|---|---|
| `WorkQueue` | an item is put, taken by one consumer at a time, and finished, returned or lost by the one that holds it; its effect happens in the holder's hands, or before the item is put | `Outbox` | `Stage`, `Owners` | `ImplementsQueue` |
| `SessionStore` | a session is opened with a token, its current token is exchanged for a fresh one, and it is revoked, once and for ever | `AuthSessions` | `Standing`, `SpentTokens` | `ImplementsStore` |
| `StoredDocument` | a write takes effect while its call is under way, once (twice at most without `StrictLock`), and at least once if it reports success; a read returns a committed state, not always the last | `CachedDatabase` | `outcome`, `seen` | `ImplementsDocument` |
| `UserAccount` | an account is created once, keeps its role, becomes admin only by a running seed command, which reports success only then but may also report an error, and is locked only after `MaxFailures` wrong passwords | `Accounts` | `Locked`, `Command` | `ImplementsAccount` |
| `RequestService` | a request is answered once, the answer stands until it has left, and a request whose token was logged out before it came in is not served while the token lasts | `Gateway` | `reply`, `barred` | `ImplementsService` |
| `SchemaLevel` | the schema has a level: the next version is applied, any number of times, then recorded, and only then the one after it can be | `Migration` | `Level` | `ImplementsSchema` |

The `Implements...` properties say that every step of the detailed module is a
step of the abstract one, or none.

**`CachedDatabase`.** The document is the number of writes it has seen, so a
stale copy is a smaller number. Four kinds of call run on one key: a read with
`LockOnMiss`, writes with and without `StrictLock`, and a transaction with its
buffered invalidation. `lapsed` holds the calls whose lock reached its TTL
while they were inside `WithLock`.

**`Accounts`.** One email address: `accounts`, `attempts`, `until`, `admin` are
the document, `cache` its copy under `user:email`. `recordLoginFailure` counts
on from the copy the request read, and the update is repeated once without the
lock when it fails under it. `SeedAdmin` runs beside the API, without a cache;
its update or insert may take effect and still be answered with an error, which
the command reports (`Report`).

**`Gateway`.** A request walks through body limit, rate limit or
authentication, a handler, and back out through error handler and deadline.
`ValidateAccessToken` is `Parse` (signature key and expiry), `Blacklist`
(Redis) and `FindRevoked` (Mongo); `Logout` runs it a second time, after it has
bound its input. A handler that cannot bind its input answers by itself
(`Invalid`); any other error it leaves to the error handler. `Deploy` is
the key rotation of `docs/operations.md`.

**`Migration`.** Runners walk through the versions: `Look` (`Has`), `Apply`,
`Record`, each of which may fail; the unique index on `version` refuses the
second record.

**`ApiProcess`.** `stage` is the call of `run` that comes next, from `config.Load`
to the last deferred call, `busy` the requests in flight, `worker` the processes
whose outbox worker runs. A signal (`Signal`) cancels the context of `run` and of
the worker, and ends a process outright where `signal.NotifyContext` is not in
force. `Shutdown` and `AwaitWorker` wait for handlers and worker, each with its
time-out; a process that leaves by a time-out, or because the server failed, is
`forced`.

**`Deployment`** extends `ApiProcess` by what a process loads when it starts:
configuration 1 with the old signing key, 2 with the new key and the old one as
the previous key, 3 with the new key alone. `Rotate`, `Replace` and
`RemovePrevious` are the steps of `docs/operations.md` (JWT key rotation);
`LoadConfig` refuses a previous key whose `not_after` has passed
(`config.go:326`); handlers issue tokens by the configuration of their process.

`Deployment` and `ApiProcess` apart, the modules share no variables. `AuthSessions` and `Accounts` contain what they
need of the cache layer (a read that may hit, miss or fill; an invalidation
that may fail), at the keys they use; `Gateway` contains what it needs of
`revoked_tokens`. Strict locks are not relied on in `AuthSessions`: its
properties hold with any interleaving of the calls, so also with the lock.

## What is checked

Every run but the four marked *violated* finishes without error; the bounds are
constants named in the modules. Type invariants (`TypeOK` of each module) are
proved, and not part of the runs; nor are `AppliedOnce`, `FillUnderLock`,
`RoleKept` and `AnswerStands`, which are proved and, but for `FillUnderLock`,
say part of what the refinements say.

| Run | Instance | Shows |
|---|---|---|
| `outbox_delivery` | 2 workers, an audit, an error and a login event, batches of 2, 2 retries, 3 faults of any kind | `ExclusiveClaim`, `RetryBound`, `CopiesBounded`, `NothingForgotten`, `LossBounded`, `ImplementsQueue`, and with fairness `StoredUnlessOrphaned` |
| `outbox_crash` | 1 audit event | *violated* `AtLeastOnce` |
| `outbox_login` | 1 login event | *violated* `LoginHistoryRetried` |
| `auth_rotation` | 2 requests, 1 session, 3 tokens; login and refresh | `SingleUse`, `ReuseEvidence`, `ImplementsStore` |
| `auth_logout` | 2 requests, 2 sessions of a user, 2 tokens, all operations | `RevokedForever`, `NoRefreshAfterRevocation`, `LogoutTakesEffect`, `LogoutAllComplete` |
| `auth_replay` | 1 request, 1 session, 2 tokens | *violated* `ReplayRevokesFamily` |
| `cache_calls` | every three of a locked read, a strict and a non-strict write and a transaction | `CommittedOnly`, `Exclusive`, `ImplementsDocument`, `StaleNeedsCause`, `NeverBlocked`, and with fairness `NothingLeftBehind`, `CallsReturn` |
| `accounts_lockout` | 2 requests or seed commands, 2 failures lock for 1 instant, 3 wrong passwords, time up to 3 | `LockNeedsFailures`, `SeedGrants`, `RolesGranted`, `SerialLockout`, `ImplementsAccount` |
| `accounts_stale` | 2 requests, 1 failure locks for 2 instants, 2 wrong passwords, no failing calls, no seed | *violated* `NoStaleLockout` |
| `gateway_access` | 2 requests, 1 token of lifetime 1, limit 1, fallback `block`, time up to 3, one deployment | `RevokedStaysOut`, `LimitHeld`, `Answered`, `ImplementsService` |
| `migration_runs` | 2 runners, 3 versions, 3 faults | `SuccessMeansComplete`, `AppliesBounded`, `ImplementsSchema`, and with fairness `Converges` |
| `rollout` | 2 processes, 1 token of lifetime 1, roll-out 1, overlap 2, 1 request in flight each, 1 fault, time up to 5 | `CleanStop`, `TokensSurvive`, `RunNeverBlocked`, and with fairness `Stops`, `ServesAgain`, `RotationEnds` |

*Bounds.* Two processes are enough for every race of a check with an update;
the invariants that mention a number of processes (`RetryBound`,
`AppliesBounded`) are attained with two. Two retries let a failed event become
eligible again and run out. Three events are one more than a batch, so that the
limit of the find decides what a worker has in hand; three faults let two workers
push `retry_count` past `MaxRetries`, or fill the outbox, lose a batch and go on. Three tokens make a chain with a replaced, a
current and a competing token. `Gateway` is checked with one access token:
tokens meet only in the rate limit and the key, and two made the state space
too large to finish. Its clock lets the token be issued, expire and be purged
while a request is under way. Three calls on a key are enough in `CachedDatabase`
for a lock that lapses, its next owner and a bystander; four at once do not
finish. In `rollout` the overlap is exactly the roll-out and a token's lifetime,
the least for which `TokensSurvive` promises anything, and the clock goes past
the removal of the previous key. Symmetry is used on requests (and on sessions of
the same user) in `auth_rotation`, `auth_logout`, the runs of `Accounts` and
`gateway_access`, none of which checks liveness (`RevokedForever` and the
refinements speak of single steps).

*Deadlock* is checked in the runs of `Outbox`, `Migration`, `Gateway` and
`Deployment` and in `accounts_lockout`, where some step is always possible. It is switched off in
the runs of `AuthSessions`, which stop once the tokens run out, of
`CachedDatabase`, which end when every call has returned, and in
`accounts_stale`.

*Fairness.* `Outbox`: the worker's ticker makes it take its steps, the process
supervisor (`restart: unless-stopped`) restarts a process that is down, time
passes for `process_after`; nothing is assumed of callers or faults, and nothing
ends a process that has lost its worker, so `StoredUnlessOrphaned` excepts the
case that all of them have. `CachedDatabase`: a
call that was made goes on, and Redis enforces TTLs. `Migration`: a command
that was started goes on, and a failed one is run again
(`docs/operations.md:299` asks for idempotent migrations "so reruns after
partial failure are safe"). `Deployment`: the supervisor starts processes, `run`
goes on (calls to the stores return, and its waits for handlers and worker have
time-outs), time passes, and the operator
finishes a rotation that was begun; handlers and workers may hang for ever.

### What the violated runs show

- *An accepted event can be lost* (`outbox_crash`, `AtLeastOnce`). `docs/operations.md:325`
  promises at-least-once processing. A document in `processing` is read by no
  find; when the worker that claimed it dies, or the answer to its claim is
  lost, the event is never handled. What remains true: nothing but a fault
  orphans an event (`OrphanCause`), a fault orphans one batch at most
  (`LossBounded`), and every other event is stored (`StoredUnlessOrphaned`).
- *A failed login-history write is not retried* (`outbox_login`). The worker's
  handler enqueues the event again, which succeeds without effect because the
  document exists, and the document is marked done (`docs/operations.md:51`).
- *A replayed refresh token does not revoke the family* (`auth_replay`). A
  replaced hash is not found and refused before the reuse check
  (`README.md:237`); the check is reached by overlapping refreshes only.
- *A login can be decided on a stale lockout state* (`accounts_stale`). The read
  and the update lock different keys (`docs/operations.md:185`).

## What is proved

TLAPS checks the theorems below for all values of the constants that satisfy
the named assumptions of the modules: any number of workers (finite), requests,
sessions, tokens, users, events, versions, processes and runners (finite), any
bounds. The
provers are Z3, Zenon and LS4.

**`OutboxProofs`.** `TypeCorrect`, `Exclusive`, `Delivered` (what is done was
stored), `BoundedRetry`, `BoundedCopies`, `OrphanCause`, `InSight`, `BoundedLoss`
and `IsWorkQueue` state that `Spec` implies type correctness and the safety
properties of `outbox_delivery`. They rest on `Invariance`, which proves `IInv` of
`Outbox` inductive. The invariants are not inductive by themselves:
- `ExclusiveClaim` needs `Idle`: a worker that is not draining has nothing in
  hand, and what it is about to mark is among its claims;
- `DoneMeansStored` needs `AboutToBeDone`: the handler's insert came before the
  mark;
- `CopiesBounded` needs `CopiesCounted`, which says who still has an attempt
  left: a claimed event that has not been handled since its last mark has one
  copy less;
- `RetryBound` needs `RetriesCovered`: every worker that read or claimed the
  event may still add one to `retry_count`, so the count plus those workers is
  bounded. This is where the finiteness of `Workers` is used;
- `NothingForgotten` (`InSight`) needs `Accepted`: a caller that was told yes has
  its event stored or in the collection. From there each status says where the
  event is: waiting, delayed, in a worker's hands, out of retries or orphaned;
- `LossBounded` (`BoundedLoss`) needs `BatchHeld`, that a worker has no more than
  `Batch` events in hand (`BatchInvariance`): a step that orphans documents is a
  fault, and takes them all from one worker's hands (`OrphanedFromHand`). The steps
  add up (`BoundedTotal`): no step brings an orphan back or moves the fault counter
  down, so the orphans are at most `Batch` for every fault. Cardinalities are only
  defined for finite sets, hence the hypothesis that there are finitely many events.

`IsWorkQueue` is the refinement: `QueueStep` shows, action by action, that a step
of `Outbox` is a step of `WorkQueue` or leaves the queue as it is, under the
mapping of `Stage` and `Owners`. `ExclusiveClaim` makes the holder of an item
unique, `Idle` says that a worker that ends holds no more than its claims, and
`NewHasNoDoc` that what a caller writes directly is not yet queued. `DoneFinal`
(`DoneIsFinal`: a done document is never touched again) is then a fact about
`WorkQueue` alone, `FinishedStays`.

**`AuthSessionsProofs`.** `TypeCorrect`, `RotationIsSingleUse`,
`RevocationIsFinal`, `RevocationStopsRefresh`, `SuspicionHasEvidence`,
`LogoutEffect` and `LogoutAllEffect` state the properties of `auth_rotation` and
`auth_logout`, from the inductive `IInv` of `AuthSessions`. Its parts:
- `Chains`: the tokens of a session form a chain, and only its last one is in
  the collection; `SingleUse` follows since a rotation compares the hash;
- `Presented`: requests hold tokens that exist;
- `LateBy`: a request that started after the revocation has not passed the
  conditional update;
- `SuspectsBy`, `FamilyReason` and the condition on `idCache`: what a failed
  rotation knows about the session when it revokes the family;
- `LogoutBy`, `LogoutAllBy`: what each call of `Logout` and `LogoutAll` has
  achieved when the next one is made.

The proof goes conjunct by conjunct (`StoreTypesStep`, `ChainStep`, `LateStep`,
`ReuseStep`, ...), each over all actions; `OthersKeep` says once what a step
leaves alone in the other requests. `IsSessionStore` is the refinement to
`SessionStore`: only the insert of a login, the conditional update of a rotation
and the three revoking updates change the table (`StoreStep`); `Chains` gives the
guards of `Exchange`.

**`CachedDatabaseProofs`.** All safety properties of `cache_calls` but `NeverBlocked`. `LockOwned`
says that the calls inside `WithLock` are those with a release ahead, and that
the key holds the value of one whose lock has not lapsed; `Exclusive` follows.
`Tally` says, for each kind of call and place, how often the write can have taken
effect, which gives `AppliedOnce` and `RepeatedOnce` (`AtMostTwice`: no write takes
effect three times). `StaleHasCause` is an action property: the step that makes the
cached copy stale, with no invalidation ahead, is a write that reports an error
although it took effect, an invalidation that is refused or dies with its process, or
a fill without the lock or behind a write made without it. `CallsGoForward` proves `OnlyForward` with the rank `Ahead`: no
step takes a call back.

`LayerIsDocument` is the refinement to `StoredDocument`. It needs two facts about the
places of a call: by `Tally` a write that is about to report success has taken effect,
and one that is about to be applied has an application left (`WriteRefines`); by
`ReadsCommitted` what a read has in hand, from the cache or from Mongo, was committed,
so that it may return it at the end (`EndRefines`). `OthersSee` keeps the other calls'
outcomes out of the way.

Two theorems are about liveness. `AllReturn` derives `CallsReturn` from `Spec` and
`StepsTaken` of every call, `RedisIsCleared` derives `NothingLeftBehind` from `Spec`,
`EntriesEnd` and `LocksEnd`. `OneCloser` shows that with `StepsTaken` a call of rank
at most n + 1 comes to rank n; seven uses of it lead to the end.

**`AccountsProofs`.** All properties of `accounts_lockout`. `OnItsWay` relates a
request's place to its call, `FailuresCounted` says that no copy counts more
failures than wrong passwords were presented, and `SerialState` describes serial
executions: one request at a time, with current copies except between an update
and its invalidation. `Alone` restates it for the one request under way.

`AccountAsPromised` is the refinement to `UserAccount`. Most steps leave the account as
it is (`QuietStep`). An update writes the counter and the lock from a copy
(`UpdateRefines`): `FailuresCounted` makes the lock one that `MaxFailures` wrong
passwords justify, and the update leaves the roles alone. A seed command is over in
the step that makes the account admin, with a success or an error to report
(`WriteRefines`), that finds it admin, or that meets another account (`CommandMoves`
says what the step makes of the command). `RoleIsKept` states the part of this about roles by itself.

**`GatewayProofs`.** All properties of `gateway_access`, and
`RotationIsInvisible`: the key rotation within one process, which `rollout` checks
over several. `Bearer` and
`KnownRevoked` follow the token of a request and its revocation, which only the
TTL index removes, after the token's expiry; `Counted` keeps the counter ahead
of the admissions; `KeyAges` bounds a token's expiry by the previous key's
`not_after`; `Written` says at each place what has been written. `AnswerIsFinal` proves
the action property `AnswerStands` from it: a request with a body is past its
handler, and the layers it still passes look before they write.

`RouterServes` is the refinement to `RequestService`. An answer is given in the step
that writes the body (`AnswerRefines`); `Written` says that there is none before, and
`BodyKept` that none comes after. `RevokedStaysOut` speaks of handlers, and the service
of answers: the invariant `RevokedUnserved` joins them, since only a handler's success
writes an answer of `Served` (`SuccessFromHandler`). Purging, expiry and the
clock only ever take requests out of `barred`.

`EveryRequestAnswered` is about liveness: from `ServeTaken` of every request it derives
`AnswersCome`. `ToGo` counts the calls a request has before it, with the second
validation of a logout; a step of the request lowers it or is its answer
(`ServeAhead`), nobody else's step changes it (`OthersAhead`), and twelve uses of
`OneNearer` lead to the end. The hypothesis is that calls to Redis and Mongo return,
with an answer or with an error; the deadline is one of those errors.

**`MigrationProofs`.** The safety properties of `migration_runs`. `Progress` says
what a runner knows of the versions behind it. `AppliesBounded` needs
`AppliesCounted`: until a version is recorded, whoever applied it without a fault
is about to record it, and afterwards only runners that had looked before apply
it again. `Truthful` and `Ordered` say that what is recorded was applied, and in
order; `SuccessIsComplete` (`SuccessMeansComplete`) that a runner past its last
version leaves all of them recorded. `IsSchemaLevel` is the refinement: the recorded
versions always are 1 to some level (`HasLevel`, `OneLevel`), `Record` raises it by
one, or not at all when the unique index refuses, and an `Apply` is of the version
next to the level or of one a slower runner had found missing (`SchemaStep`).

**`DeploymentProofs`.** `GracefulStop` and `RolloutIsInvisible` state `CleanStop` and
`TokensSurvive`. `CleanStop` needs `Working`: before `serve` there is nothing in
flight, and after `server.Shutdown` none but the worker's. `TokensSurvive` needs
`Configured` and `Signed`: the last process with the old configuration is gone
`Rollout` after the rotation, hence the last token of the old key expires `TTL`
later, which is within the overlap; a process that has dropped the previous key
started after its `not_after`. That old processes are gone by then is the one
assumption on the operator (`Tick`).
`SignalsObeyed` derives `Stops` from `Spec` and `RunTaken` of every process: `Working`
says that a signalled process is past `config.Load`, so `run` is ready at every stage
(`RunReady`); every step of `run` lowers `ToGo`, no other step raises it
(`SignalledStep`, `RunStep`), and nine uses of `OneNearer` lead to the end.

`Recovers` derives `ServesAgain`. Its hypotheses: the supervisor, `config.Load` and
`run` go on (`StartTaken`, `LoadTaken`, `RunTaken`), time passes every `not_after`
(`TimePasses`), the operator removes the previous key after it (`RemovalTaken`), and
faults come to an end (`FaultsCease`); without the last one a process can fail at
every start. The argument has three parts. The configuration settles
(`ConfigurationSettles`): it stays the first for ever, or becomes the third and stays
that. From then on a process that starts loads the current configuration, so nobody
has a reason to signal it, and a step at a time (`ToServe`, `OneOnward`) it comes to
serve (`ServesUnlessSignalled`). A process that was signalled goes down by
`SignalsObeyed` and starts again.

`RotationIsFinished` derives `RotationEnds` from `RunTaken`, `TimePasses`,
`RemovalTaken` and `ReplaceTaken`, that the operator signals a process with an old
configuration. It needs neither a supervisor nor an end of faults: a process with the
old configuration is signalled or ends by itself, a signalled one goes down by
`SignalsObeyed`, and no process loads the old configuration once it was replaced
(`OldProcessEnds`).

*Liveness and fairness.* The prover has no rules for `ENABLED`, so it cannot use
`WF_vars(A)` as it stands. The liveness theorems (`AllReturn`, `RedisIsCleared`,
`EveryRequestAnswered`, `SignalsObeyed`, `Recovers`, `RotationIsFinished`) therefore
take as hypothesis the same condition with the guard written out: `StepsTaken(p)`,
`EntriesEnd`, `LocksEnd`, `ServeTaken(r)`, `RunTaken(p)` and the others say that again
and again the guard is false or the action is taken. That the guards of the two large
actions are the right ones is checked by TLC: `NeverBlocked` and `RunNeverBlocked` are
the invariants that `ENABLED` of the action equals its guard. They are also properties
of the code in their own right: a call waits for no lock, and `run` for nothing but a
signal. `Serve` has a step at every place but `idle`, and the other guards are the one
or two conditions at the head of their action. `TimePasses` and `FaultsCease` replace bounds: in
the run the clock and the faults are bounded by constants, and an argument
by counting them would be an induction over the bound.

*Only model-checked.* `NeverBlocked` and `RunNeverBlocked`, because of `ENABLED`.
`StoredUnlessOrphaned` and `Converges`: on top of fairness they need an induction over
data (retries and faults, versions), whose length is a constant of the module, and the
induction theorems cannot be instantiated; the rank arguments above have a
fixed number of steps. The four violated properties are false, and only TLC's
counterexamples speak of them.

## Not modelled

- *Configuration* beyond the signing keys: a sequential parse and range checks,
  once per start, without state. A refused setting is a fault of `Deployment`.
- *Logging, metrics*: output only.
- *The error model* (`internal/platform/errors`): a pure mapping from errors to
  codes and statuses; the modules keep apart the errors that change control flow.
- *Listings of devices and login history, monitoring, readiness*: read-only
  queries that no other operation depends on. The cached device list is read and
  invalidated through the cache layer, whose `FillUnderLock`,
  `StaleNeedsCause` and `NothingLeftBehind` apply to its key; a single `Logout` does not invalidate it
  (`session_repository.go:84`), so it lags by its TTL.
- *Request ids, CORS, access logs, the role test of `AdminGuard`*: no state.

`Accounts` and `AuthSessions` follow the default
`MONGO_TRANSACTIONS_ENABLED=false`, in which `Login` and `Register` run without a
transaction; what a transaction does to the cache is modelled in
`CachedDatabase`. Signatures, hashes and
random ids are taken as collision-free. Mongo is a single primary: read
preferences that allow stale reads are not modelled (in `Migration` a stale `Has`
would only make `Record` fail on the unique index). The rate limit is stated per
window; around the end of a fixed window up to twice the limit can pass.

`ClaimBatch` hands its find a `Sort` with two keys in a Go map
(`mongo_outbox.go:76`). `Outbox` takes the find to be carried out, and leaves open
which of the eligible documents come first. What the Mongo driver, which is not part
of the repository, makes of a map with two sort keys is not modelled; if it refuses
the call, every find is the `ClaimReadFails` of the model.

A token of the new key that reaches a process with the old configuration is
refused: the documented procedure has no step at which the old processes already
know the new key. `TokensSurvive` excepts it explicitly.

## Plan

Done: the modules above, their runs, the proofs listed, and the six refinements.
What would add most next:

1. `Gateway` composed with `AuthSessions`, so that one logout is followed from
   the handler to the requests it shuts out.
2. The error model as operators, checked against the table of codes in the
   repository's documentation.

## Running

    tlc -workers 2 -config Outbox_delivery.cfg MCOutbox
    tlapm OutboxProofs.tla

The run's module and configuration are in `PROJECT.json`; the longest takes a
few minutes with two workers.
