--------------------------- MODULE CachedDatabase ---------------------------
(***************************************************************************)
(* The cache layer between the repositories and Mongo:                     *)
(* internal/platform/database/cached_database.go over the Redis client of  *)
(* internal/platform/cache/redis.go.                                       *)
(*                                                                         *)
(* One document, its cache key and the lock of that key, under concurrent  *)
(* calls: reads with LockOnMiss, writes with and without StrictLock, and   *)
(* transactions.  The document is the number of writes it has seen.  Every *)
(* call to Redis or Mongo may fail, or take effect and report an error.  A *)
(* read without LockOnMiss does what a read does whose lock attempt fails. *)
(***************************************************************************)
EXTENDS Integers, FiniteSets

CONSTANTS
    Calls,     \* the concurrent calls
    Kind,      \* Kind[p]: "read", "strict", "loose" or "txn"
    Rounds     \* the sets of calls that are made at the same time

ASSUME KindAssumption == Kind \in [Calls -> {"read", "strict", "loose", "txn"}]
ASSUME RoundsAssumption == Rounds \subseteq SUBSET Calls

VARIABLES
    doc,       \* the committed document
    cache,     \* the cached copy, or Nothing
    lock,      \* {p} while the lock key holds p's random owner, else {}
    held,      \* calls that run inside WithLock
    lapsed,    \* of these, those whose lock key reached its TTL
    pc,        \* pc[p]: what call p does next
    got,       \* got[p]: the copy a read returns
    applied,   \* applied[p]: how often p's write took effect
    unlocked   \* the versions written by calls that did not have the lock

vars == <<doc, cache, lock, held, lapsed, pc, got, applied, unlocked>>
redisLock == <<lock, held, lapsed>>

Nothing == -1

First(p) ==
    CASE Kind[p] = "read" -> "get"
      [] Kind[p] = "txn" -> "begin"
      [] OTHER -> "lock"

\* A call that is not made in this round counts as one that died at once.
Init ==
    /\ doc = 0
    /\ cache = Nothing
    /\ lock = {}
    /\ held = {}
    /\ lapsed = {}
    /\ \E round \in Rounds :
         pc = [p \in Calls |-> IF p \in round THEN First(p) ELSE "crashed"]
    /\ got = [p \in Calls |-> Nothing]
    /\ applied = [p \in Calls |-> 0]
    /\ unlocked = {}

Goto(p, label) == pc' = [pc EXCEPT ![p] = label]

-----------------------------------------------------------------------------
(* WithLock: one SetNX, never waiting; the owner value guards the release. *)
\* Mutants: StrictLock ignored; the write taken back to the lock.
Fallback_IgnoresStrict(p) == IF Kind[p] = "read" THEN "loadBare" ELSE "writeBare"
Fallback_Relock(p) ==
    CASE Kind[p] = "read" -> "loadBare"
      [] Kind[p] = "loose" -> "lock"
      [] OTHER -> "failed"

\* What a call does when the lock, or the work under it, fails.
Fallback(p) ==
    CASE Kind[p] = "read" -> "loadBare"
      [] Kind[p] = "loose" -> "writeBare"
      [] OTHER -> "failed"
\* Mutant: reads lock a key of their own.
Acquire_ReadersApart(p) ==
    /\ pc[p] = "lock"
    /\ lock = {}
    /\ lock' = IF Kind[p] = "read" THEN {} ELSE {p}
    /\ held' = held \cup {p}
    /\ Goto(p, IF Kind[p] = "read" THEN "getAgain" ELSE "write")
    /\ UNCHANGED <<doc, cache, lapsed, got, applied, unlocked>>

Acquire(p) ==
    /\ pc[p] = "lock"
    /\ lock = {}
    /\ lock' = {p}
    /\ held' = held \cup {p}
    /\ Goto(p, IF Kind[p] = "read" THEN "getAgain" ELSE "write")
    /\ UNCHANGED <<doc, cache, lapsed, got, applied, unlocked>>

\* Mutant: the caller waits while another owner has the lock.
AcquireFails_Waits(p) ==
    /\ pc[p] = "lock"
    /\ lock = {}
    /\ lock' \in {lock, {p}}
    /\ Goto(p, Fallback(p))
    /\ UNCHANGED <<doc, cache, held, lapsed, got, applied, unlocked>>

\* Held by another owner, or an error - with which the key may have been set.
AcquireFails(p) ==
    /\ pc[p] = "lock"
    /\ \/ UNCHANGED lock
       \/ lock = {} /\ lock' = {p}
    /\ Goto(p, Fallback(p))
    /\ UNCHANGED <<doc, cache, held, lapsed, got, applied, unlocked>>
\* Mutant: the key is deleted whoever owns it.
Release_AnyOwner(p) ==
    /\ pc[p] \in {"release", "releaseFailed"}
    /\ lock' \in {lock, {}}
    /\ held' = held \ {p}
    /\ lapsed' = lapsed \ {p}
    /\ Goto(p, IF pc[p] = "release" THEN "done" ELSE Fallback(p))
    /\ UNCHANGED <<doc, cache, got, applied, unlocked>>

\* releaseLock deletes the key only if it still holds the owner's value; its
\* error is ignored.
Release(p) ==
    /\ pc[p] \in {"release", "releaseFailed"}
    /\ lock' \in {lock, lock \ {p}}
    /\ held' = held \ {p}
    /\ lapsed' = lapsed \ {p}
    /\ Goto(p, IF pc[p] = "release" THEN "done" ELSE Fallback(p))
    /\ UNCHANGED <<doc, cache, got, applied, unlocked>>

-----------------------------------------------------------------------------
(* readThrough.                                                            *)

\* A hit returns; a miss and a Redis error go on to the lock.
Get(p) ==
    /\ pc[p] = "get"
    /\ \/ /\ cache # Nothing
          /\ got' = [got EXCEPT ![p] = cache]
          /\ Goto(p, "done")
       \/ /\ Goto(p, "lock")
          /\ UNCHANGED got
    /\ UNCHANGED <<doc, cache, redisLock, applied, unlocked>>

GetAgain(p) ==
    /\ pc[p] = "getAgain"
    /\ \/ /\ cache # Nothing
          /\ got' = [got EXCEPT ![p] = cache]
          /\ Goto(p, "release")
       \/ /\ Goto(p, "load")
          /\ UNCHANGED got
    /\ UNCHANGED <<doc, cache, redisLock, applied, unlocked>>

\* An error of load under the lock is taken for a lock failure: it is retried.
Load(p) ==
    /\ pc[p] \in {"load", "loadBare"}
    /\ \/ /\ got' = [got EXCEPT ![p] = doc]
          /\ Goto(p, IF pc[p] = "load" THEN "set" ELSE "setBare")
       \/ /\ Goto(p, IF pc[p] = "load" THEN "releaseFailed" ELSE "failed")
          /\ UNCHANGED got
    /\ UNCHANGED <<doc, cache, redisLock, applied, unlocked>>

Set(p) ==
    /\ pc[p] \in {"set", "setBare"}
    /\ cache' \in {cache, got[p]}
    /\ Goto(p, IF pc[p] = "set" THEN "release" ELSE "done")
    /\ UNCHANGED <<doc, redisLock, got, applied, unlocked>>

-----------------------------------------------------------------------------
(* write.                                                                  *)

Apply(p) ==
    /\ doc' = doc + 1
    /\ applied' = [applied EXCEPT ![p] = @ + 1]
    /\ unlocked' = IF p \in held \ lapsed THEN unlocked ELSE unlocked \cup {doc + 1}

\* An error of the write under the lock is taken for a lock failure as well.
Write(p) ==
    /\ pc[p] = "write"
    /\ \/ Apply(p) /\ Goto(p, "invalidate")
       \/ Apply(p) /\ Goto(p, "releaseFailed")
       \/ Goto(p, "releaseFailed") /\ UNCHANGED <<doc, applied, unlocked>>
    /\ UNCHANGED <<cache, redisLock, got>>

WriteBare(p) ==
    /\ pc[p] = "writeBare"
    /\ \/ Apply(p) /\ Goto(p, "invalidateBare")
       \/ Apply(p) /\ Goto(p, "failed")
       \/ Goto(p, "failed") /\ UNCHANGED <<doc, applied, unlocked>>
    /\ UNCHANGED <<cache, redisLock, got>>

Invalidate(p) ==
    /\ pc[p] \in {"invalidate", "invalidateBare"}
    /\ cache' \in {cache, Nothing}
    /\ Goto(p, IF pc[p] = "invalidate" THEN "release" ELSE "done")
    /\ UNCHANGED <<doc, redisLock, got, applied, unlocked>>

-----------------------------------------------------------------------------
(* RunInTransaction: writes take no lock and buffer their keys, reads go   *)
(* past the cache, and the keys are deleted once the commit has succeeded. *)

TxnWrite(p) ==
    /\ pc[p] = "begin"
    /\ Goto(p, "commit")
    /\ UNCHANGED <<doc, cache, redisLock, got, applied, unlocked>>
\* Mutant: reads inside the transaction fill the cache.
TxnRead_Cached(p) ==
    /\ pc[p] = "commit"
    /\ got' = [got EXCEPT ![p] = doc + 1]
    /\ cache' = doc + 1
    /\ UNCHANGED <<doc, redisLock, pc, applied, unlocked>>

\* A read inside the transaction sees its own uncommitted write.
TxnRead(p) ==
    /\ pc[p] = "commit"
    /\ got' = [got EXCEPT ![p] = doc + 1]
    /\ UNCHANGED <<doc, cache, redisLock, pc, applied, unlocked>>

\* The session's writes take effect at once.
Commit(p) == Apply(p)

\* Commit, commit with the answer lost, or abort.  A retry by the driver runs
\* the same writes again and leaves no other trace.
TxnEnd(p) ==
    /\ pc[p] = "commit"
    /\ \/ Commit(p) /\ Goto(p, "invalidateBare")
       \/ Commit(p) /\ Goto(p, "failed")
       \/ Goto(p, "failed") /\ UNCHANGED <<doc, applied, unlocked>>
    /\ UNCHANGED <<cache, redisLock, got>>

-----------------------------------------------------------------------------
(* The environment.                                                        *)
\* Mutant: keys that are set without a TTL.
CacheExpires_Never == FALSE /\ UNCHANGED vars

\* Validate and WithLock insist on positive TTLs: entries and locks end.
CacheExpires ==
    /\ cache # Nothing
    /\ cache' = Nothing
    /\ UNCHANGED <<doc, redisLock, pc, got, applied, unlocked>>

LockExpires ==
    /\ lock # {}
    /\ lock' = {}
    /\ lapsed' = lapsed \cup (lock \cap held)
    /\ UNCHANGED <<doc, cache, held, pc, got, applied, unlocked>>

Over == {"done", "failed", "crashed"}

\* The process dies: what it holds in Redis stays.
Crash(p) ==
    /\ pc[p] \notin Over
    /\ Goto(p, "crashed")
    /\ held' = held \ {p}
    /\ lapsed' = lapsed \ {p}
    /\ UNCHANGED <<doc, cache, lock, got, applied, unlocked>>

Step(p) ==
    \/ Acquire(p) \/ AcquireFails(p) \/ Release(p)
    \/ Get(p) \/ GetAgain(p) \/ Load(p) \/ Set(p)
    \/ Write(p) \/ WriteBare(p) \/ Invalidate(p)
    \/ TxnWrite(p) \/ TxnEnd(p)

Next ==
    \/ \E p \in Calls : Step(p) \/ TxnRead(p) \/ Crash(p)
    \/ CacheExpires
    \/ LockExpires

Spec == Init /\ [][Next]_vars

\* Calls run, and Redis enforces its TTLs.
Fairness ==
    /\ \A p \in Calls : WF_vars(Step(p))
    /\ WF_vars(CacheExpires)
    /\ WF_vars(LockExpires)

FairSpec == Spec /\ Fairness

-----------------------------------------------------------------------------
(* Properties.                                                             *)

Labels ==
    {"get", "lock", "getAgain", "load", "set", "loadBare", "setBare", "write", "invalidate",
     "writeBare", "invalidateBare", "begin", "commit", "release", "releaseFailed"} \cup Over

\* Every variable holds a value of its kind.
TypeOK ==
    /\ doc \in Nat
    /\ cache \in Nat \cup {Nothing}
    /\ lock \in SUBSET Calls
    /\ held \subseteq Calls
    /\ lapsed \subseteq held
    /\ pc \in [Calls -> Labels]
    /\ got \in [Calls -> Nat \cup {Nothing}]
    /\ applied \in [Calls -> 0..2]
    /\ unlocked \subseteq Nat

\* A write that is repeated without the lock takes effect twice at most: write
\* takes the error of the work for one of the lock a single time.
AtMostTwice == \A p \in Calls : applied[p] <= 2

\* The cache holds committed states only: what a transaction has written is not
\* cached before it commits, nor after it aborts.
CommittedOnly ==
    /\ cache <= doc
    /\ \A p \in Calls : pc[p] \in {"set", "setBare"} => got[p] <= doc

\* Two calls are inside WithLock together only if a lock has outlived its TTL;
\* a call that outlived it never frees the lock of its successor.
Exclusive ==
    \A p, q \in held \ lapsed : p = q

\* A write with StrictLock takes effect once when it reports success and at
\* most once when it does not; without StrictLock the fallback may repeat it.
AppliedOnce ==
    \A p \in Calls :
        /\ Kind[p] = "strict" => applied[p] <= 1
        /\ Kind[p] = "strict" /\ pc[p] = "done" => applied[p] = 1
        /\ Kind[p] = "loose" /\ pc[p] = "done" => applied[p] >= 1

\* A read that fills the cache under the lock misses no write made under the
\* lock: the only writes it can be behind are unlocked ones.
FillUnderLock ==
    \A p \in held \ lapsed : pc[p] = "set" => (got[p] + 1)..doc \subseteq unlocked

\* The cache is empty or up to date, or some call is about to invalidate it.
Invalidating == {"invalidate", "invalidateBare"}
Coherent == cache \in {Nothing, doc} \/ \E p \in Calls : pc[p] \in Invalidating

\* p's write takes effect but reports an error, after which nothing invalidates.
WriteUnnoticed(p) ==
    applied'[p] > applied[p] /\ pc'[p] \in {"releaseFailed", "failed"}

\* p's invalidation is refused by Redis, or p dies before it.
InvalidationLost(p) ==
    pc[p] \in Invalidating /\ pc'[p] # pc[p] /\ (pc'[p] = "crashed" \/ cache' # Nothing)

\* p fills the cache without the lock, or behind a write made without it.
UnprotectedFill(p) ==
    /\ pc[p] \in {"set", "setBare"} /\ pc'[p] # pc[p]
    /\ p \in held \ lapsed => \E v \in unlocked : v > got[p]

\* A stale copy has one of three causes: a write whose error hides that it took
\* effect, an invalidation that was lost, or a fill outside the lock's cover.
\* Calls that lock, and whose calls succeed, never leave one behind.
StaleNeedsCause ==
    [][Coherent /\ ~Coherent' =>
         \E p \in Calls : WriteUnnoticed(p) \/ InvalidationLost(p) \/ UnprotectedFill(p)]_vars

\* No call waits for another: until it is over it can take a step, whoever has
\* the lock and whatever Redis answers.
NeverBlocked ==
    \A p \in Calls : ENABLED <<Step(p)>>_vars <=> pc[p] \notin Over

\* How a call has ended for its caller, and what a read has handed out.
outcome ==
    [p \in Calls |->
       IF pc[p] = "done" THEN "done" ELSE IF pc[p] \in Over THEN "failed" ELSE "pending"]
seen == [p \in Calls |-> IF Kind[p] = "read" /\ pc[p] = "done" THEN got[p] ELSE Nothing]

Document == INSTANCE StoredDocument

\* For its callers the layer is a document: with all its caching, locking, falling
\* back and invalidating, a write takes effect during its call as often as its
\* kind allows, never without effect when it reports success, and a read returns
\* a committed state.
ImplementsDocument == Document!Spec

\* The parts of the inductive invariant behind these.  The calls inside WithLock
\* are those that have a release ahead, and one whose lock has not lapsed owns
\* the key.
Inside == {"getAgain", "load", "set", "write", "invalidate", "release", "releaseFailed"}

LockOwned ==
    /\ \A p \in Calls : p \in held <=> pc[p] \in Inside
    /\ \A p \in held \ lapsed : lock = {p}

LabelsOf(kind) ==
    Over \cup
    CASE kind = "read" -> {"get", "lock", "getAgain", "load", "set", "loadBare", "setBare",
                           "release", "releaseFailed"}
      [] kind = "strict" -> {"lock", "write", "invalidate", "release", "releaseFailed"}
      [] kind = "loose" -> {"lock", "write", "invalidate", "release", "releaseFailed",
                            "writeBare", "invalidateBare"}
      [] kind = "txn" -> {"begin", "commit", "invalidateBare"}

\* How often p's write can have taken effect where p is now.
Tally(p) ==
    /\ pc[p] \in LabelsOf(Kind[p])
    /\ Kind[p] = "read" => applied[p] = 0
    /\ pc[p] \in {"lock", "write", "begin", "commit"} => applied[p] = 0
    /\ pc[p] \in {"releaseFailed", "writeBare"} => applied[p] <= 1
    /\ Kind[p] \in {"strict", "txn"} => applied[p] <= 1
    /\ Kind[p] \in {"strict", "loose"} /\ pc[p] \in {"invalidate", "release"} =>
         applied[p] = 1
    /\ Kind[p] # "read" /\ pc[p] \in {"invalidateBare", "done"} => applied[p] >= 1

\* What a read is about to return was committed.
ReadsCommitted ==
    \A p \in Calls :
        Kind[p] = "read" /\ pc[p] \in {"set", "setBare", "release", "done"} => got[p] \in 0..doc

IInv ==
    /\ TypeOK
    /\ LockOwned
    /\ ReadsCommitted
    /\ \A p \in Calls : Tally(p)
    /\ CommittedOnly
    /\ FillUnderLock

\* How many steps a call has ahead of it at most.
Ahead(label) ==
    IF label \in Over THEN 0
    ELSE IF label \in {"setBare", "invalidateBare", "release"} THEN 1
    ELSE IF label \in {"loadBare", "writeBare", "set", "invalidate", "commit"} THEN 2
    ELSE IF label \in {"releaseFailed", "begin"} THEN 3
    ELSE IF label \in {"load", "write"} THEN 4
    ELSE IF label = "getAgain" THEN 5
    ELSE IF label = "lock" THEN 6
    ELSE 7

\* A call only goes forward: whatever fails, no step takes it back to the lock,
\* or to a load or write that it has left.
OnlyForward ==
    [][\A p \in Calls : pc'[p] = pc[p] \/ Ahead(pc'[p]) < Ahead(pc[p])]_vars

\* Every call returns, whatever Redis does: nothing waits for a lock.
CallsReturn == \A p \in Calls : <>(pc[p] \in Over)

\* What calls leave in Redis does not last: once they are over, a stale copy and
\* the lock of a call that died end with their TTLs, and nothing comes back.
NothingLeftBehind ==
    (\A p \in Calls : pc[p] \in Over) ~> [](cache = Nothing /\ lock = {})

\* The fairness of a call and of the two TTLs with ENABLED written out: by
\* NeverBlocked a call can step until it is over, and an entry or lock can end
\* while it is there.
StepsTaken(p) == []<>(pc[p] \in Over) \/ []<><<Step(p)>>_vars
EntriesEnd == []<>(cache = Nothing) \/ []<><<CacheExpires>>_vars
LocksEnd == []<>(lock = {}) \/ []<><<LockExpires>>_vars
=============================================================================
